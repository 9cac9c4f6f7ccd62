# Verification of udp_generator in TLA+

The repository holds two programs that work together:

- the **generator** (`src/src/`), a DPDK program in C that sends UDP requests on
  a schedule fixed in advance (an open-loop load), time-stamps the answers and
  reports latencies;
- **Shremote** (`src/Shremote/`), a Python program that runs an experiment: it
  starts generators, servers and collectors over SSH at their times, watches
  them, stops them and fetches their logs.

A third part, `src/process/`, turns the results of experiments into the data of
charts. This directory models all three, checks the models with TLC and proves the
safety of the generator, of the configuration, the scheduler, the monitors and the
texts of Shremote, and of the processing of results, with TLAPS. Every definition is
written from the source, and `PROJECT.json` (`map`) gives the lines of each.

## 1. Inventory

| Part | State it keeps | Operations | Interacts through |
|---|---|---|---|
| `lcore_tx` (main.c:191-265) | `next_tsc`, index, counters, TX pool and queue | next request, give up a late one, allocate and fill, spin, send, report | `quit_tx`, the NIC |
| `lcore_rx` (main.c:145-188) | its burst, counters | poll the NIC, stamp, enqueue, report | RX queue and pool, `rx_ring`, `quit_rx` |
| `lcore_rx_ring` (main.c:62-142) | its burst, `incoming_array` | dequeue, record or ignore, free, drain, end | `rx_ring`, RX pool, `quit_rx_ring` |
| main thread (main.c:304-341, util.c:315-385) | launches made, flags, report | launch, sleep, raise three flags, join, print, return | flags, `rte_eal_wait_lcore` |
| start-up (main.c:268-302, util.c, udp_util.c, dpdk_util.c, resp.c) | options, pools, six arrays | parse, seed, allocate, fill, encode | hands everything to the lcores |
| packet filling (udp_util.c:39-98, util.c:460-479) | none | write headers and payload | the mbuf |
| Shremote scheduler (shremote.py:512-891) | plan, `event`, `started`, `stopped` | phases before and after, pick, sleep, start, stop, stop again, kill | monitor threads: `exited`, `event` |
| remote process monitor (remote_process.py, checked_process.py) | `exited`, `first_line`, times | connect, poll, read output, limits, verdict | SSH channel, `event` |
| local processes (local_process.py) | `exited`, `rtn_code` | start, watch, force stop | `event` |
| Shremote configuration (cfg_format*.py, cfg_formatter.py, fmt_config.py; shremote.py:44-386, 529-662) | a tree; commands with their triggers | load, or rewrite the older format and load; resolve aliases, defaults, inherited sections, references; make and link commands; validate | `commands` of the scheduler |
| formatting of texts (fmt_config.py:99-108, 494-568) | `__format_kwargs`, one for all threads | fill in a text | main thread and every thread that connects |
| result processing (process_common.py, process_policys.py, handle_meta.py) | result files, two metadata files | process tests, update entries, rename, remove, concat | files, kept between runs |
| scripts (run/, misc/, run_clients.sh, run_all.sh, process/*.sh) | files | sequential shell | start the above |

What is hard in it: three lcores and main share a ring, two pools, counters and
three flags without locks, and each reads a flag at one point and acts on it at
another; arithmetic on unsigned counters at the end of a run; in Shremote the
main thread decides on what monitor threads change at the same moment, and error
paths cross (a program that fails while another error is being handled, Ctrl-C
at any time, stop commands that do nothing); a configuration that goes through
twenty ordered rewrites before it becomes a plan; texts that several threads fill
in through one dictionary; result files that outlive the experiment they are of,
and runs killed between two writes. `PROJECT.json` (`hazards`) lists
them at their lines with the properties that cover them.

## 2. Modules

| Module | Models | Composes |
|---|---|---|
| `Eal` | clock (`rte_rdtsc`), the quit flags, how the process ends; `ProcessStep` is what the other threads may do to them | |
| `TxPath` | `lcore_tx`, TX pool, TX queue of the NIC | `Eal` |
| `OpenLoop` | abstract: what an open-loop generator promises | |
| `RxPath` | `lcore_rx`, `lcore_rx_ring`, ring, RX pool, RX queue | `Eal` |
| `AnswerLog` | abstract: one FIFO queue from the NIC into a log | |
| `Generator` | main, the network and a server, with both halves | `TxPath`, `RxPath` |
| `Startup` | options, DPDK initialisation, request arrays, RESP encoding | |
| `RemoteProcess` | one program over SSH and its monitor thread | |
| `JobThread` | abstract: what the main thread takes a monitor thread for, "lost" ones included | |
| `Plan` | what a plan must be like to be run: what `Setup` computes and `Scheduler` assumes | |
| `Scheduler` | `ShRemote.run`, with each monitor thread cut down to what main sees (`JobThread`) | `Plan` |
| `ConfigTree` | `FmtConfig` as a tree: lookup, assignment, merge, paths | |
| `ConfigFormat` | `cfg_format.py` and `cfg_formatter.py`: what a configuration is made into; the older format | `ConfigTree` |
| `Setup` | `ShRemote.__init__` and `validate`: from a configuration to an accepted plan, or an exception; the loader is a parameter, which `MCSetup` gives `ConfigFormat` | `ConfigTree`, `Plan` |
| `Formatting` | `format` and `set_format_kwargs` by the main thread and the threads that connect | |
| `Results` | `process_policys.py`, `handle_meta.py` and their files, with runs that are killed | |
| `LcoreProofs`, `GeneratorProofs`, `StartupProofs` | the theorems about the generator: its lcores, the process, its start | |
| `SetupProofs`, `SchedulerProofs`, `RemoteProcessProofs`, `FormattingProofs` | the theorems about Shremote | |
| `ResultsProofs` | the theorems about the processing of results | |
| `MC*` | instances for TLC | |

State and actions follow the code. A thread has a program counter (`txPc`,
`rxPc`, `ringPc`, `mainPc`, `pc`) with one value for each point at which another
thread's step can matter: a step of the model is the code between two reads of
something shared. The variables have the names of the source; a variable the
code does not have is marked `history`. `TxLoop`/`TxSkip`/`TxFill`/`TxSend`/
`TxFinish` are the stretches of the `for` loop of `lcore_tx`; `RxLoop`/`RxPoll`/
`RxForward`/`RxFinish` and `RingDequeue`/`RingProcess`/`RingQuit`/`RingDone` those
of the receivers; `MainQuitTx`, `MainQuitRx` and `MainQuitRing` are the three
stores of `wait_timeout`, one step each. In `Scheduler`, `Top`, `Deps`,
`ListStarts`, ..., `Pick`, `Sleep`, `Woken`, `Recheck` are the generator
`wait_iter_commands` with `sleep_for`, cut where it looks at what monitor threads
write; `Ends` and `Judges` are apart because `poll` sets `exited` before
`monitor_process` has judged the program. `stage` of `RemoteProcess` is the loop a
poll is called from: that of `monitor_process`, the one behind it, or the one in the
`except` of `run_process_monitor`, as an exception of `decode` (`Garbles`) has another
effect in each: in the first two it sets the event, in the third it ends the thread
(`Loses` in `JobThread` and `Scheduler`). `Formatting` cuts a call of `format` at
each access to the shared dictionary (`Copy`, `Give`, `Read`, `Reset`); `Connect` is
one replacement of it by another thread. `Results` has a step for each file that
is opened or written (`WriteResult`, `OpenAs`, `Dump`), as a run may be killed
after each; what the user does in between are `Experiment`, `Clean`, `Rename`,
`Delete` and `Concat`. Loading a configuration is sequential: in `ConfigFormat` it
is a function of the tree, and `Setup` has an action for each stage in which something
may be refused. Operators named in a comment as
mutants are wrong variants of a definition, used to see that a property can fail.

Outside the sources are the NIC, the network and the server, the programs that
Shremote runs, and time. A packet may be lost at any point. What arrives is the
first answer to a request ("answer"), a datagram that is none ("foreign": of
somebody else, or an answer a second time), or a frame that is not recorded
("other": no UDP, or empty). `process_rx_pkt` records the first two alike, as it
looks at neither port nor flow (main.c:68-87), and a foreign one carries any of
`ForeignTimes` as its SEND_TIME; a node keeps the difference as history (`own`).
A remote program may write to both outputs, write what is not text, end with any
code, or never end, and a stop command or a local program may never end either.

Abstractions. A packet is its kind and its time stamps. Time stamps of different
lcores are read from one clock (main.c compares them as if they were). The clock
may stand still or advance between any two steps of the generator. Shremote's
threads are taken to be prompt: time passes while they wait. A command has one
host, so the loops over hosts (shremote.py:450, 480) are one step. Where the code
sorts by time and keeps the order of the file among equals, `Earliest` leaves the
choice open. In `Setup` a text is a name with the fields it reads; the casts of
fields to types are left out, and so is what `$(...)` evaluates to. In `Formatting`
a value is who it belongs to. In `Results` a latency is the load and the
experiment it was measured in, the percentile is always the same, and a rate
folder has one test.

## 3. Runs

All runs set `CHECK_DEADLOCK FALSE` where the program stops at the end, or the
clock at its bound; `remote_process` checks deadlock.

| Run | Question | Bounds |
|---|---|---|
| `tx_path` | Does the sender follow its schedule, count each request once, keep its mbufs? | 4 requests, gaps 0 or 2, TX queue of 2, pool of 3, clock 6 |
| `rx_path` | Are ring, bursts and array one queue, in every interleaving of the two lcores? | 3 packets of any kind, one foreign time in the future, bursts of 2, ring of 5, array of 2, clock 2 |
| `generator` | Is what is reported honest and final, whatever the timing of the shutdown? Does the process end? | 2 requests a tick apart, 3 packets of which 1 stray or foreign, bursts of 1, clock 5 |
| `startup` | Is everything there at the launch, and do the arrays say what the options asked for? | 4 requests, 2 types drawn of 3 numbers, 4 ports, both builds |
| `remote_process` | Which failures reach the scheduler, and what else sets the event? Does the thread end after its program, and only then? | limits of 2 and 4 ticks, interval 3, 3 pieces of output, 2 of them not text, 1 of error output, clock 8 |
| `scheduler` | Is the plan kept, does no stop come early, does the run end with nothing left, and where does it hang if it does not? | 4 commands (timed, triggered in the background, stopped after another, late), 1 more stop, 4 seconds |
| `results` | Does a run that ends write what is in the folders now, aligned and in place, whatever was killed, measured again or edited before? | 2 policies, 3 loads, 2 types, 3 turns of the user, metadata of 4 entries |
| `formatting` | Which wrong values can get into a text when threads share the dictionary, and which never? | 4 texts of 2 commands, one on 2 hosts |
| `setup` | Can a plan that is accepted be run, and does it say what the configuration says? | 4168 configurations in seven families |
| `stolen_pid` | violation: `first_line` is not the PID | as `remote_process`, all output text |
| `lost_command` | violation: the rest of a plan is dropped without an error | 3 commands |
| `format_race` | violation: a text is filled in with the argument of another command | 2 commands |

What each passing run checks; the definitions carry the full statement in a
comment. `TxTypeOK`, `RxTypeOK`, `GenTypeOK`, `STypeOK` and `UTypeOK` are the type
invariants; those of `RemoteProcess` (`PTypeOK`) and `Results` (`RTypeOK`) are only
proved.

- `tx_path`: `TxMbufsSafe` (the pool loses no mbuf, and an allocation never fails),
  `TxAccounting`, and `OpenLoopKept`, the refinement of `OpenLoop`.
- `rx_path`: `RxMbufsSafe` (no mbuf is lost, and the ring has room for every
  burst), `LogIsSound` (the log is in order and no answer has a negative latency),
  `RxAccounting`, and `QueueKept`, the refinement of `AnswerLog`.
- `generator`: `AnswersKept` (answers alone never overrun the array, each foreign
  datagram adds one node at most, and nothing recorded is lost on the way to it),
  `ReportHonest` (`dropped` is real without other frames, the latencies of answers
  with them),
  `AtMostOneBurstLeft`, `ReportStable` (nothing moves while main prints), `Terminates`.
- `startup`: `LaunchIsSound` (types follow the ratios, flows are balanced, the RESP
  encoding stays in its buffer, and everything is there at the launch).
- `remote_process`: `EndsAfterProgram` (but for undecodable output while the thread
  waits in its `except`), `VerdictIsRight` (wrong codes and overruns are reported, and
  nothing sets the event but a failure, undecodable output and other threads),
  `MonitorEnds`, and `SeenAsJob`, the refinement of `JobThread`: what the main thread
  takes a thread for.
- `scheduler`: `PlanInOrder`, `PreparedFirst`, `StopsAreDue`, `NothingLeftRunning`
  (in the code's own sense of "exited"), `CompleteUnlessHalted`, `RunEnds`.
- `results`: `MetadataIsCurrent`, `ColumnsAligned`, `UpdatedInPlace`, `FilesInStep`.
- `formatting`: `HostIsOwn` (the index, address or PID in a text is that of its
  host), `WrongByOthersOnly` (a wrong field, or a text that fails in the run, takes
  a connection being made at that moment).
- `setup`: `PlanCanRun` (triggers lead to a time without a loop; background programs
  with an end can be stopped; each command has a host; some command has a time),
  `MostSpecificWins` (of several settings of one thing the most specific counts, and
  none is missing), `OldFormatLoadsAlike`.

The violation runs check `FirstLineIsPid`, `CompleteUnlessHalted` (on another
plan) and `TextIsOwn`.

Why these bounds are enough to be of interest. The sender meets requests that
are on time, late by the limit, and later, several in a row, with the queue of
the NIC full and with the pool at its last mbuf. The receivers meet empty, partial
and full bursts, a ring with two bursts in it, and an empty pool; the flag of the
second lcore may come before or after the last burst of the first; and three
recorded frames are more than the array holds. In `generator`
two requests and one other frame are enough for `dropped` to be wrong, for the array
to be overrun (two answers and a foreign datagram), for a latency to wrap (its time
is 6, behind the clock) and for a burst to be left in the ring, and the clock runs
past the sleep of `wait_timeout`. Two pieces that are not text are enough for the
first to set the event and the second to end the thread. In `scheduler` each kind of
command occurs once, two of them depend on a third, and the clock passes the end of
the plan, after which all that is due counts as due. The clock of the generator waits
at `MaxLaunchClock` while an lcore has not started: without this bound most of the
clock would be used up before the run begins. `MaxRx`, `MaxStray`, `MaxOut`,
`MaxErr`, `MaxGarbled`, `MaxTime` and `MaxClock` bound the environment only. In
`results` three turns are enough for an experiment, a run that is killed or an edit,
and a run that ends; a policy may be given together with another, and the metadata
may hold its name twice, next to each other or with an entry of another policy in
between, processed or not. In `formatting` three programs are started before any has
connected, so a text can meet the threads of its own command, of its other host and
of another command. The families of `setup` combine, each in full: where a host, its
connection and an argument are given (960 configurations); begins, start and stop
triggers and names of three commands (1728); stops and durations (96); files (24);
two logs (1296); the older format with its counterpart (32) and with `post_cmds`
(32). Run on the same seven families, the Python code accepts the same number of each
as the model: 504, 51, 76, 8, 906, 32 and 0.

Fairness. `GenFairSpec`: main is scheduled by the kernel, each lcore polls on a
CPU of its own, time passes; of the NIC, the network and the server nothing is
assumed. `PFair`: the monitor thread runs and time passes; the remote program may
run for ever, so `MonitorEnds` starts from its end. `SFair`: the main thread goes on
where it waits for nothing outside (`Proceeds`), time passes, and a thread that has
seen its program end judges it; no connection need be answered, no program need end,
on a host or here, and no stop command. `Setup`, `Results` and `Formatting` have no
liveness to check. Fairness of `Main`, or of `Proceeds`, as a whole is enough because
at most one of its steps is enabled at a time but for a choice of the environment.

Liveness properties are `Terminates` (the flags reach all lcores and main joins
them), `MonitorEnds` (no wait of the thread outlasts its program, whatever was
written) and `RunEnds`: a run ends, or main waits for ever for a local program or a
stop command, or in one of the places `WaitsFor` names for a command that does not
end. Neither errors nor the plan hold it up anywhere else; section 4 says which of
these places are defects.

## 4. Where the code and what it says of itself part

Three have a run that ends in the violation.

1. `stolen_pid`. remote_process.py:115 reads output with `recv` when *error*
   output is ready: the PID is lost, and with it the argument of the stop
   commands and of `kill -9`. When no output comes, the call blocks, and no limit
   is enforced: where `VerdictIsRight` speaks of overruns it leaves out a thread
   that is in this call, or has just come from it.
2. `lost_command`. shremote.py:818 looks again for what woke `sleep_for`; when a
   command to be stopped has ended by itself in between, the plan is dropped and
   the run reports success. With the four commands of `scheduler` this cannot
   happen, as the same trigger starts a command there (`CompleteUnlessHalted`); of
   all such plans it is proved (`PlanIsComplete`).
3. `format_race`. fmt_config.py:104 replaces one dictionary for all threads, and
   the thread of each started program does so while it connects
   (remote_process.py:36-38). A command can be run with the argument of another.
   `formatting` shows how far this goes: never to the host's index, address or PID,
   and never without a connection being made at that moment.

Met while modelling, without a run. In the generator:

- lcore_rx_ring "process[es] all remaining packets that are in the RX ring"
  (main.c:129) until the ring is empty once, but does not wait for lcore_rx, which
  may enqueue its last burst after that. At most one burst is lost so
  (`AtMostOneBurstLeft`).
- `process_rx_pkt` records every UDP datagram with a payload, whatever its port and
  flow, and the index of `incoming_array` is never tested (main.c:68-87). A datagram
  of somebody else, or a duplicated answer, can take it past the end of the array
  (`RingProcess`: the write may do no harm that shows, or end the process), and the
  latency of a foreign one wraps: its send time is whatever the payload holds, and the
  assertion of util.c:334 is commented out. `AnswersKept` and `ReportHonest` say how
  far this goes.
- The result of the second `fopen` of `print_stats_output` is not tested
  (util.c:380-384): when the file of the totals cannot be opened the process dies,
  with the latencies written.
- The rates are divided by whole seconds (main.c:182, 259): with `-t 1` and random
  gaps all requests may be sent within the first second, and the process dies of
  the division. `MainPrint` has it.
- `-x` (README.md:41) reaches `rte_srand` only; the gaps are drawn with `rand()`, which
  nothing seeds. `Startup` keeps both seeds apart.
- The sleep of `wait_timeout` is cut to 32 bits (util.c:317), so a run of more than
  71 minutes is told to quit early (`SleepTicks`); `min_lcores` (dpdk_util.c:10) is
  never set, and with fewer than three workers a role is silently not run
  (`RoleRuns`); `-q` (README.md:24, util.c:215) has no case and ends the program;
  README.md:37 says of the duration "we double for warming up", and nothing
  doubles it; `uint_to_str(0)` copies an unwritten byte (util.c:56).

In Shremote:

- Output that cannot be decoded raises in `log_output` (remote_process.py:107, 115;
  `recv(1024)` may cut a character in two). In `monitor_process` that sets the event
  though nothing has failed; in the loop of the `except` (remote_process.py:69), where
  a thread waits after an error, it ends the thread while the program runs: `exited`
  stays FALSE until somebody joins it, and nobody watches the program. If the first
  piece of output is one of these, the PID is lost too.
- shremote.py:807-809 turns without a pause while the plan is done and a command
  runs, and does not look at the event: Ctrl-C is not seen, nor a failed connection,
  after which the command never counts as ended.
- shremote.py:789-793 stops a dependent again and again as long as it has not ended:
  without a limit and without a look at the event, and without a pause when it has no
  stop command. The drain with its 20 attempts and `kill -9` (shremote.py:855-869) is
  never reached. The attempt to state `RunEnds` without assuming that programs end
  showed it.
- A background program counts as exited once its stop was sent (shremote.py:415), so
  nothing looks at it again and `kill -9` is not tried on it; `NothingLeftRunning` is
  about the others.
- The defaults of a program are merged into a command after the defaults of the
  format (cfg_formatter.py:167), so those for a field that has a default itself
  never take effect.
- A command's own `hosts` are replaced by those of its program
  (cfg_formatter.py:78); a list of hosts is meant, and `MostSpecificWins` says so.
- `mapift_cmd_list` (cfg_format_v0.py:47) does not exist: a configuration of the
  older format with `post_cmds` cannot be loaded. Its rewriting skips texts in
  lists, so those of its commands (cfg_format_v0.py:77); of hosts in lists only the
  address is kept (cfg_format_v0.py:56).
- A trigger name is ambiguous only if the second command of that name was
  registered before it was looked up (shremote.py:580-602).
- Logs are compared for the first host and index 0 of each command, and an output
  never with an error output (shremote.py:161-177); with an `out` in the first
  command and none in the second the check fails on `None`.

In the processing of results:

- A type that is no longer answered keeps its old result file, and the metadata
  its old value (process_common.py:295, `force`).
- "update data if already present in file" (process_policys.py:34): `remove_if_present`
  deletes from the list it enumerates and passes over the next entry
  (process_policys.py:12-14), so of two entries of a policy next to each other, as
  `concat_meta` and `rename_policy` can make them, the second stays beside the new
  one. `UpdatedInPlace` says what does hold: an entry of a policy that is not
  processed stands between any two of the name (`Apart`). That an entry of just any
  other policy is not enough, the attempt to prove it showed: of `[afp, psp, afp,
  psp]` with both processed, the first pass deletes both `afp`, which leaves the two
  `psp` next to each other for the second.
- A run killed while it writes leaves an empty metadata file, which ends the next
  run with an exception (process_policys.py:28).

## 5. Proofs

38 theorems are listed in `PROJECT.json`. They hold for every value of the
constants that satisfies the named assumptions, which TLC evaluates in every run
and which hold in the code's own constants:

- `EalAssumption`: the timer has a frequency. `TxAssumption`: the TX pool is larger
  than the TX queue (4096 descriptors, dpdk_util.c:64). `RxAssumption`: the RX pool
  is larger than the RX queue and smaller than the ring (dpdk_util.h).
  `GeneratorAssumption`: the bounds of the environment are natural numbers.
- `StartupAssumption`: what the options may be is a set of natural numbers, a name
  of a request type has at most 9 characters, a service time at most 10 digits.
- `SchedulerAssumption`: a plan is finite and `Validated` (`Plan`), and one of its
  begins comes before the bound of the clock (a run starts at its first begin).
  `ProcessAssumption`: limits and intervals are natural
  numbers. `FormattingAssumption`: a job is a command and a host.
- `SetupAssumption`: the commands of a tree that was loaded are a list. Nothing else
  is assumed of the loader: what is proved of `Setup` holds of whatever it makes of a
  configuration.
- `ResultsAssumption`: there are finitely many rate folders and request types, a
  rate is a natural number, a run is given at least one folder, and what is
  appended to a metadata file is a list of entries.

The generator:

- `LcoreProofs`, the sender. `TxInv` strengthens the type invariant and the conservation of
  mbufs with what couples the program counter to the time (`txPc` past the spin
  means the clock has reached `next_tsc`) and with the counters of the loop.
  `TxTyped`, `TxMbufsKept` (from `TxPoolConserved` and `TxAllocSafe`) and
  `TxCountsRight` follow. The allocation is safe because at most `TxDesc` mbufs
  are at the NIC and none is in the loop's hands when it allocates.
  `TxImplementsOpenLoop` is the refinement of `OpenLoop`: a request that is sent is
  an `Offer`, one that is skipped a `GiveUp`, the NIC's step a `Leave`, the rest
  stutters. It rests on `ScheduleInv`, which says that `next_tsc` is the start plus
  `Due` of the request picked (of the one before it, at the head of the loop). That
  `Due`, a recursive function, exists and adds the gaps up is proved from the least
  counterexample (`DueExists`, `DueIs`).
- `LcoreProofs`, the receivers. `RxInv` is the type invariant, conservation of the RX mbufs,
  the accounting, and `QueueInv`: what is pending (the rest of the burst followed
  by the ring) is stamped with times up to now, in order and not before what is logged,
  and if it is an answer not before its sending; this gives `RxLogSound`. From
  conservation follows that the ring always has room for a burst, so the `rte_exit`
  of main.c:176 is dead code (`RxMbufsKept`). `RxImplementsQueue` proves that the
  receivers implement `AnswerLog` under the mapping `pending <- ringPkts \o rx_ring`.
- `GeneratorProofs`. Every step of the composition is a step of each half, or
  leaves it alone: `GenImplementsTx`, `GenImplementsRx`, so all of the above hold
  of the process. That a request on the wire carries a past time (`WireInPast`) is
  what the second needs from the first. `OrderInv` (the flags are raised in order;
  once lcore_rx_ring is draining lcore_rx has at most its last burst) gives
  `AtMostOneBurst`; `RolesInv` (a role that was launched is done once main has
  joined) gives `NothingMovesAfterJoin`.
- `GeneratorProofs`, the report. `TallyInv` counts the answers wherever they are: a
  request that was sent is in the TX queue, on the wire, an answer under way (RX
  queue, bursts, ring) or in the array, and in one of them only (`AnsweredOnce`,
  which counts the foreign datagrams on top); what was taken from the NIC or waits
  there is recorded, on its way to be, or a stray (`FramesCounted`). The first bounds
  the array by the requests and the foreign datagrams, the second shows that nothing
  is lost: `NoAnswerLostOrTooMany`. `ReportInv` follows the numbers into the report:
  they were read after the join, when nothing moves (`RolesInv`), so `dropped` does
  not wrap if no other frames came, and a node marked `own` has a latency that has
  passed (`PrintsWhatHappened`).
- `StartupProofs`. `StartInv` says what DPDK has given at each call (`UpInOrder`) and
  what the arrays hold once filled (`FlowsFilled`, `TypesDrawn`, `PortsGiven`,
  `TextsFit`). `LaunchSound` follows: the flows are balanced because all but the
  first request of a flow has one before it in every other flow (`FlowShares`, an
  injection), ports differ because fewer flows than ports differ by less than a
  multiple (`NoMultiple`); and the numbers of type `t` are those from the sum of the
  ratios before `t` up to its own (`TypeIs`), of which there are `ratio[t]`.

Shremote:

- `RemoteProcessProofs`. `ProcessInv` is `PTypeOK` with `ShapeInv` (which variables
  are set at which point of the thread, and that it is in the `except` only after an
  overrun or undecodable output), `AgeInv` (how far the last measurement is
  behind the clock: at most the wait, which `max_duration` shortens) and `LimitInv`
  (who set the event). `ThreadOutlivesProgram` and `VerdictRight` follow, with the
  tolerance of an interval for `min_duration` that the code has. `ThreadImplementsJob`
  is the refinement of `JobThread`, step by step: `Poll` and `Recv` are its `Ends` when
  the program is seen to have ended, `Verify` its `Judges`, a `Loop` past the limit its
  `Overruns`, a piece that cannot be decoded its `Garbles` or `Loses`; a wait, a poll
  in between and all output are not seen. It needs of `ShapeInv` that `exited` is
  TRUE only between the last poll and the end.
- `SchedulerProofs`. `SchedulerInv` is `STypeOK` with `PointInv` and `PhaseInv` (what
  is known at each point of the main thread, and between its phases), `PlanInv` (the
  command picked is the earliest that is left), `StopInv` (what is about to be stopped
  is due, and stays so while the main thread sleeps or connects) and `KillInv` (in the
  drain and the stops behind it, what lives and is not in hand was told and
  killed). `SchedulerTyped` and four more hold for every plan, and for every order in which
  dependents that are ready together are taken: the code takes them in the order
  of a list, the model in any. `PlanIsComplete` is about the plans in
  which every command that stops another also starts one (`EveryTriggerStarts`;
  plans without a `stop_after` are among them): a run that reports success has
  started every command. `lost_command` shows that this condition cannot be dropped.
  It rests on `AwakeInv`: while the main thread sleeps, a trigger that ends makes a
  command ready to be started, and that stays true until the second look, as only
  the main thread starts commands, whereas the command to be stopped may be gone.
  `ThreadsAreJobs` closes the gap to `RemoteProcess`: the steps of a thread here are
  those that `JobThread` allows, no more and no less. (`JobThread` may call an
  overrun at `MaxTime`, the bound of the clock here, at which all is due.)
- `SetupProofs`. `SetupInv` has what is loaded (`LoadInv`), what is made of it
  (`MadeInv`: from `register` on every command has a host, and a trigger is a command
  or none) and what the walks through the commands have found so far (`LinkInv`, with
  `Past` for those behind `at`). What
  `dependencies_contain` does is stated without a walk: a command waits for what is
  in every set that holds its triggers and those of its members (`Reached`).
  `LoopsAreFound`: no command is found to wait for itself, or to lead to one that
  does, exactly when of any set of commands one waits for none of the set
  (`Acyclic`). If none is found, each trigger of a command reaches less than the
  command, so the one of a set that reaches least waits for none of it (`LoopFree`);
  and if one reaches itself, each command that reaches it waits for another such
  (`NoLoopFound`). So `AcceptedPlansRun`: a plan that is accepted satisfies
  `Validated`, which `SchedulerAssumption` takes for granted, and as of all its
  commands one waits for none, some command has a time.
- `FormattingProofs`. `HostInv`: the dictionary holds a value for a host only while
  the main thread fills in a text of that host, because every copy of an entry, by
  any thread, starts with none (`EntryHasNoHost`); so a text and a started command
  have the host of their own job (`HostsKept`). For the other fields the same
  argument fails, which is what `format_race` finds; `TextInv` says how far: what
  the dictionary, and a text, hold is of the own command or of one that has
  connected since the text was begun (`WrongOnlyByOthers`).

The processing of results:

- `ResultsProofs`. `ResultsInv` is `RTypeOK` with what is left to do (`RestInv`: the
  folders not yet written are the rest of those given), what has been read
  (`FreshInv`, `WritingInv`: the result files of a load that is not waiting any
  more, or not in hand, are of the test in its folder) and what is to be in a
  metadata file (`DocInv`), which is in memory until it is written (`Doc`): for each
  policy that was written so far the last entry of its name is that of its last
  folder, the entries of others are as they were read, and if those of a name
  were apart, they are still apart, or there is one. So `EntriesAreCurrent`,
  `OthersUntouched` and `ColumnsStayAligned` hold when a run has ended, whatever was
  killed, measured again or edited before. `NamesInv` says of both files that they
  hold the same names at the same places, in memory too (`NamesInStep`): what
  `remove_if_present` passes over depends on the names alone (`SameNames`).
  The steps rest on lemmas about `RemoveIfPresent`, `OthersIn` and the rates in their
  order: that a recursive function adds one entry at a time is proved from the
  least counterexample, and that a finite set of numbers can be sorted (`Sorted`)
  by taking away the greatest of a least set that cannot.

Some modules were changed for the proofs. Two were cut finer, where they had not
been faithful: the thread of a remote program ends in a step after its last look
at the program, and a dependent that has been started meanwhile is not started
again. In `Results`, what the library's `SelectSeq` and `SortSeq` did is now said by
functions of the module, as the prover knows nothing of those two; and the
precondition of `UpdatedInPlace` was wrong (section 4). `Setup` no longer reaches the
walk through the tree: its loader is a parameter, its names are a set of entries, and
what a command waits for is the least closed set in place of a recursion; of its
seven families of configurations it accepts as many as before. What `Scheduler` asked of a
plan left out loops through stops, which `validate` refuses; it now takes from `Plan`
what `Setup` is proved to make sure of.

Only model-checked, and why:

- Liveness under fairness (`Terminates`, `MonitorEnds`, `RunEnds`): out of the
  prover's reach.
- `MostSpecificWins` and `OldFormatLoadsAlike`: they say what loading makes of a
  configuration, and the walk through the tree in `ConfigFormat` is a RECURSIVE
  operator, which takes the prover its arithmetic.
- That threads of `RemoteProcess` side by side, with the clock of `Scheduler`, are its
  threads is not stated: the two theorems above speak of one thread at a time.

## 6. Not modelled

Of the configuration: the parser and evaluation of `$(...)` (fmt_config.py:378-473),
the casts to types, include files, and the warnings that rename
`program.enforce_duration` (it changes a copy that no command uses). Of the
results: percentiles, averages and confidence intervals, CPU usage and interrupts,
several tests in a folder, `concat_policy` and the scripts that move folders. The
logger, set-up and shell scripts (sequential, no shared state); the content
of packet headers; the values of the four distributions (floating point;
`Startup` has what they are drawn with); `force_stop` and the reader threads of
local processes; several hosts for one command; a command with both `begin` and
`start_after`; counters near 2^64.

## 7. Plan

Done, in this order: the sender and its promise; the receivers and their queue;
the composed process and its shutdown, with proofs; the remote process monitor;
the scheduler with its phases; start-up; the processing of results; the
configuration from tree to plan; the formatting of texts by several threads.

Proved since: all safety invariants of the generator, of start-up, of the scheduler,
of the remote process monitor, of the formatting of texts and of the processing of
results; the refinements of `OpenLoop`, `AnswerLog` and `JobThread`; and of `Setup` that
the plans it accepts are those `Scheduler` can run.

Next, to extend: `LocalProcess` (watch, `force_stop`, join after an event) and
its place in `Scheduler`; several hosts in `Start` and `Stop`; `Scheduler` composed
with full `RemoteProcess` threads; `Startup` composed with `Generator`; a gap that never ends
(util.c:11); the retry loop of run_clients.sh.
