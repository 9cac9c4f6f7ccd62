------------------------------ MODULE Startup ------------------------------
(* What main does before it launches the lcores (src/src/main.c:268-302): the *)
(* options and the configuration file are parsed, DPDK is initialised, and    *)
(* the arrays that lcore_tx walks through are filled. Each call of DPDK may   *)
(* fail. The values that reach the launch are those of Generator's GenInit.   *)
EXTENDS Integers, Sequences, FiniteSets

CONSTANTS
  Rates, Durations, Flows, Sizes, Seeds,  \* values of -r, -t, -f, -s, -x
  Ratios,       \* values a line of [requests_ratio] may have
  Types,        \* TOTAL_RTYPES
  Builds,       \* compiled with -DRESP or not
  Texts,        \* digits a service time may have, 0 for the time 0
  NameLen,      \* of the types that have a name in RESP: its length
  RespSize,     \* bytes of resp_buff
  Scale,        \* 1000: sample_uniform draws from 0 .. Scale - 1
  Ports,        \* 2^16: source ports are reduced to this
  MinSize,      \* min_frame_size
  DefaultSeed,  \* DEFAULT_SEED
  LibcSeed,     \* what rand() starts from when nothing calls srand()
  NoSeed

ASSUME StartupAssumption ==
  /\ Rates \subseteq Nat /\ Durations \subseteq Nat /\ Flows \subseteq Nat
  /\ Sizes \subseteq Nat /\ Ratios \subseteq Nat
  /\ Builds \subseteq BOOLEAN /\ Texts \subseteq 0 .. 10
  /\ NameLen \in Seq(1 .. 9) /\ RespSize \in Nat
  /\ Types \in Nat \ {0} /\ Scale \in Nat \ {0} /\ Ports \in Nat \ {0}
  /\ {LibcSeed, NoSeed} \cap (Seeds \cup {DefaultSeed}) = {}

VARIABLES
  args,      \* options getopt has not returned yet, with their values
  at,        \* the call main is at
  status,    \* "running", or how the process ended
  rate, duration, nr_flows, frame_size, seed, distribution,
  ratio,     \* cfg_request_types[].ratio
  resp, text, \* the build; the service time of all types (bound of the model)
  up,        \* what DPDK has given: pools, port, ring, arrays
  rteSeed,   \* what rte_rand() was seeded with
  gapSeed,   \* the seed the gaps were drawn from
  flow_indexes_array, request_types,
  resp_len,  \* where the NUL of resp_buff is, of each request
  src_port   \* control_blocks[].src_port

opts   == <<rate, duration, nr_flows, frame_size, seed, distribution, ratio, resp, text>>
arrays == <<gapSeed, flow_indexes_array, request_types, resp_len, src_port>>
uvars  == <<args, at, status, opts, up, rteSeed, arrays>>

TypeIds == 0 .. Types - 1

(* main, in the order of its calls; the last one stands for the launch.       *)
Calls == {"parse", "srand", "pool_rx", "pool_tx", "port", "incoming", "flows",
          "gaps", "types", "blocks", "rings", "launch"}

Resources == {"pool_rx", "pool_tx", "port", "incoming", "flows", "gaps", "types", "rings"}

nr_elements == rate * duration

UTypeOK ==
  /\ at \in Calls
  /\ status \in {"running", "rte_exit", "exit", "sigfpe", "segv"}
  /\ rate \in Rates \cup {0} /\ duration \in Durations \cup {0}
  /\ nr_flows \in Flows \cup {0}
  /\ frame_size \in Sizes \cup {0} /\ (frame_size # 0 => frame_size >= MinSize)
  /\ seed \in Seeds \cup {DefaultSeed}
  /\ distribution \in {"none", "uniform", "random"}
  /\ ratio \in [TypeIds -> Ratios \cup {0}]
  /\ resp \in Builds /\ text \in Texts \cup {0}
  /\ up \subseteq Resources
  /\ src_port \in [0 .. Cardinality(DOMAIN src_port) - 1 -> 0 .. Ports - 1]

(* A command line: each option once or not at all. -q and -p are documented,  *)
(* or known to getopt, and have no case.                                      *)
Options == {"d", "r", "f", "s", "t", "c", "x", "q"}

ValuesOf(o) ==
  CASE o = "d" -> {"uniform", "random", "unknown"}  \* random: the other three
    [] o = "r" -> Rates
    [] o = "f" -> Flows
    [] o = "s" -> Sizes
    [] o = "t" -> Durations
    [] o = "c" -> [TypeIds -> Ratios]
    [] o = "x" -> Seeds
    [] o = "q" -> {"any"}

UInit ==
  /\ args \in SUBSET Options
  /\ at = "parse" /\ status = "running"
  /\ rate = 0 /\ duration = 0 /\ nr_flows = 0 /\ frame_size = 0
  /\ seed = DefaultSeed /\ distribution = "none"
  /\ ratio = [t \in TypeIds |-> 0]
  /\ up = {} /\ rteSeed = NoSeed /\ gapSeed = NoSeed
  /\ resp \in Builds /\ text \in (IF resp /\ "c" \in args THEN Texts ELSE {0})
  /\ flow_indexes_array = <<>> /\ request_types = <<>> /\ resp_len = <<>>
  /\ src_port = <<>>

-----------------------------------------------------------------------------
Quit(how) == status' = how /\ UNCHANGED <<at, opts, up, rteSeed, arrays>>

(* Mutant: the size is not tested.                                            *)
AnySize(v) == TRUE

(* The test of case 's', the only option whose value is tested at all.        *)
SizeOK(v) == v >= MinSize

Refused(o, v) ==
  \/ o = "q"
  \/ o = "d" /\ v = "unknown"
  \/ o = "s" /\ ~SizeOK(v)

SetOption(o, v) ==
  /\ distribution' = IF o = "d" THEN v ELSE distribution
  /\ rate'       = IF o = "r" THEN v ELSE rate
  /\ nr_flows'   = IF o = "f" THEN v ELSE nr_flows
  /\ frame_size' = IF o = "s" THEN v ELSE frame_size
  /\ duration'   = IF o = "t" THEN v ELSE duration
  /\ ratio'      = IF o = "c" THEN v ELSE ratio
  /\ seed'       = IF o = "x" THEN v ELSE seed
  /\ UNCHANGED <<resp, text>>

(* One option that getopt returns. A size that is too small, a distribution   *)
(* that is unknown, and an option without a case end the process; so may the  *)
(* configuration file (missing, or without classification_time).              *)
ParseOption ==
  /\ status = "running" /\ at = "parse"
  /\ \E o \in args : \E v \in ValuesOf(o) :
       /\ args' = args \ {o}
       /\ \/ /\ ~Refused(o, v) /\ SetOption(o, v)
             /\ UNCHANGED <<at, status, up, rteSeed, arrays>>
          \/ Refused(o, v) /\ Quit("rte_exit")
          \/ o = "c" /\ Quit("rte_exit")

Parsed ==
  /\ status = "running" /\ at = "parse" /\ args = {}
  /\ at' = "srand"
  /\ UNCHANGED <<args, status, opts, up, rteSeed, arrays>>

At(call) == status = "running" /\ at = call /\ UNCHANGED <<args, opts>>

(* init_DPDK seeds rte_rand(). Its test of min_lcores comes first and never   *)
(* fails, for min_lcores is 0.                                                *)
Srand ==
  /\ At("srand") /\ at' = "pool_rx" /\ rteSeed' = seed
  /\ UNCHANGED <<status, up, arrays>>

Fails(call) ==
  /\ At(call) /\ status' = "rte_exit" /\ UNCHANGED <<at, up, rteSeed, arrays>>

Gets(call, next) ==
  /\ At(call) /\ at' = next /\ up' = up \cup {call}
  /\ UNCHANGED <<status, rteSeed, arrays>>

CreatePools ==
  \/ Gets("pool_rx", "pool_tx") \/ Fails("pool_rx")
  \/ Gets("pool_tx", "port") \/ Fails("pool_tx")

(* init_DPDK_port: the first of its calls that fails is returned, and ends    *)
(* the process.                                                               *)
InitPort == Gets("port", "incoming") \/ Fails("port")

CreateIncoming == Gets("incoming", "flows") \/ Fails("incoming")

CreateRings == Gets("rings", "launch") \/ Fails("rings")

(* An index of a flow is an uint16_t.                                         *)
FlowOf(i) == (i % nr_flows) % Ports

CreateFlows ==
  \/ Fails("flows")
  \/ /\ At("flows")
     /\ IF nr_flows = 0 /\ nr_elements > 0
          THEN status' = "sigfpe" /\ UNCHANGED <<at, up, flow_indexes_array>>
          ELSE /\ at' = "gaps" /\ up' = up \cup {"flows"} /\ UNCHANGED status
               /\ flow_indexes_array' = [i \in 0 .. nr_elements - 1 |-> FlowOf(i)]
     /\ UNCHANGED <<rteSeed, gapSeed, request_types, resp_len, src_port>>

(* The gaps of a uniform load are all the same; those of the other three      *)
(* distributions are drawn with rand(), which nothing has seeded.             *)
CreateGaps ==
  \/ Fails("gaps")
  \/ /\ At("gaps")
     /\ IF distribution = "none"
          THEN status' = "exit" /\ UNCHANGED <<at, up, gapSeed>>
          ELSE /\ at' = "types" /\ up' = up \cup {"gaps"} /\ UNCHANGED status
               /\ gapSeed' = IF distribution = "random" /\ nr_elements > 0
                            THEN LibcSeed ELSE gapSeed
     /\ UNCHANGED <<rteSeed, flow_indexes_array, request_types, resp_len, src_port>>

(* What is left of the number drawn when the loop is at type t.               *)
Left(r) ==
  LET left[t \in 0 .. Types] == IF t = 0 THEN r ELSE left[t - 1] - ratio[t - 1]
  IN  left

(* Mutant: <= for <.                                                          *)
TypeOfAtMost(r) ==
  LET hits == {t \in TypeIds : Left(r)[t] <= ratio[t]}
  IN  IF hits = {} THEN Types ELSE CHOOSE t \in hits : \A u \in hits : t <= u

(* The first type whose ratio is greater than what is left; none, when the    *)
(* ratios do not add up to Scale, which nothing checks: then t is Types.      *)
TypeOf(r) ==
  LET hits == {t \in TypeIds : Left(r)[t] < ratio[t]}
  IN  IF hits = {} THEN Types ELSE CHOOSE t \in hits : \A u \in hits : t <= u

(* uint_to_str: of the time 0 it copies a character nobody has written, which *)
(* may be a NUL.                                                              *)
TextLens == IF text = 0 THEN {0, 1} ELSE {text}

(* A bulk string of n bytes: "$n\r\n", the bytes, "\r\n".                     *)
Bulk(n) == 5 + (IF n < 10 THEN 1 ELSE 2) + n

Encoded(t, n) == 4 + Bulk(NameLen[t + 1]) + Bulk(n)

(* resp_encode of the name and the time: -1 as soon as snprintf had to cut.   *)
RespEncode(t, n) == IF Encoded(t, n) >= RespSize THEN -1 ELSE Encoded(t, n)

Named(t) == t < Len(NameLen)

(* What may come of a request. One without a type is counted, and its service *)
(* time looked up, past the end of the two arrays: anything may come of it.   *)
(* In a RESP build its type needs a name, and its text must fit.              *)
Outcomes(t, n) ==
  IF t = Types THEN {"segv", IF resp THEN "rte_exit" ELSE "running"}
  ELSE IF resp /\ (Named(t) => RespEncode(t, n) = -1) THEN {"rte_exit"}
  ELSE {"running"}

CreateTypes ==
  \/ Fails("types")
  \/ /\ At("types") /\ at' = "blocks" /\ up' = up \cup {"types"}
     /\ \E draws \in [0 .. nr_elements - 1 -> 0 .. Scale - 1],
           texts \in [0 .. nr_elements - 1 -> IF resp THEN TextLens ELSE {0}] :
          LET all  == DOMAIN draws
              t(j) == TypeOf(draws[j])
              bad  == {j \in all : Outcomes(t(j), texts[j]) # {"running"}}
          IN  /\ request_types' = [j \in all |-> t(j) + 1]
              /\ resp_len' = IF resp /\ bad = {}
                             THEN [j \in all |-> RespEncode(t(j), texts[j])] ELSE resp_len
              /\ IF bad = {} THEN UNCHANGED status
                 ELSE \E j \in bad : /\ \A k \in bad : j <= k
                                    /\ status' \in Outcomes(t(j), texts[j])
     /\ UNCHANGED <<rteSeed, gapSeed, flow_indexes_array, src_port>>

PortOf(i) == (1024 + i) % Ports

(* The allocation is not tested.                                              *)
InitBlocks ==
  /\ At("blocks")
  /\ \/ /\ at' = "rings" /\ UNCHANGED status
        /\ src_port' = [i \in 0 .. nr_flows - 1 |-> PortOf(i)]
     \/ nr_flows > 0 /\ status' = "segv" /\ UNCHANGED <<at, src_port>>
  /\ UNCHANGED <<up, rteSeed, gapSeed, flow_indexes_array, request_types, resp_len>>

UNext ==
  \/ ParseOption \/ Parsed \/ Srand \/ CreatePools \/ InitPort \/ CreateIncoming
  \/ CreateFlows \/ CreateGaps \/ CreateTypes \/ InitBlocks \/ CreateRings

USpec == UInit /\ [][UNext]_uvars
-----------------------------------------------------------------------------
Launched == status = "running" /\ at = "launch"

Sum == LET sum[t \in 0 .. Types] == IF t = 0 THEN 0 ELSE sum[t - 1] + ratio[t - 1]
       IN  sum[Types]

(* Of the Scale numbers that sample_uniform may draw, each type gets as many  *)
(* as its ratio says, and no request is left without a type, when the ratios  *)
(* add up to Scale (util.c:82-95).                                            *)
TypesFollowRatios ==
  (Launched /\ Sum = Scale) =>
    /\ \A t \in TypeIds : Cardinality({r \in 0 .. Scale - 1 : TypeOf(r) = t}) = ratio[t]
    /\ \A j \in DOMAIN request_types : request_types[j] \in 1 .. Types

(* Each request has a flow that exists, the flows get as many requests as one *)
(* another, but one, and two flows have two source ports, as long as there    *)
(* are no more flows than ports (util.c:197-199, udp_util.c:18-36).           *)
FlowsBalanced ==
  LET Of(f) == Cardinality({i \in DOMAIN flow_indexes_array : flow_indexes_array[i] = f})
  IN  Launched =>
        /\ \A i \in DOMAIN flow_indexes_array : flow_indexes_array[i] \in DOMAIN src_port
        /\ nr_flows <= Ports =>
             \A f, g \in 0 .. nr_flows - 1 :
               Of(f) <= Of(g) + 1 /\ (f # g => src_port[f] # src_port[g])

(* The NUL that create_request_types_array writes behind an encoded request   *)
(* is inside resp_buff (util.c:126-130, resp.c:13-29).                        *)
RespInBounds ==
  Launched => \A j \in DOMAIN resp_len : resp_len[j] \in 0 .. RespSize - 1

(* No lcore is launched unless every pool, queue, array and ring is there.    *)
LaunchIsComplete == Launched => up = Resources

(* What reaches the lcores is there, is inside its bounds, and is what the    *)
(* options asked for.                                                         *)
LaunchIsSound == TypesFollowRatios /\ FlowsBalanced /\ RespInBounds /\ LaunchIsComplete
=============================================================================
