---------------------------- MODULE StartupProofs ----------------------------
(* Theorems about the start-up, for every command line, configuration and     *)
(* size of the buffers: what reaches the lcores is complete and in bounds,    *)
(* the flows get the same share of the requests, and the types the share that *)
(* their ratios say.                                                          *)
EXTENDS Startup, FiniteSetTheorems, TLAPS

-----------------------------------------------------------------------------
(* What DPDK has given when main is at a call: all that comes before it.      *)
Before(call) ==
  CASE call \in {"parse", "srand", "pool_rx"} -> {}
    [] call = "pool_tx"  -> {"pool_rx"}
    [] call = "port"     -> {"pool_rx", "pool_tx"}
    [] call = "incoming" -> {"pool_rx", "pool_tx", "port"}
    [] call = "flows"    -> {"pool_rx", "pool_tx", "port", "incoming"}
    [] call = "gaps"     -> {"pool_rx", "pool_tx", "port", "incoming", "flows"}
    [] call = "types"    -> {"pool_rx", "pool_tx", "port", "incoming", "flows", "gaps"}
    [] call \in {"blocks", "rings"} -> Resources \ {"rings"}
    [] call = "launch"   -> Resources

UpInOrder == up = Before(at)

(* What the arrays hold once they are filled; the options do not change then. *)
FlowsFilled ==
  at \in {"gaps", "types", "blocks", "rings", "launch"} =>
    /\ flow_indexes_array = [i \in 0 .. nr_elements - 1 |-> FlowOf(i)]
    /\ nr_elements > 0 => nr_flows > 0

TypesDrawn ==
  at \in {"blocks", "rings", "launch"} =>
    \A j \in DOMAIN request_types :
      \E r \in 0 .. Scale - 1 : request_types[j] = TypeOf(r) + 1

PortsGiven ==
  src_port = IF at \in {"rings", "launch"} THEN [i \in 0 .. nr_flows - 1 |-> PortOf(i)]
             ELSE <<>>

TextsFit == \A j \in DOMAIN resp_len : resp_len[j] \in 0 .. RespSize - 1

StartInv ==
  UTypeOK /\ UpInOrder /\ FlowsFilled /\ TypesDrawn /\ PortsGiven /\ TextsFit

(* TypeOf, Left and Sum of a table.                                            *)
LeftIn(q, r) ==
  LET left[t \in 0 .. Types] == IF t = 0 THEN r ELSE left[t - 1] - q[t - 1]
  IN  left

TypeIn(q, r) ==
  LET hits == {t \in TypeIds : LeftIn(q, r)[t] < q[t]}
  IN  IF hits = {} THEN Types ELSE CHOOSE t \in hits : \A u \in hits : t <= u

SumIn(q) ==
  LET sum[t \in 0 .. Types] == IF t = 0 THEN 0 ELSE sum[t - 1] + q[t - 1]
  IN  sum[Types]
-----------------------------------------------------------------------------
(* A set of natural numbers that is not empty has a least one.                *)
LEMMA LeastOf ==
  ASSUME NEW S, S \subseteq Nat, S # {}
  PROVE  \E n \in S : \A m \in S : n <= m
<1>1. PICK n \in S : \A m \in S : ~(<<m, n>> \in OpToRel(<, Nat))
  BY NatLessThanWellFounded, WFMin
<1>2. ASSUME NEW m \in S PROVE n <= m
  <2>1. ~(m < n)
    BY <1>1 DEF OpToRel
  <2> QED
    BY <2>1
<1> QED
  BY <1>2

(* The type of a number drawn is one of the table, or none: Types.            *)
LEMMA TypeOfTyped ==
  ASSUME NEW r PROVE TypeOf(r) \in 0 .. Types
<1> DEFINE hits == {t \in TypeIds : Left(r)[t] < ratio[t]}
<1>1. CASE hits = {}
  BY <1>1, StartupAssumption DEF TypeOf
<1>2. CASE hits # {}
  <2>1. hits \subseteq Nat
    BY StartupAssumption DEF TypeIds
  <2>2. PICK t \in hits : \A u \in hits : t <= u
    BY <1>2, <2>1, LeastOf
  <2>3. TypeOf(r) = CHOOSE x \in hits : \A u \in hits : x <= u
    BY <1>2 DEF TypeOf
  <2>4. TypeOf(r) \in hits
    BY <2>2, <2>3
  <2> QED
    BY <2>4, StartupAssumption DEF TypeIds
<1> QED
  BY <1>1, <1>2

LEMMA Count == UTypeOK => nr_elements \in Nat
  BY StartupAssumption DEF UTypeOK, nr_elements

LEMMA StartInit == UInit => StartInv
<1> SUFFICES ASSUME UInit PROVE StartInv
  OBVIOUS
<1>1. UTypeOK
  <2>1. src_port \in [0 .. Cardinality(DOMAIN src_port) - 1 -> 0 .. Ports - 1]
    BY FS_EmptySet DEF UInit
  <2>2. ratio \in [TypeIds -> Ratios \cup {0}]
    BY DEF UInit
  <2>3. text \in Texts \cup {0}
    BY DEF UInit
  <2> QED
    BY <2>1, <2>2, <2>3 DEF UInit, UTypeOK, Calls
<1>2. UpInOrder
  BY DEF UInit, UpInOrder, Before
<1>3. FlowsFilled /\ TypesDrawn /\ PortsGiven /\ TextsFit
  BY DEF UInit, FlowsFilled, TypesDrawn, PortsGiven, TextsFit
<1> QED
  BY <1>1, <1>2, <1>3 DEF StartInv

-----------------------------------------------------------------------------
LEMMA SameTypes ==
  ASSUME ratio' = ratio, NEW r
  PROVE  TypeOf(r)' = TypeOf(r)
<1>1. TypeOf(r)' = TypeIn(ratio', r)
  BY DEF TypeOf, TypeIn, Left, LeftIn
<1>2. TypeOf(r) = TypeIn(ratio, r)
  BY DEF TypeOf, TypeIn, Left, LeftIn
<1> QED
  BY <1>1, <1>2

(* A call of main that leaves the arrays alone.                               *)
LEMMA QuietCall ==
  ASSUME StartInv, UNCHANGED <<opts, arrays>>,
         at' \in Calls, status' \in {"running", "rte_exit", "exit", "sigfpe", "segv"},
         up' = Before(at'),
         at' \in {"gaps", "types", "blocks", "rings", "launch"} =>
           at \in {"gaps", "types", "blocks", "rings", "launch"},
         at' \in {"blocks", "rings", "launch"} => at \in {"blocks", "rings", "launch"},
         at' \in {"rings", "launch"} <=> at \in {"rings", "launch"}
  PROVE  StartInv'
<1>1. UTypeOK'
  <2>1. Before(at') \subseteq Resources
    BY DEF Before, Resources, Calls
  <2> QED
    BY <2>1 DEF StartInv, UTypeOK, opts, arrays
<1>2. UpInOrder'
  BY DEF UpInOrder, Before
<1>3. FlowsFilled'
  BY DEF StartInv, FlowsFilled, FlowOf, nr_elements, opts, arrays
<1>4. TypesDrawn'
  <2>1. ratio' = ratio
    BY DEF opts
  <2>2. ASSUME NEW r PROVE TypeOf(r)' = TypeOf(r)
    BY <2>1, SameTypes
  <2>3. request_types' = request_types
    BY DEF arrays
  <2> QED
    BY <2>2, <2>3 DEF StartInv, TypesDrawn
<1>5. PortsGiven' /\ TextsFit'
  BY DEF StartInv, PortsGiven, PortOf, TextsFit, opts, arrays
<1> QED
  BY <1>1, <1>2, <1>3, <1>4, <1>5 DEF StartInv

LEMMA ParseKept == StartInv /\ ParseOption => StartInv'
<1> SUFFICES ASSUME StartInv, ParseOption PROVE StartInv'
  OBVIOUS
<1>0. at = "parse"
  BY DEF ParseOption
<1>1. CASE \E how \in {"rte_exit"} : Quit(how)
  <2>1. /\ UNCHANGED <<opts, arrays>> /\ at' = at /\ up' = up /\ status' = "rte_exit"
    BY <1>1 DEF Quit
  <2>2. at' \in Calls /\ up' = Before(at')
    BY <2>1 DEF StartInv, UTypeOK, UpInOrder
  <2> QED
    BY <2>1, <2>2, <1>0, QuietCall
<1>2. ASSUME NEW o, NEW v \in ValuesOf(o), ~Refused(o, v), SetOption(o, v),
             UNCHANGED <<at, status, up, rteSeed, arrays>>
      PROVE  StartInv'
  <2>1. rate' \in Rates \cup {0} /\ nr_flows' \in Flows \cup {0}
        /\ duration' \in Durations \cup {0} /\ seed' \in Seeds \cup {DefaultSeed}
    BY <1>2 DEF SetOption, ValuesOf, StartInv, UTypeOK
  <2>2. frame_size' \in Sizes \cup {0} /\ (frame_size' # 0 => frame_size' >= MinSize)
    BY <1>2 DEF SetOption, ValuesOf, Refused, SizeOK, StartInv, UTypeOK
  <2>3. distribution' \in {"none", "uniform", "random"}
    BY <1>2 DEF SetOption, ValuesOf, Refused, StartInv, UTypeOK
  <2>4. ratio' \in [TypeIds -> Ratios \cup {0}]
    <3>1. CASE o = "c"
      BY <1>2, <3>1 DEF SetOption, ValuesOf
    <3>2. CASE o # "c"
      BY <1>2, <3>2 DEF SetOption, StartInv, UTypeOK
    <3> QED
      BY <3>1, <3>2
  <2>5. resp' \in Builds /\ text' \in Texts \cup {0}
    BY <1>2 DEF SetOption, StartInv, UTypeOK
  <2>6. UTypeOK'
    BY <1>2, <2>1, <2>2, <2>3, <2>4, <2>5 DEF StartInv, UTypeOK, arrays
  <2>7. UpInOrder'
    BY <1>2 DEF StartInv, UpInOrder
  <2>8. FlowsFilled' /\ TypesDrawn'
    BY <1>0, <1>2 DEF FlowsFilled, TypesDrawn
  <2>9. PortsGiven' /\ TextsFit'
    BY <1>0, <1>2 DEF StartInv, PortsGiven, TextsFit, arrays
  <2> QED
    BY <2>6, <2>7, <2>8, <2>9 DEF StartInv
<1> QED
  BY <1>1, <1>2 DEF ParseOption

(* The calls of DPDK: one that fails leaves main where it is, and one that    *)
(* succeeds adds what it gives.                                               *)
LEMMA CallKept ==
  StartInv /\ (Parsed \/ Srand \/ CreatePools \/ InitPort \/ CreateIncoming \/ CreateRings)
    => StartInv'
<1> SUFFICES ASSUME StartInv, Parsed \/ Srand \/ CreatePools \/ InitPort
                              \/ CreateIncoming \/ CreateRings
             PROVE  StartInv'
  OBVIOUS
<1>1. UNCHANGED <<opts, arrays>>
  BY DEF Parsed, Srand, CreatePools, InitPort, CreateIncoming, CreateRings, Gets, Fails, At
<1>2. at \in Calls /\ up = Before(at)
  BY DEF StartInv, UTypeOK, UpInOrder
<1>3. CASE \E call \in {"pool_rx", "pool_tx", "port", "incoming", "rings"} : Fails(call)
  BY <1>1, <1>2, <1>3, QuietCall DEF Fails
<1>4. CASE Parsed \/ Srand
  BY <1>1, <1>2, <1>4, QuietCall DEF Parsed, Srand, At, Before, Calls, StartInv, UTypeOK
<1>5. CASE \/ Gets("pool_rx", "pool_tx") \/ Gets("pool_tx", "port")
           \/ Gets("port", "incoming") \/ Gets("incoming", "flows")
  BY <1>1, <1>2, <1>5, QuietCall DEF Gets, At, Before, Calls, StartInv, UTypeOK
<1>6. CASE Gets("rings", "launch")
  <2>1. up' = Before(at')
    BY <1>2, <1>6 DEF Gets, At, Before, Resources
  <2> QED
    BY <1>1, <1>6, <2>1, QuietCall DEF Gets, At, Calls, StartInv, UTypeOK
<1> QED
  BY <1>3, <1>4, <1>5, <1>6 DEF CreatePools, InitPort, CreateIncoming, CreateRings

(* Each request gets a flow, which there is, or the division by no flow ends  *)
(* the process.                                                               *)
LEMMA FlowsKept == StartInv /\ CreateFlows => StartInv'
<1> SUFFICES ASSUME StartInv, CreateFlows PROVE StartInv'
  OBVIOUS
<1>0. at = "flows" /\ up = Before(at) /\ UNCHANGED opts
  BY DEF CreateFlows, Fails, At, StartInv, UpInOrder
<1>1. CASE at' = at
  <2>1. UNCHANGED <<opts, arrays>> /\ up' = up
    BY <1>0, <1>1 DEF CreateFlows, Fails, At, arrays
  <2>2. status' \in {"rte_exit", "sigfpe"}
    BY <1>0, <1>1 DEF CreateFlows, Fails
  <2> QED
    BY <1>0, <1>1, <2>1, <2>2, QuietCall DEF Calls
<1>2. CASE at' # at
  <2>1. /\ at' = "gaps" /\ up' = up \cup {"flows"} /\ status' = status
        /\ ~(nr_flows = 0 /\ nr_elements > 0)
        /\ flow_indexes_array' = [i \in 0 .. nr_elements - 1 |-> FlowOf(i)]
        /\ UNCHANGED <<request_types, resp_len, src_port>>
    BY <1>2 DEF CreateFlows, Fails
  <2>2. UTypeOK'
    BY <1>0, <2>1 DEF StartInv, UTypeOK, Resources, Calls, opts
  <2>3. UpInOrder'
    BY <1>0, <2>1 DEF UpInOrder, Before
  <2>4. nr_elements > 0 => nr_flows > 0
    BY <2>1, StartupAssumption DEF StartInv, UTypeOK
  <2>5. FlowsFilled'
    BY <1>0, <2>1, <2>4 DEF FlowsFilled, FlowOf, nr_elements, opts
  <2>6. TypesDrawn' /\ PortsGiven' /\ TextsFit'
    BY <1>0, <2>1 DEF StartInv, TypesDrawn, PortsGiven, TextsFit
  <2> QED
    BY <2>2, <2>3, <2>5, <2>6 DEF StartInv
<1> QED
  BY <1>1, <1>2

LEMMA GapsKept == StartInv /\ CreateGaps => StartInv'
<1> SUFFICES ASSUME StartInv, CreateGaps PROVE StartInv'
  OBVIOUS
<1>0. at = "gaps" /\ up = Before(at) /\ UNCHANGED opts
      /\ UNCHANGED <<flow_indexes_array, request_types, resp_len, src_port>>
  BY DEF CreateGaps, Fails, At, StartInv, UpInOrder, arrays
<1>1. \/ at' = at /\ up' = up /\ status' \in {"rte_exit", "exit"}
      \/ at' = "types" /\ up' = up \cup {"gaps"} /\ status' = status
  BY <1>0 DEF CreateGaps, Fails
<1>2. UTypeOK'
  BY <1>0, <1>1 DEF StartInv, UTypeOK, Resources, Calls, opts
<1>3. UpInOrder'
  BY <1>0, <1>1 DEF UpInOrder, Before
<1>4. FlowsFilled'
  BY <1>0, <1>1 DEF StartInv, FlowsFilled, FlowOf, nr_elements, opts
<1>5. TypesDrawn' /\ PortsGiven' /\ TextsFit'
  BY <1>0, <1>1 DEF StartInv, TypesDrawn, PortsGiven, TextsFit
<1> QED
  BY <1>2, <1>3, <1>4, <1>5 DEF StartInv

(* The text of a request whose type has a name fits, or the process ends.     *)
LEMMA TextFits ==
  ASSUME NEW t \in 0 .. Types, NEW n \in 0 .. 10, resp, Outcomes(t, n) = {"running"}
  PROVE  RespEncode(t, n) \in 0 .. RespSize - 1
<1>1. t # Types
  BY DEF Outcomes
<1>2. Named(t) /\ RespEncode(t, n) # -1
  BY <1>1 DEF Outcomes
<1>3. NameLen[t + 1] \in 1 .. 9
  <2>1. t + 1 \in 1 .. Len(NameLen)
    BY <1>2, StartupAssumption DEF Named
  <2> QED
    BY <2>1, StartupAssumption
<1>4. Encoded(t, n) \in Nat
  BY <1>3 DEF Encoded, Bulk
<1> QED
  BY <1>2, <1>4, StartupAssumption DEF RespEncode

LEMMA TypesKept == StartInv /\ CreateTypes => StartInv'
<1> SUFFICES ASSUME StartInv, CreateTypes PROVE StartInv'
  OBVIOUS
<1>0. at = "types" /\ up = Before(at) /\ UNCHANGED opts
  BY DEF CreateTypes, Fails, At, StartInv, UpInOrder
<1>1. CASE Fails("types")
  BY <1>0, <1>1, QuietCall DEF Fails, Calls
<1>2. CASE ~Fails("types")
  <2> DEFINE Requests == 0 .. nr_elements - 1
  <2>1. /\ at' = "blocks" /\ up' = up \cup {"types"}
        /\ UNCHANGED <<rteSeed, gapSeed, flow_indexes_array, src_port>>
    BY <1>2 DEF CreateTypes
  <2>2. PICK draws \in [Requests -> 0 .. Scale - 1],
             texts \in [Requests -> IF resp THEN TextLens ELSE {0}] :
          LET all  == DOMAIN draws
              t(j) == TypeOf(draws[j])
              bad  == {j \in all : Outcomes(t(j), texts[j]) # {"running"}}
          IN  /\ request_types' = [j \in all |-> t(j) + 1]
              /\ resp_len' = IF resp /\ bad = {}
                             THEN [j \in all |-> RespEncode(t(j), texts[j])] ELSE resp_len
              /\ IF bad = {} THEN UNCHANGED status
                 ELSE \E j \in bad : /\ \A k \in bad : j <= k
                                    /\ status' \in Outcomes(t(j), texts[j])
    BY <1>2, Zenon DEF CreateTypes
  <2> DEFINE bad == {j \in Requests : Outcomes(TypeOf(draws[j]), texts[j]) # {"running"}}
  <2>3. DOMAIN draws = Requests
    BY <2>2
  <2>4. status' \in {"running", "rte_exit", "exit", "sigfpe", "segv"}
    <3>1. ASSUME NEW j \in bad PROVE Outcomes(TypeOf(draws[j]), texts[j])
                                     \subseteq {"running", "rte_exit", "segv"}
      BY DEF Outcomes
    <3> QED
      BY <2>2, <2>3, <3>1 DEF StartInv, UTypeOK
  <2>5. UTypeOK'
    BY <1>0, <2>1, <2>4 DEF StartInv, UTypeOK, Resources, Calls, opts
  <2>6. UpInOrder'
    BY <1>0, <2>1 DEF UpInOrder, Before, Resources
  <2>7. FlowsFilled'
    BY <1>0, <2>1 DEF StartInv, FlowsFilled, FlowOf, nr_elements, opts
  <2>8. TypesDrawn'
    <3>1. ratio' = ratio
      BY <1>0 DEF opts
    <3>2. ASSUME NEW j \in DOMAIN request_types'
          PROVE  \E r \in 0 .. Scale - 1 : request_types'[j] = TypeOf(r)' + 1
      <4>1. j \in Requests /\ request_types'[j] = TypeOf(draws[j]) + 1
        BY <2>2, <2>3
      <4>2. PICK r \in 0 .. Scale - 1 : r = draws[j]
        BY <2>2, <4>1
      <4>3. TypeOf(r)' = TypeOf(r)
        BY <3>1, SameTypes
      <4> QED
        BY <4>1, <4>2, <4>3
    <3> QED
      BY <3>2 DEF TypesDrawn
  <2>9. PortsGiven'
    BY <1>0, <2>1 DEF StartInv, PortsGiven
  <2>10. TextsFit'
    <3>1. CASE ~(resp /\ bad = {})
      <4>1. resp_len' = resp_len
        BY <2>2, <2>3, <3>1
      <4> QED
        BY <4>1 DEF StartInv, TextsFit
    <3>2. CASE resp /\ bad = {}
      <4>1. resp_len' = [j \in Requests |-> RespEncode(TypeOf(draws[j]), texts[j])]
        BY <2>2, <2>3, <3>2
      <4>2. ASSUME NEW j \in Requests
            PROVE  RespEncode(TypeOf(draws[j]), texts[j]) \in 0 .. RespSize - 1
        <5>1. Outcomes(TypeOf(draws[j]), texts[j]) = {"running"}
          BY <3>2
        <5>2. texts[j] \in 0 .. 10
          <6>1. texts[j] \in TextLens
            BY <3>2
          <6>2. TextLens \subseteq 0 .. 10
            BY StartupAssumption DEF TextLens, StartInv, UTypeOK
          <6> QED
            BY <6>1, <6>2
        <5>3. TypeOf(draws[j]) \in 0 .. Types
          BY TypeOfTyped
        <5> QED
          BY <3>2, <5>1, <5>2, <5>3, TextFits
      <4> QED
        BY <4>1, <4>2 DEF TextsFit
    <3> QED
      BY <3>1, <3>2
  <2> QED
    BY <2>5, <2>6, <2>7, <2>8, <2>9, <2>10 DEF StartInv
<1> QED
  BY <1>1, <1>2

LEMMA BlocksKept == StartInv /\ InitBlocks => StartInv'
<1> SUFFICES ASSUME StartInv, InitBlocks PROVE StartInv'
  OBVIOUS
<1>0. /\ at = "blocks" /\ up' = up /\ up = Before(at) /\ UNCHANGED opts
      /\ UNCHANGED <<flow_indexes_array, request_types, resp_len>>
  BY DEF InitBlocks, At, StartInv, UpInOrder
<1>1. CASE at' = at
  <2>1. status' = "segv" /\ src_port' = src_port
    BY <1>0, <1>1 DEF InitBlocks
  <2>2. UNCHANGED <<opts, arrays>>
    BY <1>0, <2>1 DEF InitBlocks, arrays
  <2> QED
    BY <1>0, <1>1, <2>1, <2>2, QuietCall DEF Calls
<1>2. CASE at' # at
  <2>1. /\ at' = "rings" /\ status' = status
        /\ src_port' = [i \in 0 .. nr_flows - 1 |-> PortOf(i)]
    BY <1>2 DEF InitBlocks
  <2>2. src_port' \in [0 .. Cardinality(DOMAIN src_port') - 1 -> 0 .. Ports - 1]
    <3>1. nr_flows \in Nat /\ Ports \in Nat \ {0}
      BY StartupAssumption DEF StartInv, UTypeOK
    <3>2. Cardinality(0 .. nr_flows - 1) = nr_flows
      BY <3>1, FS_Interval
    <3>3. \A i \in 0 .. nr_flows - 1 : PortOf(i) \in 0 .. Ports - 1
      BY <3>1 DEF PortOf
    <3> QED
      BY <2>1, <3>2, <3>3
  <2>3. UTypeOK'
    BY <1>0, <2>1, <2>2 DEF StartInv, UTypeOK, Calls, opts
  <2>4. UpInOrder'
    BY <1>0, <2>1 DEF UpInOrder, Before
  <2>5. FlowsFilled'
    BY <1>0, <2>1 DEF StartInv, FlowsFilled, FlowOf, nr_elements, opts
  <2>6. TypesDrawn'
    <3>1. ratio' = ratio
      BY <1>0 DEF opts
    <3>2. ASSUME NEW r PROVE TypeOf(r)' = TypeOf(r)
      BY <3>1, SameTypes
    <3> QED
      BY <1>0, <3>2 DEF StartInv, TypesDrawn
  <2>7. PortsGiven'
    BY <1>0, <2>1 DEF PortsGiven, PortOf, opts
  <2>8. TextsFit'
    BY <1>0 DEF StartInv, TextsFit
  <2> QED
    BY <2>3, <2>4, <2>5, <2>6, <2>7, <2>8 DEF StartInv
<1> QED
  BY <1>1, <1>2

LEMMA StartupInvariant == USpec => []StartInv
<1>1. UInit => StartInv
  BY StartInit
<1>2. StartInv /\ [UNext]_uvars => StartInv'
  <2> SUFFICES ASSUME StartInv, [UNext]_uvars PROVE StartInv'
    OBVIOUS
  <2>1. CASE UNCHANGED uvars
    BY <2>1, QuietCall DEF uvars, StartInv, UTypeOK, UpInOrder
  <2>2. CASE ParseOption
    BY <2>2, ParseKept
  <2>3. CASE Parsed \/ Srand \/ CreatePools \/ InitPort \/ CreateIncoming \/ CreateRings
    BY <2>3, CallKept
  <2>4. CASE CreateFlows
    BY <2>4, FlowsKept
  <2>5. CASE CreateGaps
    BY <2>5, GapsKept
  <2>6. CASE CreateTypes
    BY <2>6, TypesKept
  <2>7. CASE InitBlocks
    BY <2>7, BlocksKept
  <2> QED
    BY <2>1, <2>2, <2>3, <2>4, <2>5, <2>6, <2>7 DEF UNext
<1> QED
  BY <1>1, <1>2, PTL DEF USpec

(* Every variable of the start-up stays in its range: a size that was given   *)
(* is no smaller than the headers, a source port fits in 16 bits              *)
(* (main.c:268-302, util.c:285-301).                                          *)
THEOREM StartupTyped == USpec => []UTypeOK
<1>1. StartInv => UTypeOK
  BY DEF StartInv
<1> QED
  BY <1>1, StartupInvariant, PTL

-----------------------------------------------------------------------------
(* Division: a multiple of n that is less than n away from 0 is 0, and so the *)
(* remainder is the only one there is.                                        *)
LEMMA Division ==
  ASSUME NEW x \in Nat, NEW n \in Nat \ {0}
  PROVE  x = n * (x \div n) + (x % n) /\ x % n \in 0 .. n - 1 /\ x \div n \in Nat
OBVIOUS

LEMMA NoMultiple ==
  ASSUME NEW n \in Nat \ {0}, NEW k \in Int, n * k < n, -n < n * k
  PROVE  k = 0
<1>1. CASE k >= 1
  <2>1. n * (k - 1) >= 0
    BY <1>1
  <2>2. n * (k - 1) = n * k - n
    OBVIOUS
  <2> QED
    BY <2>1, <2>2
<1>2. CASE k <= -1
  <2>1. n * (-k - 1) >= 0
    BY <1>2
  <2>2. n * (-k - 1) = -(n * k) - n
    OBVIOUS
  <2> QED
    BY <2>1, <2>2
<1> QED
  BY <1>1, <1>2

LEMMA SameRemainder ==
  ASSUME NEW x \in Nat, NEW y \in Nat, NEW n \in Nat \ {0},
         x % n = y % n, x - y < n, y - x < n
  PROVE  x = y
<1> DEFINE a == x \div n
           b == y \div n
           m == x % n
<1>1. x = n * a + m /\ a \in Nat /\ m \in 0 .. n - 1
  BY Division
<1>2. y = n * b + m /\ b \in Nat
  BY Division
<1> HIDE DEF a, b, m
<1>3. n * (a - b) = x - y
  <2>1. n * (a - b) = n * a - n * b
    BY <1>1, <1>2
  <2> QED
    BY <1>1, <1>2, <2>1
<1>4. a - b = 0
  BY <1>1, <1>2, <1>3, NoMultiple
<1> QED
  BY <1>1, <1>2, <1>4

LEMMA Remainder ==
  ASSUME NEW q \in Nat, NEW n \in Nat \ {0}, NEW r \in 0 .. n - 1
  PROVE  (n * q + r) % n = r
<1> DEFINE x == n * q + r
           d == x \div n
           m == x % n
<1>0. n * q \in Nat /\ x \in Nat
  OBVIOUS
<1>1. x = n * d + m /\ m \in 0 .. n - 1 /\ d \in Nat
  BY <1>0, Division
<1>2. x = n * q + r
  OBVIOUS
<1>3. m = r
  <2> HIDE DEF x, d, m
  <2>1. n * (q - d) = m - r
    <3>1. n * (q - d) = n * q - n * d
      BY <1>1
    <3> QED
      BY <1>0, <1>1, <1>2, <3>1
  <2>2. q - d = 0
    BY <1>1, <2>1, NoMultiple
  <2> QED
    BY <1>1, <1>2, <2>2
<1> QED
  BY <1>3

(* Of the first N numbers, one remainder is met at most once more often than  *)
(* another: all but the first number that leaves f have one before them that  *)
(* leaves g.                                                                  *)
LEMMA FlowShares ==
  ASSUME NEW N \in Nat, NEW F \in Nat \ {0}, NEW f \in 0 .. F - 1, NEW g \in 0 .. F - 1
  PROVE  Cardinality({i \in 0 .. N - 1 : i % F = f})
           <= Cardinality({i \in 0 .. N - 1 : i % F = g}) + 1
<1> DEFINE A == {i \in 0 .. N - 1 : i % F = f}
           B == {i \in 0 .. N - 1 : i % F = g}
           shift == [i \in A \ {f} |-> i - F - f + g]
<1>1. IsFiniteSet(A) /\ IsFiniteSet(B) /\ Cardinality(A) \in Nat /\ Cardinality(B) \in Nat
  <2>1. IsFiniteSet(0 .. N - 1)
    BY FS_Interval
  <2>2. IsFiniteSet(A) /\ IsFiniteSet(B)
    BY <2>1, FS_Subset
  <2> HIDE DEF A, B
  <2> QED
    BY <2>2, FS_CardinalityType
<1>2. ASSUME NEW i \in A \ {f} PROVE shift[i] \in B
  <2> DEFINE q == i \div F
  <2>1. i \in 0 .. N - 1 /\ i % F = f /\ i # f
    OBVIOUS
  <2>2. i = F * q + f /\ q \in Nat
    BY <2>1, Division
  <2> HIDE DEF q
  <2>3. q # 0
    <3> SUFFICES ASSUME q = 0 PROVE FALSE
      OBVIOUS
    <3>1. F * q = 0
      OBVIOUS
    <3> QED
      BY <2>1, <2>2, <3>1
  <2>4. F * q = F * (q - 1) + F /\ F * (q - 1) \in Nat
    BY <2>2, <2>3
  <2>5. i - F - f + g = F * (q - 1) + g
    BY <2>2, <2>4
  <2>6. (i - F - f + g) % F = g
    BY <2>2, <2>3, <2>5, Remainder
  <2>7. i - F - f + g \in 0 .. N - 1
    BY <2>1, <2>4, <2>5
  <2> QED
    BY <2>6, <2>7
<1>3. shift \in Injection(A \ {f}, B)
  <2>1. \A i, j \in A \ {f} : shift[i] = shift[j] => i = j
    OBVIOUS
  <2>2. shift \in [A \ {f} -> B]
    BY <1>2
  <2> QED
    BY <2>1, <2>2 DEF Injection, IsInjective
<1>4. Cardinality(A \ {f}) <= Cardinality(B)
  BY <1>1, <1>3, FS_Injection
<1>5. Cardinality(A) <= Cardinality(A \ {f}) + 1 /\ Cardinality(A \ {f}) \in Int
  BY <1>1, FS_RemoveElement
<1> QED
  BY <1>1, <1>4, <1>5

(* A launch has flows that are there, that get the same share, and that have  *)
(* ports of their own.                                                        *)
LEMMA FlowsShared == StartInv => FlowsBalanced
<1> SUFFICES ASSUME StartInv, Launched PROVE FlowsBalanced
  BY DEF FlowsBalanced
<1> DEFINE N == nr_elements
           F == nr_flows
           Of(f) == Cardinality({i \in DOMAIN flow_indexes_array : flow_indexes_array[i] = f})
<1>1. N \in Nat /\ F \in Nat /\ Ports \in Nat \ {0} /\ (N > 0 => F > 0)
  BY Count, StartupAssumption DEF StartInv, UTypeOK, FlowsFilled, Launched
<1>2. /\ flow_indexes_array = [i \in 0 .. N - 1 |-> FlowOf(i)]
      /\ src_port = [i \in 0 .. F - 1 |-> PortOf(i)]
  BY DEF StartInv, FlowsFilled, PortsGiven, Launched
<1> HIDE DEF N
<1>3. ASSUME NEW i \in 0 .. N - 1 PROVE i \in Nat /\ F \in Nat \ {0} /\ FlowOf(i) \in 0 .. F - 1
  <2>1. i \in Nat /\ F \in Nat \ {0}
    BY <1>1
  <2>2. i % F \in 0 .. F - 1
    BY <2>1
  <2>3. (i % F) % Ports \in Nat /\ (i % F) % Ports <= i % F
    BY <1>1, <2>2
  <2> QED
    BY <2>1, <2>2, <2>3 DEF FlowOf
<1>4. \A i \in DOMAIN flow_indexes_array : flow_indexes_array[i] \in DOMAIN src_port
  BY <1>2, <1>3
<1>5. ASSUME F <= Ports, NEW f \in 0 .. F - 1, NEW g \in 0 .. F - 1
      PROVE  Of(f) <= Of(g) + 1
  <2>1. \A i \in 0 .. N - 1 : FlowOf(i) = i % F
    <3>1. ASSUME NEW i \in 0 .. N - 1 PROVE FlowOf(i) = i % F
      <4>1. i % F \in 0 .. F - 1
        BY <1>3
      <4>2. (i % F) % Ports = i % F
        BY <1>1, <1>5, <4>1
      <4> QED
        BY <4>2 DEF FlowOf
    <3> QED
      BY <3>1
  <2>2. \A h \in 0 .. F - 1 : Of(h) = Cardinality({i \in 0 .. N - 1 : i % F = h})
    <3>1. ASSUME NEW h \in 0 .. F - 1
          PROVE  {i \in DOMAIN flow_indexes_array : flow_indexes_array[i] = h}
                   = {i \in 0 .. N - 1 : i % F = h}
      BY <1>2, <2>1
    <3> QED
      BY <3>1
  <2>3. F \in Nat \ {0}
    BY <1>1
  <2>4. Cardinality({i \in 0 .. N - 1 : i % F = f})
          <= Cardinality({i \in 0 .. N - 1 : i % F = g}) + 1
    BY <1>1, <2>3, FlowShares
  <2> QED
    BY <2>2, <2>4
<1>6. ASSUME F <= Ports, NEW f \in 0 .. F - 1, NEW g \in 0 .. F - 1, src_port[f] = src_port[g]
      PROVE  f = g
  <2>1. (1024 + f) % Ports = (1024 + g) % Ports
    BY <1>2, <1>6 DEF PortOf
  <2>2. 1024 + f \in Nat /\ 1024 + g \in Nat
        /\ (1024 + f) - (1024 + g) < Ports /\ (1024 + g) - (1024 + f) < Ports
    BY <1>1, <1>6
  <2>3. 1024 + f = 1024 + g
    <3> DEFINE x == 1024 + f
               y == 1024 + g
    <3>1. x \in Nat /\ y \in Nat /\ x % Ports = y % Ports /\ x - y < Ports /\ y - x < Ports
      BY <2>1, <2>2
    <3> HIDE DEF x, y
    <3>2. x = y
      BY <1>1, <3>1, SameRemainder
    <3> QED
      BY <3>2 DEF x, y
  <2> QED
    BY <1>1, <2>3
<1> QED
  BY <1>4, <1>5, <1>6 DEF FlowsBalanced

-----------------------------------------------------------------------------
(* The ratios of the types before t add up to prefix[t].                      *)
IsPrefix(q, prefix) ==
  /\ prefix \in [0 .. Types -> Nat] /\ prefix[0] = 0
  /\ \A t \in 1 .. Types : prefix[t] = prefix[t - 1] + q[t - 1]

LEMMA PrefixExists ==
  ASSUME NEW q \in [TypeIds -> Nat]
  PROVE  \E prefix : IsPrefix(q, prefix)
<1> DEFINE Upto(n, p) == /\ p \in [0 .. n -> Nat] /\ p[0] = 0
                         /\ \A t \in 1 .. n : p[t] = p[t - 1] + q[t - 1]
           None == {n \in 0 .. Types : ~ \E p : Upto(n, p)}
<1>0. Types \in Nat \ {0}
  BY StartupAssumption
<1>1. SUFFICES ASSUME None # {} PROVE FALSE
  <2>1. Types \in 0 .. Types /\ None = {}
    BY <1>0, <1>1
  <2>2. \E p : Upto(Types, p)
    <3> HIDE DEF Upto
    <3> QED
      BY <2>1
  <2> QED
    BY <2>2 DEF IsPrefix
<1>2. None \subseteq Nat
  BY <1>0
<1>3. PICK n \in None : \A m \in None : n <= m
  BY <1>1, <1>2, LeastOf
<1>4. CASE n = 0
  <2>1. Upto(0, [t \in 0 .. 0 |-> 0])
    OBVIOUS
  <2> QED
    BY <1>3, <1>4, <2>1
<1>5. CASE n # 0
  <2>1. n - 1 \in 0 .. Types /\ n \in 1 .. Types /\ n - 1 \in TypeIds /\ n \in Nat
    BY <1>0, <1>2, <1>3, <1>5 DEF TypeIds
  <2>2. n - 1 \notin None
    <3> HIDE DEF None
    <3> QED
      BY <1>3, <2>1
  <2>3. PICK p : Upto(n - 1, p)
    BY <2>1, <2>2
  <2> DEFINE s == [t \in 0 .. n |-> IF t < n THEN p[t] ELSE p[n - 1] + q[n - 1]]
  <2>4. s \in [0 .. n -> Nat]
    <3>1. ASSUME NEW t \in 0 .. n PROVE s[t] \in Nat
      <4>1. CASE t < n
        BY <2>1, <2>3, <4>1
      <4>2. CASE ~(t < n)
        <5>1. p[n - 1] \in Nat /\ q[n - 1] \in Nat
          BY <2>1, <2>3
        <5> QED
          BY <4>2, <5>1
      <4> QED
        BY <4>1, <4>2
    <3> QED
      BY <3>1
  <2>5. s[0] = 0
    BY <2>1, <2>3
  <2>6. ASSUME NEW t \in 1 .. n PROVE s[t] = s[t - 1] + q[t - 1]
    <3>1. CASE t < n
      BY <2>1, <2>3, <3>1
    <3>2. CASE t = n
      BY <2>1, <3>2
    <3> QED
      BY <2>1, <3>1, <3>2
  <2>7. Upto(n, s)
    BY <2>4, <2>5, <2>6
  <2> QED
    BY <1>3, <2>7
<1> QED
  BY <1>4, <1>5

LEMMA PrefixGrows ==
  ASSUME NEW q \in [TypeIds -> Nat], NEW prefix, IsPrefix(q, prefix),
         NEW s \in 0 .. Types, NEW t \in 0 .. Types, s <= t
  PROVE  prefix[s] <= prefix[t]
<1> DEFINE Below == {n \in s .. Types : prefix[n] < prefix[s]}
<1>0. Types \in Nat \ {0}
  BY StartupAssumption
<1>1. SUFFICES ASSUME Below # {} PROVE FALSE
  <2>1. t \notin Below /\ t \in s .. Types
    BY <1>0, <1>1
  <2>2. prefix[s] \in Nat /\ prefix[t] \in Nat
    BY DEF IsPrefix
  <2> QED
    BY <2>1, <2>2
<1>2. Below \subseteq Nat
  BY <1>0
<1>3. PICK n \in Below : \A m \in Below : n <= m
  BY <1>1, <1>2, LeastOf
<1>4. n # s
  <2>1. prefix[s] \in Nat /\ prefix[n] < prefix[s]
    BY DEF IsPrefix
  <2> QED
    BY <2>1
<1>5. n - 1 \in s .. Types /\ n \in 1 .. Types /\ n - 1 \in TypeIds /\ n \in Nat
  BY <1>0, <1>2, <1>4 DEF TypeIds
<1>6. ~(prefix[n - 1] < prefix[s])
  BY <1>3, <1>5
<1>7. prefix[n] = prefix[n - 1] + q[n - 1] /\ q[n - 1] \in Nat
  BY <1>5 DEF IsPrefix
<1>8. prefix[n - 1] \in Nat /\ prefix[s] \in Nat /\ prefix[n] < prefix[s]
  BY <1>5 DEF IsPrefix
<1>9. PICK a, b, c : a = prefix[n - 1] /\ b = prefix[n] /\ c = prefix[s]
  OBVIOUS
<1>10. /\ a \in Nat /\ c \in Nat /\ q[n - 1] \in Nat
       /\ ~(a < c) /\ b = a + q[n - 1] /\ b < c
  BY <1>6, <1>7, <1>8, <1>9, Zenon
<1> QED
  BY <1>10

(* What is left at type t is the number drawn less the ratios before it.      *)
LEMMA LeftIs ==
  ASSUME NEW q \in [TypeIds -> Nat], NEW prefix, IsPrefix(q, prefix), NEW r \in Int
  PROVE  \A t \in 0 .. Types : LeftIn(q, r)[t] = r - prefix[t]
<1> DEFINE Step(f) == [t \in 0 .. Types |-> IF t = 0 THEN r ELSE f[t - 1] - q[t - 1]]
           given == [t \in 0 .. Types |-> r - prefix[t]]
           f == LeftIn(q, r)
<1>0. Types \in Nat \ {0}
  BY StartupAssumption
<1>1. given = Step(given)
  <2>1. ASSUME NEW t \in 0 .. Types PROVE given[t] = Step(given)[t]
    <3>1. CASE t = 0
      BY <3>1 DEF IsPrefix
    <3>2. CASE t # 0
      <4>1. t \in 1 .. Types /\ t - 1 \in 0 .. Types /\ t - 1 \in TypeIds
        BY <1>0, <3>2 DEF TypeIds
      <4>2. prefix[t] = prefix[t - 1] + q[t - 1] /\ prefix[t - 1] \in Nat /\ q[t - 1] \in Nat
        BY <4>1 DEF IsPrefix
      <4>3. given[t] = r - prefix[t] /\ given[t - 1] = r - prefix[t - 1]
        BY <4>1
      <4>4. Step(given)[t] = given[t - 1] - q[t - 1]
        BY <3>2
      <4> QED
        BY <4>2, <4>3, <4>4
    <3> QED
      BY <3>1, <3>2
  <2> QED
    BY <2>1
<1>2. f = Step(f)
  BY <1>1 DEF LeftIn
<1> DEFINE Other == {n \in 0 .. Types : f[n] # r - prefix[n]}
<1>3. SUFFICES ASSUME Other # {} PROVE FALSE
  BY <1>3
<1>4. Other \subseteq Nat
  BY <1>0
<1>5. PICK n \in Other : \A m \in Other : n <= m
  BY <1>3, <1>4, LeastOf
<1> HIDE DEF f
<1>6. n # 0
  <2>1. f[0] = r /\ prefix[0] = 0
    BY <1>0, <1>2 DEF IsPrefix
  <2> QED
    BY <2>1
<1>7. n \in 1 .. Types /\ n - 1 \in 0 .. Types /\ n - 1 \in TypeIds /\ n \in Nat
  BY <1>0, <1>4, <1>6 DEF TypeIds
<1>8. f[n - 1] = r - prefix[n - 1]
  BY <1>5, <1>7
<1>9. f[n] = f[n - 1] - q[n - 1]
  BY <1>2, <1>6, <1>7
<1>10. prefix[n] = prefix[n - 1] + q[n - 1] /\ prefix[n - 1] \in Nat /\ q[n - 1] \in Nat
  BY <1>7 DEF IsPrefix
<1> QED
  BY <1>8, <1>9, <1>10

LEMMA SumIs ==
  ASSUME NEW q \in [TypeIds -> Nat], NEW prefix, IsPrefix(q, prefix)
  PROVE  SumIn(q) = prefix[Types]
<1> DEFINE Step(f) == [t \in 0 .. Types |-> IF t = 0 THEN 0 ELSE f[t - 1] + q[t - 1]]
           f == CHOOSE sum : sum = Step(sum)
<1>0. Types \in Nat \ {0}
  BY StartupAssumption
<1>1. prefix = Step(prefix)
  BY <1>0 DEF IsPrefix
<1>2. f = Step(f)
  BY <1>1
<1>3. SumIn(q) = f[Types]
  BY DEF SumIn
<1> DEFINE Other == {n \in 0 .. Types : f[n] # prefix[n]}
<1> HIDE DEF f
<1>4. SUFFICES ASSUME Other # {} PROVE FALSE
  BY <1>0, <1>3, <1>4
<1>5. Other \subseteq Nat
  BY <1>0
<1>6. PICK n \in Other : \A m \in Other : n <= m
  BY <1>4, <1>5, LeastOf
<1>7. n # 0
  BY <1>0, <1>2 DEF IsPrefix
<1>8. n \in 1 .. Types /\ n - 1 \in 0 .. Types /\ n \in Nat
  BY <1>0, <1>5, <1>7
<1>9. f[n - 1] = prefix[n - 1]
  BY <1>6, <1>8
<1>10. f[n] = f[n - 1] + q[n - 1]
  BY <1>2, <1>7, <1>8
<1> QED
  BY <1>8, <1>9, <1>10 DEF IsPrefix

(* A number has type t when it is one of the ratio[t] numbers behind those of *)
(* the types before.                                                          *)
LEMMA TypeIs ==
  ASSUME NEW q \in [TypeIds -> Nat], NEW prefix, IsPrefix(q, prefix),
         NEW r \in 0 .. prefix[Types] - 1
  PROVE  /\ TypeIn(q, r) \in TypeIds
         /\ r \in prefix[TypeIn(q, r)] .. prefix[TypeIn(q, r) + 1] - 1
<1> DEFINE hits == {t \in TypeIds : LeftIn(q, r)[t] < q[t]}
<1>0. Types \in Nat \ {0} /\ r \in Int
  BY StartupAssumption DEF IsPrefix
<1>1. ASSUME NEW t \in TypeIds PROVE t \in hits <=> r < prefix[t + 1]
  <2>1. t \in 0 .. Types /\ t + 1 \in 1 .. Types /\ (t + 1) - 1 = t
    BY <1>0 DEF TypeIds
  <2>2. prefix[t + 1] = prefix[t] + q[t]
    BY <2>1 DEF IsPrefix
  <2>3. LeftIn(q, r)[t] = r - prefix[t]
    BY <1>0, <2>1, LeftIs
  <2>4. prefix[t] \in Nat /\ q[t] \in Nat
    BY <2>1 DEF IsPrefix
  <2> QED
    BY <1>0, <2>2, <2>3, <2>4
<1>2. hits # {}
  <2>1. Types - 1 \in TypeIds /\ (Types - 1) + 1 = Types
    BY <1>0 DEF TypeIds
  <2>2. r < prefix[Types]
    BY <1>0 DEF IsPrefix
  <2>3. Types - 1 \in hits
    BY <1>1, <2>1, <2>2
  <2> QED
    BY <2>3
<1>3. PICK n \in hits : \A m \in hits : n <= m
  <2>1. hits \subseteq Nat
    BY <1>0 DEF TypeIds
  <2> QED
    BY <1>2, <2>1, LeastOf
<1>4. TypeIn(q, r) \in hits /\ \A m \in hits : TypeIn(q, r) <= m
  <2>1. TypeIn(q, r) = CHOOSE t \in hits : \A u \in hits : t <= u
    BY <1>2 DEF TypeIn
  <2> QED
    BY <1>3, <2>1
<1> DEFINE t == TypeIn(q, r)
<1>5. t \in TypeIds /\ t \in Nat /\ r < prefix[t + 1]
  BY <1>0, <1>1, <1>4 DEF TypeIds
<1>6. prefix[t] <= r
  <2> HIDE DEF t
  <2>1. CASE t = 0
    BY <1>0, <2>1 DEF IsPrefix
  <2>2. CASE t # 0
    <3>1. t - 1 \in TypeIds /\ (t - 1) + 1 = t /\ t \in 0 .. Types
      BY <1>0, <1>5, <2>2 DEF TypeIds
    <3>2. t - 1 \notin hits
      <4> HIDE DEF hits
      <4> QED
        BY <1>4, <1>5 DEF t
    <3>3. ~(r < prefix[t])
      BY <1>1, <3>1, <3>2
    <3>4. prefix[t] \in Nat
      BY <3>1 DEF IsPrefix
    <3> QED
      BY <1>0, <3>3, <3>4
  <2> QED
    BY <2>1, <2>2
<1>7. prefix[t] \in Nat /\ prefix[t + 1] \in Nat
  <2> HIDE DEF t
  <2>1. t \in 0 .. Types /\ t + 1 \in 0 .. Types
    BY <1>0, <1>5 DEF TypeIds
  <2> QED
    BY <2>1 DEF IsPrefix
<1> QED
  BY <1>0, <1>5, <1>6, <1>7

LEMMA TypeShare ==
  ASSUME NEW q \in [TypeIds -> Nat], SumIn(q) = Scale, NEW t \in TypeIds
  PROVE  Cardinality({r \in 0 .. Scale - 1 : TypeIn(q, r) = t}) = q[t]
<1>0. Types \in Nat \ {0} /\ Scale \in Nat
  BY StartupAssumption
<1>1. PICK prefix : IsPrefix(q, prefix)
  BY PrefixExists
<1>2. prefix[Types] = Scale
  BY <1>1, SumIs
<1>3. /\ t \in 0 .. Types /\ t + 1 \in 0 .. Types /\ t + 1 \in 1 .. Types
      /\ (t + 1) - 1 = t /\ t \in Nat
  BY <1>0 DEF TypeIds
<1>4. /\ prefix[t] \in Nat /\ prefix[t + 1] \in Nat /\ q[t] \in Nat
      /\ prefix[t + 1] = prefix[t] + q[t]
  BY <1>1, <1>3 DEF IsPrefix
<1>5. prefix[t + 1] <= Scale
  <2>1. Types \in 0 .. Types /\ t + 1 <= Types
    BY <1>0, <1>3
  <2> QED
    BY <1>1, <1>2, <1>3, <2>1, PrefixGrows
<1>6. ASSUME NEW r \in 0 .. Scale - 1
      PROVE  TypeIn(q, r) = t <=> r \in prefix[t] .. prefix[t + 1] - 1
  <2> DEFINE u == TypeIn(q, r)
  <2>1. u \in TypeIds /\ r \in prefix[u] .. prefix[u + 1] - 1
    BY <1>1, <1>2, TypeIs
  <2>2. u \in Nat /\ u \in 0 .. Types /\ u + 1 \in 0 .. Types
    BY <1>0, <2>1 DEF TypeIds
  <2>3. prefix[u] \in Nat /\ prefix[u + 1] \in Nat
    BY <1>1, <2>2 DEF IsPrefix
  <2> HIDE DEF u
  <2>4. CASE u < t
    <3>1. prefix[u + 1] <= prefix[t]
      BY <1>1, <1>3, <2>2, <2>4, PrefixGrows
    <3> QED
      BY <1>4, <2>1, <2>2, <2>3, <2>4, <3>1 DEF u
  <2>5. CASE t < u
    <3>1. prefix[t + 1] <= prefix[u]
      BY <1>1, <1>3, <2>2, <2>5, PrefixGrows
    <3> QED
      BY <1>3, <1>4, <2>1, <2>2, <2>3, <2>5, <3>1 DEF u
  <2>6. CASE u = t
    BY <2>1, <2>6 DEF u
  <2> QED
    BY <1>3, <2>2, <2>4, <2>5, <2>6
<1>7. {r \in 0 .. Scale - 1 : TypeIn(q, r) = t} = prefix[t] .. prefix[t + 1] - 1
  <2>1. prefix[t] .. prefix[t + 1] - 1 \subseteq 0 .. Scale - 1
    BY <1>0, <1>4, <1>5
  <2> QED
    BY <1>6, <2>1
<1>8. Cardinality(prefix[t] .. prefix[t + 1] - 1) = q[t]
  <2> DEFINE a == prefix[t]
             b == prefix[t + 1] - 1
  <2>1. a \in Int /\ b \in Int
    BY <1>4
  <2>2. (IF a > b THEN 0 ELSE b - a + 1) = q[t]
    BY <1>4
  <2> HIDE DEF a, b
  <2>3. Cardinality(a .. b) = IF a > b THEN 0 ELSE b - a + 1
    BY <2>1, FS_Interval
  <2>4. Cardinality(a .. b) = q[t]
    BY <2>2, <2>3
  <2> QED
    BY <2>4 DEF a, b
<1> QED
  BY <1>7, <1>8

LEMMA TypesShared == StartInv => TypesFollowRatios
<1> SUFFICES ASSUME StartInv, Launched, Sum = Scale PROVE TypesFollowRatios
  BY DEF TypesFollowRatios
<1>1. ratio \in [TypeIds -> Nat]
  <2>1. ratio \in [TypeIds -> Ratios \cup {0}]
    BY DEF StartInv, UTypeOK
  <2>2. Ratios \cup {0} \subseteq Nat
    BY StartupAssumption
  <2> QED
    BY <2>1, <2>2
<1>2. SumIn(ratio) = Scale
  BY DEF Sum, SumIn
<1>3. \A r : TypeOf(r) = TypeIn(ratio, r)
  BY DEF TypeOf, TypeIn, Left, LeftIn
<1>4. ASSUME NEW t \in TypeIds
      PROVE  Cardinality({r \in 0 .. Scale - 1 : TypeOf(r) = t}) = ratio[t]
  <2>1. {r \in 0 .. Scale - 1 : TypeOf(r) = t} = {r \in 0 .. Scale - 1 : TypeIn(ratio, r) = t}
    BY <1>3
  <2> QED
    BY <1>1, <1>2, <2>1, TypeShare
<1>5. ASSUME NEW j \in DOMAIN request_types PROVE request_types[j] \in 1 .. Types
  <2>1. PICK r \in 0 .. Scale - 1 : request_types[j] = TypeOf(r) + 1
    BY DEF StartInv, TypesDrawn, Launched
  <2>2. PICK prefix : IsPrefix(ratio, prefix)
    BY <1>1, PrefixExists
  <2>3. prefix[Types] = Scale
    BY <1>1, <1>2, <2>2, SumIs
  <2>4. TypeIn(ratio, r) \in TypeIds
    BY <1>1, <2>2, <2>3, TypeIs
  <2> QED
    BY <1>3, <2>1, <2>4, StartupAssumption DEF TypeIds
<1> QED
  BY <1>4, <1>5 DEF TypesFollowRatios

(* A launch has every resource, and every text within its buffer; the flows   *)
(* are there, get the same share of the requests, and have ports of their     *)
(* own; and each type gets as many of the numbers that may be drawn as its    *)
(* ratio says (main.c:268-302, util.c:82-130 and 197-199, udp_util.c:18-36).  *)
THEOREM LaunchSound == USpec => []LaunchIsSound
<1>1. StartInv => LaunchIsSound
  <2> SUFFICES ASSUME StartInv PROVE LaunchIsSound
    OBVIOUS
  <2>1. LaunchIsComplete
    BY DEF StartInv, UpInOrder, Before, LaunchIsComplete, Launched
  <2>2. RespInBounds
    BY DEF StartInv, TextsFit, RespInBounds
  <2> QED
    BY <2>1, <2>2, FlowsShared, TypesShared DEF LaunchIsSound
<1> QED
  BY <1>1, StartupInvariant, PTL
=============================================================================
