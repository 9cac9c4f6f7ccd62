-------------------------- MODULE FormattingProofs --------------------------
(* Theorems about the formatting of texts by several threads, for every list  *)
(* of jobs, every command and every text.                                     *)
EXTENDS Formatting, TLAPS

(* What the dictionary holds for the host of a job is there only while a text *)
(* of that job is filled in.                                                  *)
DictionaryOwn ==
  \A k \in DOMAIN format_kwargs :
    format_kwargs[k][2] # 0 => mpc \in {"give", "read", "reset", "raised"} /\ format_kwargs[k] = Given(job, k)

TextOwn == \A t \in text : t[3][2] # 0 => t[3] = Given(job, t[2])

(* The inductive invariant.                                                   *)
HostInv ==
  /\ DOMAIN started = DOMAIN Jobs
  /\ mpc \in {"copy", "give", "read", "reset", "run", "join", "done", "raised"}
  /\ DictionaryOwn
  /\ TextOwn
  /\ HostIsOwn

-----------------------------------------------------------------------------
(* A new copy of an entry holds nothing for a host.                           *)
LEMMA EntryHasNoHost ==
  ASSUME NEW c, NEW k \in DOMAIN EntryOf(c)
  PROVE  EntryOf(c)[k][2] = 0
  BY DEF EntryOf

LEMMA HostInitInv == FInit => HostInv
<1> SUFFICES ASSUME FInit PROVE HostInv
  OBVIOUS
<1>1. DictionaryOwn
  BY DEF FInit, DictionaryOwn
<1>2. TextOwn
  BY DEF FInit, TextOwn
<1>3. HostIsOwn
  BY DEF FInit, HostIsOwn
<1> QED
  BY <1>1, <1>2, <1>3 DEF FInit, HostInv

(* Going on to the next job: its text is empty, and the dictionary has been   *)
(* replaced since it was last filled in.                                      *)
LEMMA NextJobOwn ==
  ASSUME HostInv, mpc \in {"run", "join"}, NextJob, UNCHANGED format_kwargs
  PROVE  /\ mpc' \in {"copy", "done"}
         /\ DictionaryOwn' /\ TextOwn'
<1>1. \A k \in DOMAIN format_kwargs : format_kwargs[k][2] = 0
  BY DEF HostInv, DictionaryOwn
<1>2. DictionaryOwn'
  BY <1>1 DEF DictionaryOwn
<1>3. CASE job < Len(Jobs)
  BY <1>2, <1>3 DEF NextJob, TextOwn
<1>4. CASE ~(job < Len(Jobs))
  BY <1>2, <1>4 DEF NextJob, TextOwn, HostInv, Given
<1> QED
  BY <1>3, <1>4

LEMMA HostNextInv == HostInv /\ [FNext]_fvars => HostInv'
<1> SUFFICES ASSUME HostInv, [FNext]_fvars PROVE HostInv'
  OBVIOUS
<1>1. CASE Copy
  <2>1. DictionaryOwn'
    BY <1>1, EntryHasNoHost DEF Copy, DictionaryOwn
  <2>2. TextOwn'
    BY <1>1 DEF HostInv, TextOwn, Copy, Given
  <2>3. HostIsOwn'
    BY <1>1 DEF HostInv, HostIsOwn, Copy
  <2> QED
    BY <1>1, <2>1, <2>2, <2>3 DEF HostInv, Copy
<1>2. CASE Give
  <2>1. DictionaryOwn'
    <3>1. CASE at <= Len(Call.gives)
      <4> DEFINE k == Call.gives[at]
      <4>1. format_kwargs' = SetItem(format_kwargs, k, Given(job, k)) /\ job' = job /\ mpc' = "give"
        BY <1>2, <3>1 DEF Give
      <4> QED
        BY <4>1 DEF HostInv, DictionaryOwn, SetItem, Given
    <3>2. CASE ~(at <= Len(Call.gives))
      BY <1>2, <3>2 DEF Give, HostInv, DictionaryOwn, Given
    <3> QED
      BY <3>1, <3>2
  <2>2. TextOwn'
    BY <1>2 DEF HostInv, TextOwn, Give, Given
  <2>3. HostIsOwn'
    BY <1>2 DEF HostInv, HostIsOwn, Give
  <2> QED
    BY <1>2, <2>1, <2>2, <2>3 DEF HostInv, Give
<1>3. CASE Read
  <2>1. DictionaryOwn'
    BY <1>3 DEF HostInv, DictionaryOwn, Read, Given
  <2>2. TextOwn'
    <3>1. CASE text' = text
      BY <1>3, <3>1 DEF HostInv, TextOwn, Read, Given
    <3>2. CASE /\ Call.reads[at] \subseteq DOMAIN format_kwargs
               /\ text' = text \cup {<<call, k, format_kwargs[k]>> : k \in Call.reads[at]}
      BY <1>3, <3>2 DEF HostInv, TextOwn, DictionaryOwn, Read, Given
    <3> QED
      BY <1>3, <3>1, <3>2 DEF Read
  <2>3. HostIsOwn'
    BY <1>3 DEF HostInv, HostIsOwn, Read
  <2> QED
    BY <1>3, <2>1, <2>2, <2>3 DEF HostInv, Read
<1>4. CASE Reset
  <2>1. DictionaryOwn'
    BY <1>4, EntryHasNoHost DEF Reset, DictionaryOwn
  <2>2. TextOwn'
    BY <1>4 DEF HostInv, TextOwn, Reset, Given
  <2>3. HostIsOwn'
    BY <1>4 DEF HostInv, HostIsOwn, Reset
  <2> QED
    BY <1>4, <2>1, <2>2, <2>3 DEF HostInv, Reset
<1>5. CASE Run
  <2>1. HostIsOwn'
    BY <1>5 DEF HostInv, HostIsOwn, TextOwn, Run, Given
  <2>2. mpc' \in {"join", "copy", "done"} /\ DictionaryOwn' /\ TextOwn'
    <3>1. CASE Now.joined
      BY <1>5, <3>1 DEF Run, HostInv, DictionaryOwn, TextOwn, Given
    <3>2. CASE ~Now.joined
      BY <1>5, <3>2, NextJobOwn DEF Run
    <3> QED
      BY <3>1, <3>2
  <2> QED
    BY <1>5, <2>1, <2>2 DEF HostInv, Run
<1>6. CASE Join
  <2>1. mpc' \in {"copy", "done"} /\ DictionaryOwn' /\ TextOwn'
    BY <1>6, NextJobOwn DEF Join
  <2>2. HostIsOwn'
    BY <1>6 DEF HostInv, HostIsOwn, Join
  <2> QED
    BY <1>6, <2>1, <2>2 DEF HostInv, Join
<1>7. ASSUME NEW j \in DOMAIN Jobs, Connect(j) PROVE HostInv'
  <2>1. DictionaryOwn'
    BY <1>7, EntryHasNoHost DEF Connect, DictionaryOwn
  <2>2. TextOwn'
    BY <1>7 DEF HostInv, TextOwn, Connect, Given
  <2>3. HostIsOwn'
    BY <1>7 DEF HostInv, HostIsOwn, Connect
  <2> QED
    BY <1>7, <2>1, <2>2, <2>3 DEF HostInv, Connect
<1>8. CASE UNCHANGED fvars
  BY <1>8 DEF fvars, HostInv, DictionaryOwn, TextOwn, HostIsOwn, Given
<1> QED
  BY <1>1, <1>2, <1>3, <1>4, <1>5, <1>6, <1>7, <1>8 DEF FNext, Main

(* The host of a text is its own (fmt_config.py:99-108), for every list of    *)
(* jobs: what format was given for one host is never read for another.        *)
THEOREM HostsKept == FSpec => []HostIsOwn
<1>1. FInit => HostInv
  BY HostInitInv
<1>2. HostInv /\ [FNext]_fvars => HostInv'
  BY HostNextInv
<1>3. HostInv => HostIsOwn
  BY DEF HostInv
<1> QED
  BY <1>1, <1>2, <1>3, PTL DEF FSpec

-----------------------------------------------------------------------------
(* What a text says of key k in its call i, when nobody interferes.           *)
OwnValue(j, i, k) ==
  IF k \in GivenBy(Jobs[j].calls[i]) THEN Given(j, k) ELSE <<Jobs[j].cmd, 0, k>>

(* The keys given so far, and the fields read so far, of the current call.    *)
GivenTill == IF mpc = "give" THEN {Call.gives[n] : n \in 1 .. at - 1} ELSE GivenBy(Call)
ReadTill  == UNION {Call.reads[n] : n \in 1 .. at - 1}

(* Whose value v for key k is when not the text's own.                        *)
Foreign(j, k, v) == \E c \in met[j] : v = <<c, 0, k>>

(* While a text is filled in, the dictionary says what the entry of its own   *)
(* command says, less what was given; or what another thread has put there.   *)
DictionaryKnown ==
  mpc \in {"give", "read"} =>
    /\ \A k \in DOMAIN format_kwargs :
         \/ format_kwargs[k] = IF k \in GivenTill THEN Given(job, k) ELSE <<Now.cmd, 0, k>>
         \/ Foreign(job, k, format_kwargs[k])
    /\ met[job] = {} => DOMAIN format_kwargs = Fields[Now.cmd] \cup GivenTill

(* The part of its own text that has been filled in by now.                   *)
Filled(t) ==
  \/ t[1] < call
  \/ t[1] = call /\ mpc = "read" /\ t[2] \in ReadTill
  \/ t[1] = call /\ mpc \in {"reset", "run", "join", "done"}

TextKnown ==
  mpc # "raised" =>
    /\ \A t \in text : t \in Own(job) \/ Foreign(job, t[2], t[3])
    /\ met[job] = {} => text = {t \in Own(job) : Filled(t)}

PlaceOK ==
  /\ job \in 1 .. Len(Jobs) /\ call \in 1 .. Len(Now.calls)
  /\ mpc \in {"copy", "give", "read", "reset", "run", "join", "done", "raised"}
  /\ mpc = "give" => at \in 1 .. Len(Call.gives) + 1
  /\ mpc = "read" => at \in 1 .. Len(Call.reads) + 1
  /\ mpc \in {"run", "join", "done"} => call = Len(Now.calls)
  /\ mpc = "done" => job = Len(Jobs)
  /\ DOMAIN started = DOMAIN Jobs /\ DOMAIN met = DOMAIN Jobs

(* The inductive invariant.                                                   *)
TextInv == PlaceOK /\ DictionaryKnown /\ TextKnown /\ WrongByOthersOnly

LEMMA JobNumbers ==
  /\ Len(Jobs) \in Nat /\ DOMAIN Jobs = 1 .. Len(Jobs)
  /\ \A j \in DOMAIN Jobs : j \in Nat /\ (j < Len(Jobs) => j + 1 \in 1 .. Len(Jobs))
<1>1. Len(Jobs) \in Nat /\ DOMAIN Jobs = 1 .. Len(Jobs)
  BY FormattingAssumption
<1> QED
  BY <1>1

LEMMA JobTyped ==
  ASSUME NEW j \in 1 .. Len(Jobs)
  PROVE  /\ Jobs[j].calls \in Seq(Calls) /\ Len(Jobs[j].calls) \in Nat \ {0}
         /\ DOMAIN Jobs[j].calls = 1 .. Len(Jobs[j].calls)
         /\ \A i \in 1 .. Len(Jobs[j].calls) :
              LET c == Jobs[j].calls[i]
              IN  /\ c.gives \in Seq(STRING) /\ c.reads \in Seq(SUBSET STRING)
                  /\ GivenBy(c) = {c.gives[n] : n \in 1 .. Len(c.gives)}
                  /\ ReadBy(c) = UNION {c.reads[n] : n \in 1 .. Len(c.reads)}
                  /\ ReadBy(c) \subseteq Fields[Jobs[j].cmd] \cup GivenBy(c)
<1>1. /\ Jobs \in Seq([cmd : DOMAIN Fields, host : Nat \ {0}, calls : Seq(Calls) \ {<<>>}, joined : BOOLEAN])
      /\ j \in DOMAIN Jobs
  BY FormattingAssumption
<1>2. Jobs[j].calls \in Seq(Calls) \ {<<>>}
  <2>1. ASSUME NEW R, Jobs \in Seq(R) PROVE Jobs[j] \in R
    BY <2>1
  <2>2. Jobs[j] \in [cmd : DOMAIN Fields, host : Nat \ {0}, calls : Seq(Calls) \ {<<>>}, joined : BOOLEAN]
    BY <1>1, <2>1, Zenon
  <2> QED
    BY <2>2
<1>3. /\ Len(Jobs[j].calls) \in Nat \ {0}
      /\ DOMAIN Jobs[j].calls = 1 .. Len(Jobs[j].calls)
  BY <1>2
<1>4. ASSUME NEW i \in 1 .. Len(Jobs[j].calls)
      PROVE  LET c == Jobs[j].calls[i]
             IN  /\ c.gives \in Seq(STRING) /\ c.reads \in Seq(SUBSET STRING)
                 /\ GivenBy(c) = {c.gives[n] : n \in 1 .. Len(c.gives)}
                 /\ ReadBy(c) = UNION {c.reads[n] : n \in 1 .. Len(c.reads)}
                 /\ ReadBy(c) \subseteq Fields[Jobs[j].cmd] \cup GivenBy(c)
  <2> DEFINE c == Jobs[j].calls[i]
  <2>0. c \in Calls
    BY <1>2
  <2>1. c.gives \in Seq(STRING) /\ c.reads \in Seq(SUBSET STRING)
    BY <2>0 DEF Calls
  <2>2. DOMAIN c.gives = 1 .. Len(c.gives) /\ DOMAIN c.reads = 1 .. Len(c.reads)
    BY <2>1
  <2>3. ReadBy(c) \subseteq Fields[Jobs[j].cmd] \cup GivenBy(c)
    BY <1>1, <1>3, FormattingAssumption
  <2> QED
    BY <2>1, <2>2, <2>3 DEF GivenBy, ReadBy
<1> QED
  BY <1>2, <1>3, <1>4

LEMMA OwnOfCalls ==
  ASSUME NEW j \in 1 .. Len(Jobs), NEW t
  PROVE  t \in Own(j) <=> \E i \in 1 .. Len(Jobs[j].calls) : \E k \in ReadBy(Jobs[j].calls[i]) :
                            t = <<i, k, OwnValue(j, i, k)>>
<1>1. DOMAIN Jobs[j].calls = 1 .. Len(Jobs[j].calls)
  BY JobTyped
<1> QED
  BY <1>1 DEF Own, OwnValue

(* All jobs are reached, one after the other.                                 *)
LEMMA PlaceNext == PlaceOK /\ [FNext]_fvars => PlaceOK'
<1> SUFFICES ASSUME PlaceOK, [FNext]_fvars PROVE PlaceOK'
  OBVIOUS
<1> USE DEF PlaceOK
<1>0. /\ Len(Now.calls) \in Nat \ {0} /\ Len(Call.gives) \in Nat /\ Len(Call.reads) \in Nat
      /\ Len(Jobs) \in Nat
      /\ \A j \in 1 .. Len(Jobs) : Len(Jobs[j].calls) \in Nat \ {0}
  <2>1. Len(Jobs) \in Nat
    BY FormattingAssumption
  <2>2. Len(Now.calls) \in Nat \ {0}
    BY JobTyped DEF Now
  <2>3. Call.gives \in Seq(STRING) /\ Call.reads \in Seq(SUBSET STRING)
    BY JobTyped DEF Now, Call
  <2>4. Len(Call.gives) \in Nat /\ Len(Call.reads) \in Nat
    BY <2>3
  <2>5. \A j \in 1 .. Len(Jobs) : Len(Jobs[j].calls) \in Nat \ {0}
    BY JobTyped
  <2> QED
    BY <2>1, <2>2, <2>4, <2>5
<1>1. ASSUME NextJob, mpc \in {"run", "join"}, DOMAIN started' = DOMAIN Jobs, met' = met PROVE PlaceOK'
  <2>1. CASE job < Len(Jobs)
    BY <1>0, <1>1, <2>1 DEF NextJob, Now
  <2>2. CASE ~(job < Len(Jobs))
    BY <1>0, <1>1, <2>2 DEF NextJob, Now
  <2> QED
    BY <2>1, <2>2
<1>2. CASE Copy
  BY <1>0, <1>2 DEF Copy, Now, Call
<1>3. CASE Give
  <2>1. CASE at <= Len(Call.gives)
    BY <1>0, <1>3, <2>1 DEF Give, Now, Call
  <2>2. CASE ~(at <= Len(Call.gives))
    BY <1>0, <1>3, <2>2 DEF Give, Now, Call
  <2> QED
    BY <2>1, <2>2
<1>4. CASE Read
  <2>1. CASE mpc' = "read"
    <3>1. mpc = "read" /\ at' = at + 1 /\ ~(at > Len(Call.reads))
      BY <1>4, <2>1 DEF Read
    <3>2. at' \in 1 .. Len(Call.reads) + 1
      BY <1>0, <3>1
    <3>3. UNCHANGED <<job, call, started, met>> /\ Now' = Now /\ Call' = Call
      BY <1>4 DEF Read, Now, Call
    <3> QED
      BY <2>1, <3>2, <3>3
  <2>2. CASE mpc' # "read"
    BY <1>0, <1>4, <2>2 DEF Read, Now, Call
  <2> QED
    BY <2>1, <2>2
<1>5. CASE Reset
  BY <1>0, <1>5 DEF Reset, Now
<1>6. CASE Run
  <2>1. CASE Now.joined
    BY <1>6, <2>1 DEF Run, Now
  <2>2. CASE ~Now.joined
    BY <1>1, <1>6, <2>2 DEF Run
  <2> QED
    BY <2>1, <2>2
<1>7. CASE Join
  BY <1>1, <1>7 DEF Join
<1>8. ASSUME NEW j \in DOMAIN Jobs, Connect(j) PROVE PlaceOK'
  BY <1>8 DEF Connect, Now, Call
<1>9. CASE UNCHANGED fvars
  BY <1>9 DEF fvars, Now, Call
<1> QED
  BY <1>2, <1>3, <1>4, <1>5, <1>6, <1>7, <1>8, <1>9 DEF FNext, Main

LEMMA ForeignStays ==
  ASSUME PlaceOK, [FNext]_fvars, NEW j \in DOMAIN Jobs, NEW k, NEW v
  PROVE  /\ Foreign(j, k, v) => Foreign(j, k, v)'
         /\ met'[j] = {} => met[j] = {}
<1>1. met[j] \subseteq met'[j]
  <2>1. met' = met \/ \E c : met' = [met EXCEPT ![job] = @ \cup {c}]
    BY DEF FNext, Main, Copy, Give, Read, Reset, Run, Join, Connect, fvars
  <2> QED
    BY <2>1 DEF PlaceOK
<1> QED
  BY <1>1 DEF Foreign

LEMMA DictionaryNext == PlaceOK /\ DictionaryKnown /\ [FNext]_fvars => DictionaryKnown'
<1> SUFFICES ASSUME PlaceOK, DictionaryKnown, [FNext]_fvars PROVE DictionaryKnown'
  OBVIOUS
<1> USE DEF PlaceOK
<1>0. Len(Call.gives) \in Nat /\ GivenBy(Call) = {Call.gives[n] : n \in 1 .. Len(Call.gives)}
  <2>1. Call.gives \in Seq(STRING) /\ GivenBy(Call) = {Call.gives[n] : n \in 1 .. Len(Call.gives)}
    BY JobTyped DEF Now, Call
  <2> QED
    BY <2>1
<1>1. ASSUME mpc' \notin {"give", "read"} PROVE DictionaryKnown'
  BY <1>1 DEF DictionaryKnown
<1>2. ASSUME UNCHANGED <<format_kwargs, mpc, job, call, at, met>> PROVE DictionaryKnown'
  BY <1>2 DEF DictionaryKnown, Foreign, GivenTill, Given, Now, Call
<1>3. CASE Copy
  <2>1. GivenTill' = {}
    BY <1>3 DEF Copy, GivenTill
  <2>2. format_kwargs' = EntryOf(Now.cmd) /\ Now' = Now
    BY <1>3 DEF Copy, Now
  <2> QED
    BY <2>1, <2>2 DEF DictionaryKnown, EntryOf
<1>4. CASE Give
  <2>0. mpc = "give" /\ UNCHANGED <<job, call, met>>
    BY <1>4 DEF Give
  <2>1. CASE at <= Len(Call.gives)
    <3> DEFINE g == Call.gives[at]
    <3>1. /\ format_kwargs' = SetItem(format_kwargs, g, Given(job, g))
          /\ at' = at + 1 /\ mpc' = "give"
      BY <1>4, <2>1 DEF Give
    <3>2. GivenTill' = GivenTill \cup {g}
      <4>1. GivenTill = {Call.gives[n] : n \in 1 .. at - 1}
        BY <2>0 DEF GivenTill
      <4>2. GivenTill' = {Call.gives[n] : n \in 1 .. at}
        <5>1. Call' = Call
          BY <2>0 DEF Now, Call
        <5>2. at' - 1 = at
          BY <2>0, <3>1
        <5> QED
          BY <3>1, <5>1, <5>2 DEF GivenTill
      <4>3. 1 .. at = (1 .. at - 1) \cup {at}
        BY <2>0
      <4> QED
        BY <4>1, <4>2, <4>3
    <3>3. DOMAIN format_kwargs' = DOMAIN format_kwargs \cup {g}
      BY <3>1 DEF SetItem
    <3>4. format_kwargs'[g] = Given(job, g)
      BY <3>1 DEF SetItem
    <3>5. ASSUME NEW k \in DOMAIN format_kwargs, k # g
          PROVE  format_kwargs'[k] = format_kwargs[k] /\ (k \in GivenTill' <=> k \in GivenTill)
      BY <3>1, <3>2, <3>5 DEF SetItem
    <3>6. Now' = Now /\ \A k : Given(job, k)' = Given(job, k)
      BY <2>0 DEF Now, Given
    <3>7. ASSUME NEW k \in DOMAIN format_kwargs'
          PROVE  \/ format_kwargs'[k] = IF k \in GivenTill' THEN Given(job, k) ELSE <<Now.cmd, 0, k>>
                 \/ Foreign(job, k, format_kwargs'[k])
      BY <2>0, <3>2, <3>3, <3>4, <3>5 DEF DictionaryKnown
    <3>8. met[job] = {} => DOMAIN format_kwargs' = Fields[Now.cmd] \cup GivenTill'
      BY <2>0, <3>2, <3>3 DEF DictionaryKnown
    <3> QED
      BY <2>0, <3>6, <3>7, <3>8 DEF DictionaryKnown, Foreign, Given
  <2>2. CASE ~(at <= Len(Call.gives))
    <3>1. mpc' = "read" /\ format_kwargs' = format_kwargs
      BY <1>4, <2>2 DEF Give
    <3>2. at = Len(Call.gives) + 1
      BY <1>0, <2>0, <2>2
    <3>3. GivenTill' = GivenTill
      BY <1>0, <2>0, <3>1, <3>2 DEF GivenTill, Now, Call
    <3> QED
      BY <2>0, <3>1, <3>3 DEF DictionaryKnown, Foreign, Given, Now
  <2> QED
    BY <2>1, <2>2
<1>5. CASE Read
  <2>1. CASE mpc' = "read"
    <3>1. mpc = "read" /\ UNCHANGED <<format_kwargs, mpc, job, call, met>>
      BY <1>5, <2>1 DEF Read
    <3>2. GivenTill' = GivenTill
      BY <3>1 DEF GivenTill, Now, Call
    <3> QED
      BY <3>1, <3>2 DEF DictionaryKnown, Foreign, Given, Now
  <2>2. CASE mpc' # "read"
    BY <1>1, <1>5, <2>2 DEF Read
  <2> QED
    BY <2>1, <2>2
<1>6. CASE Reset \/ Run \/ Join
  BY <1>1, <1>6 DEF Reset, Run, Join, NextJob
<1>7. ASSUME NEW j \in DOMAIN Jobs, Connect(j) PROVE DictionaryKnown'
  <2>1. CASE mpc \in {"give", "read"}
    <3>1. Jobs[j].cmd \in met'[job] /\ job' = job
      BY <1>7, <2>1, JobNumbers DEF Connect
    <3>2. \A k \in DOMAIN format_kwargs' : format_kwargs'[k] = <<Jobs[j].cmd, 0, k>>
      BY <1>7 DEF Connect, EntryOf
    <3> QED
      BY <3>1, <3>2 DEF DictionaryKnown, Foreign
  <2>2. CASE mpc \notin {"give", "read"}
    BY <1>1, <1>7, <2>2 DEF Connect
  <2> QED
    BY <2>1, <2>2
<1>8. CASE UNCHANGED fvars
  BY <1>2, <1>8 DEF fvars
<1> QED
  BY <1>3, <1>4, <1>5, <1>6, <1>7, <1>8 DEF FNext, Main

(* What a text reads from the dictionary.                                     *)
LEMMA ReadKnown ==
  ASSUME PlaceOK, DictionaryKnown, mpc = "read", at \in 1 .. Len(Call.reads)
  PROVE  /\ Call.reads[at] \subseteq ReadBy(Call)
         /\ \A k \in Call.reads[at] \cap DOMAIN format_kwargs :
              \/ format_kwargs[k] = OwnValue(job, call, k)
              \/ Foreign(job, k, format_kwargs[k])
         /\ met[job] = {} => Call.reads[at] \subseteq DOMAIN format_kwargs
<1> USE DEF PlaceOK
<1>1. /\ ReadBy(Call) = UNION {Call.reads[n] : n \in 1 .. Len(Call.reads)}
      /\ ReadBy(Call) \subseteq Fields[Now.cmd] \cup GivenBy(Call)
  BY JobTyped DEF Now, Call
<1>2. Call.reads[at] \subseteq ReadBy(Call)
  BY <1>1
<1>3. GivenTill = GivenBy(Call)
  BY DEF GivenTill
<1> QED
  BY <1>1, <1>2, <1>3 DEF DictionaryKnown, OwnValue, Now, Call

LEMMA TextKnownNext == PlaceOK /\ DictionaryKnown /\ TextKnown /\ [FNext]_fvars => TextKnown'
<1> SUFFICES ASSUME PlaceOK, DictionaryKnown, TextKnown, [FNext]_fvars PROVE TextKnown'
  OBVIOUS
<1> USE DEF PlaceOK
<1>0. job \in DOMAIN Jobs /\ Len(Now.calls) \in Nat \ {0}
  BY JobNumbers, JobTyped DEF Now
<1>1. \A t \in Own(job) : t[1] \in 1 .. Len(Now.calls) /\ t[2] \in ReadBy(Now.calls[t[1]])
  BY OwnOfCalls DEF Now
<1>2. ASSUME UNCHANGED <<text, job>>, mpc # "raised", mpc' # "raised",
             \A t \in Own(job) : Filled(t)' <=> Filled(t)
      PROVE  TextKnown'
  <2>1. Own(job)' = Own(job)
    BY <1>2 DEF Own, Given
  <2>2. \A t \in text' : t \in Own(job)' \/ Foreign(job, t[2], t[3])'
    <3>1. PICK j \in DOMAIN Jobs : j = job
      BY <1>0
    <3>2. \A k, v : Foreign(j, k, v) => Foreign(j, k, v)'
      BY <3>1, ForeignStays
    <3> QED
      BY <1>2, <2>1, <3>1, <3>2 DEF TextKnown, Foreign
  <2>3. met'[job] = {} => met[job] = {}
    BY <1>0, ForeignStays
  <2>4. met'[job'] = {} => text' = {t \in Own(job)' : Filled(t)'}
    BY <1>2, <2>1, <2>3 DEF TextKnown
  <2> QED
    BY <2>2, <2>4 DEF TextKnown
<1>3. ASSUME NextJob, mpc \in {"run", "join"}, met' = met PROVE TextKnown'
  <2>1. CASE job < Len(Jobs)
    <3>1. job' \in 1 .. Len(Jobs) /\ call' = 1 /\ text' = {} /\ mpc' = "copy"
      <4>1. job' = job + 1 /\ call' = 1 /\ text' = {} /\ mpc' = "copy"
        BY <1>3, <2>1, Zenon DEF NextJob
      <4>2. job + 1 \in 1 .. Len(Jobs)
        BY <1>0, <2>1, JobNumbers, Zenon
      <4> QED
        BY <4>1, <4>2
    <3>2. ASSUME NEW j \in 1 .. Len(Jobs), NEW t \in Own(j) PROVE t[1] \in Nat \ {0}
      BY <3>2, OwnOfCalls, JobTyped
    <3>3. Own(job)' = Own(job')
      BY DEF Own, Given
    <3>4. \A t \in Own(job') : t[1] \in Nat \ {0}
      BY <3>1, <3>2
    <3>5. \A t \in Own(job)' : ~Filled(t)'
      BY <3>1, <3>3, <3>4 DEF Filled
    <3> QED
      BY <3>1, <3>5 DEF TextKnown
  <2>2. CASE ~(job < Len(Jobs))
    <3>1. UNCHANGED <<text, job, call>> /\ mpc' = "done"
      BY <1>3, <2>2 DEF NextJob
    <3>2. \A t : Filled(t)' <=> Filled(t)
      BY <1>3, <3>1 DEF Filled
    <3> QED
      BY <1>2, <1>3, <3>1, <3>2
  <2> QED
    BY <2>1, <2>2
<1>4. CASE Copy
  <2>1. mpc = "copy" /\ mpc' = "give" /\ UNCHANGED <<text, job, call>>
    BY <1>4 DEF Copy
  <2> QED
    BY <1>2, <2>1 DEF Filled
<1>5. CASE Give
  <2>1. CASE mpc' = "give"
    <3>1. mpc = "give" /\ UNCHANGED <<text, job, call>>
      BY <1>5 DEF Give
    <3> QED
      BY <1>2, <2>1, <3>1 DEF Filled
  <2>2. CASE mpc' # "give"
    <3>1. mpc = "give" /\ mpc' = "read" /\ at' = 1 /\ UNCHANGED <<text, job, call>>
      BY <1>5, <2>2 DEF Give
    <3>2. ReadTill' = {}
      BY <3>1 DEF ReadTill
    <3> QED
      BY <1>2, <3>1, <3>2 DEF Filled
  <2> QED
    BY <2>1, <2>2
<1>6. CASE Read
  <2>0. /\ mpc = "read" /\ UNCHANGED <<format_kwargs, job, call, met>>
        /\ Call.reads \in Seq(SUBSET STRING) /\ Len(Call.reads) \in Nat
        /\ ReadBy(Call) = UNION {Call.reads[n] : n \in 1 .. Len(Call.reads)}
    <3>1. /\ Call.reads \in Seq(SUBSET STRING)
          /\ ReadBy(Call) = UNION {Call.reads[n] : n \in 1 .. Len(Call.reads)}
      BY JobTyped DEF Now, Call
    <3> QED
      BY <1>6, <3>1 DEF Read
  <2>1. CASE at > Len(Call.reads)
    <3>1. mpc' = "reset" /\ text' = text
      BY <1>6, <2>1 DEF Read
    <3>2. at = Len(Call.reads) + 1
      BY <2>0, <2>1
    <3>3. ReadTill = ReadBy(Call)
      BY <2>0, <3>2 DEF ReadTill
    <3>4. \A t \in Own(job) : Filled(t)' <=> Filled(t)
      BY <1>1, <2>0, <3>1, <3>3 DEF Filled, Call
    <3> QED
      BY <1>2, <2>0, <3>1, <3>4
  <2>2. CASE at <= Len(Call.reads) /\ Call.reads[at] \subseteq DOMAIN format_kwargs
    <3> DEFINE new == {<<call, k, format_kwargs[k]>> : k \in Call.reads[at]}
    <3>1. text' = text \cup new /\ at' = at + 1 /\ mpc' = "read" /\ at \in 1 .. Len(Call.reads)
      BY <1>6, <2>0, <2>2 DEF Read
    <3>2. ReadTill' = ReadTill \cup Call.reads[at]
      BY <2>0, <3>1 DEF ReadTill, Now, Call
    <3>3. \A k \in Call.reads[at] : /\ k \in ReadBy(Call)
                                    /\ \/ format_kwargs[k] = OwnValue(job, call, k)
                                       \/ Foreign(job, k, format_kwargs[k])
      BY <2>0, <2>2, <3>1, ReadKnown
    <3>4. \A t \in new : t \in Own(job) \/ Foreign(job, t[2], t[3])
      BY <3>3, OwnOfCalls DEF Now, Call
    <3>5. met[job] = {} => text' = {t \in Own(job) : Filled(t) \/ (t[1] = call /\ t[2] \in Call.reads[at])}
      <4> SUFFICES ASSUME met[job] = {}
                   PROVE  new = {t \in Own(job) : t[1] = call /\ t[2] \in Call.reads[at]}
        BY <2>0, <3>1 DEF TextKnown
      <4>1. \A k \in Call.reads[at] : format_kwargs[k] = OwnValue(job, call, k)
        BY <3>3 DEF Foreign
      <4>2. \A t \in Own(job) : t[1] = call => t = <<call, t[2], OwnValue(job, call, t[2])>>
        BY OwnOfCalls
      <4>3. new \subseteq {t \in Own(job) : t[1] = call /\ t[2] \in Call.reads[at]}
        BY <3>4 DEF Foreign
      <4> QED
        BY <4>1, <4>2, <4>3
    <3>6. \A t : Filled(t)' <=> Filled(t) \/ (t[1] = call /\ t[2] \in Call.reads[at])
      BY <2>0, <3>1, <3>2 DEF Filled
    <3>7. Own(job)' = Own(job)
      BY <2>0 DEF Own, Given
    <3>8. \A t \in text' : t \in Own(job) \/ Foreign(job, t[2], t[3])
      BY <2>0, <3>1, <3>4 DEF TextKnown
    <3> QED
      BY <2>0, <3>5, <3>6, <3>7, <3>8 DEF TextKnown, Foreign
  <2>3. CASE at <= Len(Call.reads) /\ ~(Call.reads[at] \subseteq DOMAIN format_kwargs)
    <3>1. mpc' = "raised"
      BY <1>6, <2>0, <2>3 DEF Read
    <3> QED
      BY <3>1 DEF TextKnown
  <2> QED
    BY <2>0, <2>1, <2>2, <2>3
<1>7. CASE Reset
  <2>1. mpc = "reset" /\ UNCHANGED <<text, job>>
    BY <1>7 DEF Reset
  <2>2. CASE call < Len(Now.calls)
    <3>1. mpc' = "copy" /\ call' = call + 1
      BY <1>7, <2>2 DEF Reset
    <3>2. \A t \in Own(job) : Filled(t)' <=> Filled(t)
      BY <1>0, <1>1, <2>1, <3>1 DEF Filled
    <3> QED
      BY <1>2, <2>1, <3>1, <3>2
  <2>3. CASE ~(call < Len(Now.calls))
    <3>1. mpc' = "run" /\ call' = call
      BY <1>7, <2>3 DEF Reset
    <3> QED
      BY <1>2, <2>1, <3>1 DEF Filled
  <2> QED
    BY <2>2, <2>3
<1>8. CASE Run
  <2>1. CASE Now.joined
    <3>1. mpc = "run" /\ mpc' = "join" /\ UNCHANGED <<text, job, call>>
      BY <1>8, <2>1 DEF Run
    <3> QED
      BY <1>2, <3>1 DEF Filled
  <2>2. CASE ~Now.joined
    BY <1>3, <1>8, <2>2 DEF Run
  <2> QED
    BY <2>1, <2>2
<1>9. CASE Join
  BY <1>3, <1>9 DEF Join
<1>10. ASSUME NEW j \in DOMAIN Jobs, Connect(j) PROVE TextKnown'
  <2>1. UNCHANGED <<mpc, job, call, at, text>>
    BY <1>10 DEF Connect
  <2>2. \A t : Filled(t)' <=> Filled(t)
    BY <2>1 DEF Filled, ReadTill, Now, Call
  <2> QED
    BY <1>2, <2>1, <2>2 DEF TextKnown
<1>11. CASE UNCHANGED fvars
  <2>1. UNCHANGED <<mpc, job, call, at, text>>
    BY <1>11 DEF fvars
  <2>2. \A t : Filled(t)' <=> Filled(t)
    BY <2>1 DEF Filled, ReadTill, Now, Call
  <2> QED
    BY <1>2, <2>1, <2>2 DEF TextKnown
<1> QED
  BY <1>4, <1>5, <1>6, <1>7, <1>8, <1>9, <1>10, <1>11 DEF FNext, Main

LEMMA WrongNext ==
  PlaceOK /\ DictionaryKnown /\ TextKnown /\ WrongByOthersOnly /\ [FNext]_fvars => WrongByOthersOnly'
<1> SUFFICES ASSUME PlaceOK, DictionaryKnown, TextKnown, WrongByOthersOnly, [FNext]_fvars
             PROVE  WrongByOthersOnly'
  OBVIOUS
<1> USE DEF PlaceOK
<1>0. job \in DOMAIN Jobs /\ \A j \in DOMAIN Jobs : j \in Nat
  BY JobNumbers, Zenon
<1> DEFINE Right(j, ts, m) ==
      /\ \A t \in ts : t \in Own(j) \/ \E c \in m : t[3] = <<c, 0, t[2]>>
      /\ m = {} => ts = Own(j)
<1>1. \A j \in DOMAIN Jobs : HasRun(j) => Right(j, started[j], met[j])
  BY DEF WrongByOthersOnly
<1>2. ASSUME \A j \in DOMAIN Jobs : HasRun(j)' => Right(j, started'[j], met'[j]),
             mpc' = "raised" => met'[job'] # {}
      PROVE  WrongByOthersOnly'
  <2>1. \A j : Own(j)' = Own(j)
    BY DEF Own, Given
  <2> QED
    BY <1>2, <2>1 DEF WrongByOthersOnly
<1>3. ASSUME UNCHANGED <<started, met>>, mpc' # "raised",
             \A j \in DOMAIN Jobs : HasRun(j)' => HasRun(j)
      PROVE  WrongByOthersOnly'
  BY <1>1, <1>2, <1>3
(* What is run.                                                               *)
<1>4. ASSUME mpc = "run" PROVE Right(job, text, met[job])
  <2>1. \A t \in Own(job) : Filled(t)
    <3>1. \A t \in Own(job) : t[1] \in 1 .. Len(Now.calls)
      BY OwnOfCalls DEF Now
    <3>2. call = Len(Now.calls) /\ Len(Now.calls) \in Nat
      BY <1>0, <1>4, JobTyped, JobNumbers DEF Now
    <3> QED
      BY <1>4, <3>1, <3>2 DEF Filled
  <2> QED
    BY <1>4, <2>1 DEF TextKnown, Foreign
<1>5. ASSUME NextJob, mpc \in {"run", "join"}, NEW j \in DOMAIN Jobs, HasRun(j)'
      PROVE  HasRun(j) \/ j = job
  BY <1>0, <1>5 DEF NextJob, HasRun
<1>6. CASE Copy \/ Give \/ Reset
  BY <1>3, <1>6 DEF Copy, Give, Reset, HasRun
<1>7. CASE Read
  <2>1. CASE mpc' # "raised"
    BY <1>3, <1>7, <2>1 DEF Read, HasRun
  <2>2. CASE mpc' = "raised"
    <3>1. /\ mpc = "read" /\ UNCHANGED <<job, started, met>> /\ at <= Len(Call.reads)
          /\ ~(Call.reads[at] \subseteq DOMAIN format_kwargs)
      BY <1>7, <2>2 DEF Read
    <3>2. at \in 1 .. Len(Call.reads)
      BY <1>0, <3>1
    <3>3. met[job] # {}
      BY <3>1, <3>2, ReadKnown
    <3>4. \A j : HasRun(j)' => HasRun(j)
      BY <2>2, <3>1 DEF HasRun
    <3> QED
      BY <1>1, <1>2, <3>1, <3>3, <3>4
  <2> QED
    BY <2>1, <2>2
<1>8. CASE Run
  <2>1. /\ mpc = "run" /\ started' = [started EXCEPT ![job] = text] /\ met' = met
        /\ mpc' # "raised"
    BY <1>8 DEF Run, NextJob
  <2>2. \A j \in DOMAIN Jobs : HasRun(j)' => HasRun(j) \/ j = job
    <3>1. CASE Now.joined
      BY <1>8, <3>1 DEF Run, HasRun
    <3>2. CASE ~Now.joined
      BY <1>5, <1>8, <3>2 DEF Run
    <3> QED
      BY <3>1, <3>2
  <2>3. ASSUME NEW j \in DOMAIN Jobs, HasRun(j)' PROVE Right(j, started'[j], met'[j])
    <3>1. CASE j = job
      BY <1>4, <2>1, <3>1
    <3>2. CASE j # job
      BY <1>1, <2>1, <2>2, <2>3, <3>2
    <3> QED
      BY <3>1, <3>2
  <2> QED
    BY <1>2, <2>1, <2>3
<1>9. CASE Join
  <2>1. HasRun(job) /\ UNCHANGED <<started, met>> /\ mpc' # "raised" /\ NextJob
    BY <1>9 DEF Join, NextJob, HasRun
  <2> QED
    BY <1>3, <1>5, <1>9, <2>1 DEF Join
<1>10. ASSUME NEW i \in DOMAIN Jobs, Connect(i) PROVE WrongByOthersOnly'
  <2>1. /\ UNCHANGED <<mpc, job, started>>
        /\ met' = met \/ (mpc \in {"give", "read"} /\ met' = [met EXCEPT ![job] = @ \cup {Jobs[i].cmd}])
    BY <1>10 DEF Connect
  <2>2. ASSUME NEW j \in DOMAIN Jobs, HasRun(j)' PROVE Right(j, started'[j], met'[j])
    <3>1. HasRun(j) /\ (mpc \in {"give", "read"} => j # job)
      BY <1>0, <2>1, <2>2 DEF HasRun
    <3>2. met'[j] = met[j]
      BY <2>1, <3>1
    <3> QED
      BY <1>1, <2>1, <3>1, <3>2
  <2>3. mpc' = "raised" => met'[job'] # {}
    BY <2>1 DEF WrongByOthersOnly
  <2> QED
    BY <1>2, <2>2, <2>3
<1>11. CASE UNCHANGED fvars
  BY <1>11 DEF fvars, WrongByOthersOnly, HasRun, Own, Given
<1> QED
  BY <1>6, <1>7, <1>8, <1>9, <1>10, <1>11 DEF FNext, Main

LEMMA TextInitInv == FInit => TextInv
<1> SUFFICES ASSUME FInit PROVE TextInv
  OBVIOUS
<1>1. 1 \in 1 .. Len(Jobs) /\ 1 \in 1 .. Len(Jobs[1].calls)
  <2>1. 1 \in 1 .. Len(Jobs)
    BY FormattingAssumption
  <2> QED
    BY <2>1, JobTyped
<1>2. PlaceOK
  BY <1>1 DEF FInit, PlaceOK, Now
<1>3. DictionaryKnown
  BY DEF FInit, DictionaryKnown
<1>4. TextKnown
  <2>1. \A t \in Own(1) : t[1] \in Nat \ {0}
    BY <1>1, OwnOfCalls, JobTyped
  <2> QED
    BY <2>1 DEF FInit, TextKnown, Filled
<1>5. WrongByOthersOnly
  BY JobNumbers DEF FInit, WrongByOthersOnly, HasRun
<1> QED
  BY <1>2, <1>3, <1>4, <1>5 DEF TextInv

(* Formatting is right as long as one thread does it (fmt_config.py:99-108):  *)
(* a text that is run with a field that is not its own, and one that fails,   *)
(* was filled in while another command's connection was being made.           *)
THEOREM WrongOnlyByOthers == FSpec => []WrongByOthersOnly
<1>1. FInit => TextInv
  BY TextInitInv
<1>2. TextInv /\ [FNext]_fvars => TextInv'
  BY PlaceNext, DictionaryNext, TextKnownNext, WrongNext DEF TextInv
<1>3. TextInv => WrongByOthersOnly
  BY DEF TextInv
<1> QED
  BY <1>1, <1>2, <1>3, PTL DEF FSpec
=============================================================================
