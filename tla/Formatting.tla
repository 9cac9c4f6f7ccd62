----------------------------- MODULE Formatting -----------------------------
(* How Shremote fills in the texts it runs (FmtConfig.format, fmt_config.py). *)
(* The fields of a text are looked up in one dictionary, a variable of the    *)
(* class: format replaces it by a copy of the command's entry, adds what it   *)
(* was given, and reads it. The main thread formats the start and stop texts  *)
(* of its commands so, host by host; the thread of each program it has        *)
(* started formats the user and the key of its connection, at the same time   *)
(* and through the same variable (remote_process.py:36-38).                   *)
(*                                                                            *)
(* A value is who it belongs to and its key: <<command, 0, key>> for a field  *)
(* of a command's entry, <<command, host, key>> for what format was given.    *)
EXTENDS Naturals, Sequences

CONSTANTS
  Fields, \* of each command: the keys of its entry, without computed ones
  Jobs    \* what the main thread runs, in order: [cmd, host, calls, joined]

(* A call of format: the keys it is given, and the keys its text reads. The   *)
(* fields of a text are read at once, those of a field that is a text itself  *)
(* when that is filled in.                                                    *)
Calls == [gives : Seq(STRING), reads : Seq(SUBSET STRING)]

GivenBy(c) == {c.gives[n] : n \in DOMAIN c.gives}
ReadBy(c)  == UNION {c.reads[n] : n \in DOMAIN c.reads}

(* What ShCommand.validate has tried: each text finds its fields.             *)
ASSUME FormattingAssumption ==
  /\ Jobs # <<>>
  /\ Jobs \in Seq([cmd : DOMAIN Fields, host : Nat \ {0}, calls : Seq(Calls) \ {<<>>}, joined : BOOLEAN])
  /\ \A j \in DOMAIN Jobs : \A i \in DOMAIN Jobs[j].calls :
       LET c == Jobs[j].calls[i] IN ReadBy(c) \subseteq Fields[Jobs[j].cmd] \cup GivenBy(c)

VARIABLES
  format_kwargs, \* FmtConfig.__format_kwargs, of all threads
  mpc,           \* where the main thread is
  job, call,     \* the job it is at, and the call of that job
  at,            \* the key it gives next, or the fields it reads next
  text,          \* what the text has been filled in with
  started,       \* history: the text each job was run with
  connecting,    \* of each job: the writes its connect thread has still to do
  met            \* history: of each job, the commands whose threads wrote meanwhile

fvars == <<format_kwargs, mpc, job, call, at, text, started, connecting, met>>

Now == Jobs[job]
Call == Now.calls[call]

(* Mutant: the dictionary is made once.                                       *)
FieldsKept(c) == IF DOMAIN format_kwargs # {} THEN format_kwargs
                 ELSE [k \in Fields[c] |-> <<c, 0, k>>]

(* A copy of the entry of a command, in which the computed fields are marked, *)
(* and not found.                                                             *)
EntryOf(c) == [k \in Fields[c] |-> <<c, 0, k>>]

(* Mutant: the first host for all.                                            *)
GivenFirst(j, k) == <<Jobs[j].cmd, 1, k>>

Given(j, k) == <<Jobs[j].cmd, Jobs[j].host, k>>

(* __setitem__ of the dictionary.                                             *)
SetItem(d, k, v) == [x \in DOMAIN d \cup {k} |-> IF x = k THEN v ELSE d[x]]

FInit ==
  /\ format_kwargs = <<>>
  /\ mpc = "copy" /\ job = 1 /\ call = 1 /\ at = 1 /\ text = {}
  /\ started = [j \in DOMAIN Jobs |-> {}]
  /\ connecting = [j \in DOMAIN Jobs |-> 0]
  /\ met = [j \in DOMAIN Jobs |-> {}]

-----------------------------------------------------------------------------
(* set_format_kwargs: a new copy, then one key after another, each into what  *)
(* the variable holds by then.                                                *)
Copy ==
  /\ mpc = "copy"
  /\ format_kwargs' = EntryOf(Now.cmd)
  /\ at' = 1 /\ mpc' = "give"
  /\ UNCHANGED <<job, call, text, started, connecting, met>>

Give ==
  /\ mpc = "give"
  /\ IF at <= Len(Call.gives)
     THEN LET k == Call.gives[at]
          IN format_kwargs' = SetItem(format_kwargs, k, Given(job, k)) /\ at' = at + 1 /\ UNCHANGED mpc
     ELSE mpc' = "read" /\ at' = 1 /\ UNCHANGED format_kwargs
  /\ UNCHANGED <<job, call, text, started, connecting, met>>

(* A field that is not there is a CfgKeyError, which ends the main thread.    *)
Read ==
  /\ mpc = "read"
  /\ IF at > Len(Call.reads)
     THEN mpc' = "reset" /\ UNCHANGED <<at, text>>
     ELSE IF Call.reads[at] \subseteq DOMAIN format_kwargs
     THEN /\ text' = text \cup {<<call, k, format_kwargs[k]>> : k \in Call.reads[at]}
          /\ at' = at + 1 /\ UNCHANGED mpc
     ELSE mpc' = "raised" /\ UNCHANGED <<at, text>>
  /\ UNCHANGED <<format_kwargs, job, call, started, connecting, met>>

Reset ==
  /\ mpc = "reset"
  /\ format_kwargs' = EntryOf(Now.cmd)
  /\ at' = 1
  /\ IF call < Len(Now.calls) THEN call' = call + 1 /\ mpc' = "copy" ELSE mpc' = "run" /\ UNCHANGED call
  /\ UNCHANGED <<job, text, started, connecting, met>>

(* exec_cmd: the thread of the program begins with its connection; of a       *)
(* background program and of a stop command the end is waited for.            *)
NextJob == IF job < Len(Jobs) THEN job' = job + 1 /\ call' = 1 /\ text' = {} /\ mpc' = "copy"
           ELSE mpc' = "done" /\ UNCHANGED <<job, call, text>>

Run ==
  /\ mpc = "run"
  /\ started' = [started EXCEPT ![job] = text]
  /\ connecting' = [connecting EXCEPT ![job] = 4]
  /\ IF Now.joined THEN mpc' = "join" /\ UNCHANGED <<job, call, text>> ELSE NextJob
  /\ UNCHANGED <<format_kwargs, at, met>>

Join ==
  /\ mpc = "join" /\ connecting[job] = 0
  /\ NextJob
  /\ UNCHANGED <<format_kwargs, at, started, connecting, met>>

Main == Copy \/ Give \/ Read \/ Reset \/ Run \/ Join

Writes(j) == connecting[j] > 0

(* RemoteProcess.connect: user.format() and key.format() each make a copy     *)
(* before and one after. They are given nothing, and of their texts only the  *)
(* root of the configuration is read.                                         *)
Connect(j) ==
  /\ Writes(j)
  /\ connecting' = [connecting EXCEPT ![j] = @ - 1]
  /\ format_kwargs' = EntryOf(Jobs[j].cmd)
  /\ met' = IF mpc \in {"give", "read"} THEN [met EXCEPT ![job] = @ \cup {Jobs[j].cmd}] ELSE met
  /\ UNCHANGED <<mpc, job, call, at, text, started>>

FNext == Main \/ \E j \in DOMAIN Jobs : Connect(j)

FSpec == FInit /\ [][FNext]_fvars

-----------------------------------------------------------------------------
(* What the text of a job says when nobody interferes.                        *)
Own(j) ==
  UNION {{<<i, k, IF k \in GivenBy(Jobs[j].calls[i]) THEN Given(j, k) ELSE <<Jobs[j].cmd, 0, k>>>>
            : k \in ReadBy(Jobs[j].calls[i])}
         : i \in DOMAIN Jobs[j].calls}

HasRun(j) == j < job \/ (j = job /\ mpc \in {"join", "done"})

(* Nothing of one call is left for the next (set_format_kwargs replaces the   *)
(* whole dictionary), so the index, the address or the PID in a text are      *)
(* those of the host it is run on, whatever other threads do: the text is     *)
(* filled in with its own, or the field is missing and nothing is run.        *)
HostIsOwn ==
  \A j \in DOMAIN Jobs : \A t \in started[j] :
    t[3][2] # 0 => t[3] = <<Jobs[j].cmd, Jobs[j].host, t[2]>>

(* A text that is run with another field than its own has it from a command   *)
(* whose connection was being made while the text was filled in; and only     *)
(* then can a text that was valid before the run fail in it (fmt_config.py:   *)
(* 539). Formatting is right as long as one thread does it.                   *)
WrongByOthersOnly ==
  /\ \A j \in DOMAIN Jobs : HasRun(j) =>
       \A t \in started[j] : t \in Own(j) \/ \E c \in met[j] : t[3] = <<c, 0, t[2]>>
  /\ \A j \in DOMAIN Jobs : HasRun(j) /\ met[j] = {} => started[j] = Own(j)
  /\ mpc = "raised" => met[job] # {}

(* "This program overrides the value of to_echo" (examples/default_args.yml): *)
(* what is run is what the command's own entry says.                          *)
TextIsOwn == \A j \in DOMAIN Jobs : HasRun(j) => started[j] \subseteq Own(j)
=============================================================================
