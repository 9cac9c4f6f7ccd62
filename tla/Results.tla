------------------------------ MODULE Results ------------------------------
(* Result processing (src/process): process_policys.py turns the raw tests of *)
(* an experiment into result files, one for each test, column and kind, and   *)
(* these into two metadata files, one of latencys and one of slowdowns, that  *)
(* are updated in place; handle_meta.py edits one of the two by hand. All of  *)
(* it lives in files: a run may be killed between any two writes, and the     *)
(* next one starts from what it left.                                         *)
(*                                                                            *)
(* A latency is the rate it was measured at and the experiment it comes from. *)
(* A rate folder has one test, and the percentile is always the same one.     *)
EXTENDS Integers, Sequences, FiniteSets, SequencesExt

CONSTANTS
  Absent, Broken, Foreign, All,
  Folders,   \* the policy folders
  NameOf,    \* the last part of a folder's path: the name of the policy
  Loads,     \* the rate folders, <<folder, rate>>
  Types,     \* the request types
  ArgLists,  \* the lists of folders a run may be given
  Others,    \* the metadata files of other prefixes that may be appended
  MaxTurns,  \* bound of the model: what the user does
  MaxEntries \* bound of the model: entries of a metadata file

Kinds == {"latency", "slowdown"}
Columns == Types \cup {All}

(* What a metadata file holds: entries, one for a policy.                     *)
Latency == [rate : Nat, gen : Nat]
Data    == [x : Seq(Nat), col : [Columns -> Seq(Latency)]] \cup {Foreign}
Entries == [name : STRING, data : Data]

ASSUME ResultsAssumption ==
  /\ NameOf \in [Folders -> STRING]
  /\ Loads \subseteq Folders \X Nat /\ IsFiniteSet(Loads)
  /\ All \notin Types /\ IsFiniteSet(Types)
  /\ ArgLists \subseteq Seq(Folders) \ {<<>>}
  /\ Others \subseteq Seq(Entries)
  /\ Absent \notin Seq(Entries) /\ Broken \notin Seq(Entries)
  /\ MaxTurns \in Nat /\ MaxEntries \in Nat

VARIABLES
  test,      \* test[0-9] of each load: the experiment and the types it answered
  rated,     \* the loads with a test[0-9]_rate that says more than 0
  results,   \* the result files: <<folder, rate, column, kind>> to a latency
  meta,      \* the metadata file of each kind
  pc,        \* where the run is
  policys,   \* the folders still to be written
  todo,      \* the loads still to be processed
  writing,   \* the result files of the present test still to be written
  memory,    \* latencys and slowdowns, before they are written
  args, was, \* history: what the run was given, and what it has read
  apart,     \* history: the two files were not written together
  turns      \* history: what the user has done

files == <<test, rated, results, meta>>
run   == <<pc, policys, todo, writing, memory>>
hist  == <<args, was, apart, turns>>
rvars == <<files, run, hist>>

(* The names of a metadata file, in its order.                                *)
NamesOf(file) == IF file \in {Absent, Broken} THEN <<>> ELSE [i \in DOMAIN file |-> file[i].name]

Nothing == [k \in Kinds |-> <<>>]

RInit ==
  /\ test \in [Loads -> [gen : {0}, types : (SUBSET Types) \ {{}}] \cup {Absent}]
  /\ rated = {l \in Loads : test[l] # Absent}
  /\ results = <<>>
  /\ meta = [k \in Kinds |-> Absent]
  /\ pc = "idle" /\ policys = <<>> /\ todo = <<>> /\ writing = <<>> /\ memory = Nothing
  /\ args = <<>> /\ was = Nothing /\ apart = FALSE /\ turns = 0

-----------------------------------------------------------------------------
(* What the user does between two runs: experiments and edits.                *)
UserTurn == /\ pc \in {"idle", "ended"} /\ turns < MaxTurns /\ turns' = turns + 1 /\ pc' = "idle"
            /\ args' = <<>> /\ was' = Nothing

(* An experiment is run once more for a load; it may answer only some types,  *)
(* and none when the server was not there. Results of several clients are     *)
(* put into an emptied folder (process_experiments.sh), those of one client   *)
(* are written over the old ones.                                             *)
Experiment ==
  \E l \in Loads, ts \in SUBSET Types, emptied \in BOOLEAN :
    /\ UserTurn
    /\ test' = [test EXCEPT ![l] = [gen |-> turns', types |-> ts]]
    /\ rated' = rated \cup {l}
    /\ results' = IF emptied
                  THEN [f \in {g \in DOMAIN results : <<g[1], g[2]>> # l} |-> results[f]]
                  ELSE results
    /\ UNCHANGED <<meta, policys, todo, writing, memory, apart>>

(* remove_processed_test: the raw tests go, the result files stay.            *)
Clean ==
  \E f \in Folders :
    /\ UserTurn
    /\ test' = [l \in Loads |-> IF l[1] = f THEN Absent ELSE test[l]]
    /\ UNCHANGED <<rated, results, meta, policys, todo, writing, memory, apart>>

(* handle_meta.py reads one file and writes it again: killed in between, it   *)
(* leaves the file empty.                                                     *)
Save(k, data) ==
  /\ UserTurn
  /\ Len(data) <= MaxEntries
  /\ \E saved \in {data, Broken} : meta' = [meta EXCEPT ![k] = saved]
  /\ apart' = TRUE
  /\ UNCHANGED <<test, rated, results, policys, todo, writing, memory>>

(* get_policy: the first of that name.                                        *)
First(k, name) == CHOOSE i \in DOMAIN meta[k] :
                    meta[k][i].name = name /\ \A j \in 1 .. i - 1 : meta[k][j].name # name

Known(k) == ToSet(NamesOf(meta[k]))

Rename ==
  \E k \in Kinds : \E old \in Known(k), new \in {NameOf[f] : f \in Folders} :
    Save(k, [meta[k] EXCEPT ![First(k, old)].name = new])

Delete ==
  \E k \in Kinds : \E name \in Known(k) : Save(k, RemoveAt(meta[k], First(k, name)))

Concat ==
  \E k \in Kinds, other \in Others :
    meta[k] \notin {Absent, Broken} /\ Save(k, meta[k] \o other)

User == Experiment \/ Clean \/ Rename \/ Delete \/ Concat

-----------------------------------------------------------------------------
(* process_policy: the rate folders of a policy in the order of their rates,  *)
(* those that have a test.                                                    *)
Sorted(S) == CHOOSE s \in [1 .. Cardinality(S) -> S] : \A i, j \in DOMAIN s : i < j => s[i] < s[j]

RatesOf(f, loads) == Sorted({l[2] : l \in {m \in loads : m[1] = f}})

LoadsOf(f, loads) == LET rs == RatesOf(f, loads) IN [i \in DOMAIN rs |-> <<f, rs[i]>>]

Tested == {l \in Loads : test[l] # Absent}

(* Mutant: a test with a result is taken for processed.                       *)
UnprocessedTests(f) == LoadsOf(f, {l \in Tested : <<l[1], l[2], All, "latency">> \notin DOMAIN results})

TestsOf(f) == LoadsOf(f, Tested)

Start ==
  \E a \in ArgLists :
    /\ pc \in {"idle", "ended"} /\ turns < MaxTurns /\ turns' = turns + 1
    /\ args' = a /\ policys' = a
    /\ todo' = FlattenSeq([i \in DOMAIN a |-> TestsOf(a[i])])
    /\ apart' = (NamesOf(meta["latency"]) # NamesOf(meta["slowdown"]))
    /\ was' = Nothing
    /\ pc' = "test"
    /\ UNCHANGED <<files, writing, memory>>

Die == /\ pc' = "idle" /\ policys' = <<>> /\ todo' = <<>> /\ writing' = <<>>
       /\ memory' = Nothing /\ args' = <<>> /\ was' = Nothing

(* process_test: it reads the test, then writes a file for each column and    *)
(* kind, in an order of the types that group_by chooses. A test without an    *)
(* answer cannot be read, and ends the run.                                   *)
ReadTest ==
  /\ pc = "test" /\ todo # <<>>
  /\ LET t == test[Head(todo)]
     IN IF t.types = {} THEN Die
        ELSE \E order \in SetToSeqs(t.types) :
               /\ writing' = FlattenSeq([i \in 1 .. Len(order) + 1 |->
                    LET c == (<<All>> \o order)[i] IN <<<<c, "latency">>, <<c, "slowdown">>>>])
               /\ pc' = "write"
               /\ UNCHANGED <<policys, todo, memory, args, was>>
  /\ UNCHANGED <<files, apart, turns>>

WriteResult ==
  /\ pc = "write"
  /\ LET l == Head(todo) w == Head(writing) file == <<l[1], l[2], w[1], w[2]>>
     IN results' = [x \in DOMAIN results \cup {file} |->
                      IF x = file THEN [rate |-> l[2], gen |-> test[l].gen] ELSE results[x]]
  /\ writing' = Tail(writing)
  /\ IF Len(writing) = 1 THEN todo' = Tail(todo) /\ pc' = "test" ELSE UNCHANGED <<todo, pc>>
  /\ UNCHANGED <<test, rated, meta, policys, memory, hist>>

(* write_metadata: both files are read, or none. One that a killed run has    *)
(* left empty ends this run too.                                              *)
ReadMeta ==
  /\ pc = "test" /\ todo = <<>>
  /\ IF \E k \in Kinds : meta[k] = Absent
     THEN pc' = "update" /\ UNCHANGED <<policys, todo, writing, memory, args, was>>
     ELSE IF \E k \in Kinds : meta[k] = Broken
     THEN Die
     ELSE memory' = meta /\ was' = meta /\ pc' = "update" /\ UNCHANGED <<policys, todo, writing, args>>
  /\ UNCHANGED <<files, apart, turns>>

(* Mutant: only the first entry is looked at.                                 *)
RemoveIfFirst(name, data) ==
  IF data # <<>> /\ Head(data).name = name THEN Tail(data) ELSE data

(* remove_if_present: it deletes from the list it enumerates, so the one      *)
(* behind a deleted entry is passed over.                                     *)
RemoveIfPresent(name, data) ==
  LET after[i \in 0 .. Len(data)] ==
        IF i = 0 THEN data
        ELSE LET d == after[i - 1]
             IN IF i <= Len(d) /\ d[i].name = name THEN RemoveAt(d, i) ELSE d
  IN after[Len(data)]

(* Mutant: the loads without a rate are not skipped.                          *)
AllLoadsOf(f) == RatesOf(f, {l \in Loads : l[1] = f})

(* process_get_policy_data: loads without a rate are skipped.                 *)
RatedOf(f) == RatesOf(f, rated)

(* latencys.update: x grows with each load, a column only if it has a result. *)
Column(f, c, k) ==
  LET rs == RatesOf(f, {l \in rated : <<l[1], l[2], c, k>> \in DOMAIN results})
  IN [i \in DOMAIN rs |-> results[<<f, rs[i], c, k>>]]

PolicyData(f, k) == [x |-> RatedOf(f), col |-> [c \in Columns |-> Column(f, c, k)]]

Entry(f, k) == [name |-> NameOf[f], data |-> PolicyData(f, k)]

(* Mutant: the slowdowns are only appended to.                                *)
UpdatePolicyOnce ==
  /\ pc = "update" /\ policys # <<>>
  /\ LET f == Head(policys)
     IN memory' = [k \in Kinds |-> Append(IF k = "latency" THEN RemoveIfPresent(NameOf[f], memory[k])
                                          ELSE memory[k], Entry(f, k))]
  /\ policys' = Tail(policys)
  /\ UNCHANGED <<files, pc, todo, writing, hist>>

UpdatePolicy ==
  /\ pc = "update" /\ policys # <<>>
  /\ LET f == Head(policys)
     IN memory' = [k \in Kinds |-> Append(RemoveIfPresent(NameOf[f], memory[k]), Entry(f, k))]
  /\ policys' = Tail(policys)
  /\ UNCHANGED <<files, pc, todo, writing, hist>>

(* Opening a file to write it empties it.                                     *)
OpenAs(from, to, k) ==
  /\ pc = from /\ policys = <<>>
  /\ meta' = [meta EXCEPT ![k] = Broken]
  /\ pc' = to
  /\ UNCHANGED <<test, rated, results, policys, todo, writing, memory, hist>>

Dump(from, to, k) ==
  /\ pc = from
  /\ meta' = [meta EXCEPT ![k] = memory[k]]
  /\ memory' = [memory EXCEPT ![k] = <<>>]
  /\ pc' = to
  /\ UNCHANGED <<test, rated, results, policys, todo, writing, hist>>

WriteMeta ==
  \/ OpenAs("update", "dump", "latency") \/ Dump("dump", "openSlow", "latency")
  \/ OpenAs("openSlow", "dumpSlow", "slowdown") \/ Dump("dumpSlow", "ended", "slowdown")

(* The run is killed.                                                         *)
Crash ==
  /\ pc \notin {"idle", "ended"}
  /\ Die
  /\ apart' = (apart \/ pc \in {"dump", "openSlow", "dumpSlow"})
  /\ UNCHANGED <<files, turns>>

Processing == ReadTest \/ WriteResult \/ ReadMeta \/ UpdatePolicy \/ WriteMeta

RNext == User \/ Start \/ Processing \/ Crash

RSpec == RInit /\ [][RNext]_rvars

-----------------------------------------------------------------------------
(* Types: a run works only on loads that have a test, and a result file says  *)
(* what was measured at the rate of its folder.                               *)
RTypeOK ==
  /\ test \in [Loads -> [gen : Nat, types : SUBSET Types] \cup {Absent}]
  /\ rated \subseteq Loads /\ {l \in Loads : test[l] # Absent} \subseteq rated
  /\ DOMAIN results \subseteq Folders \X Nat \X Columns \X Kinds
  /\ \A x \in DOMAIN results : results[x] \in Latency /\ results[x].rate = x[2]
  /\ meta \in [Kinds -> Seq(Entries) \cup {Absent, Broken}]
  /\ memory \in [Kinds -> Seq(Entries)] /\ was \in [Kinds -> Seq(Entries)]
  /\ pc \in {"idle", "test", "write", "update", "dump", "openSlow", "dumpSlow", "ended"}
  /\ args \in Seq(Folders) /\ policys \in Seq(Folders)
  /\ todo \in Seq(Loads) /\ ToSet(todo) \subseteq Tested
  /\ writing \in Seq(Columns \X Kinds)
  /\ pc = "write" => todo # <<>> /\ writing # <<>>
  /\ turns \in 0 .. MaxTurns /\ apart \in BOOLEAN

(* When a run has ended, the last entry of each policy it was given says what *)
(* the tests say that are in the folder now, in both files and for each type  *)
(* they answer, whatever runs were killed and experiments repeated before     *)
(* (process_policy with force, process_policys.py:57). A type that is no      *)
(* longer answered is left out of this: its old result file is still there.   *)
LastFolder(name) == LET i == CHOOSE j \in DOMAIN args :
                          /\ NameOf[args[j]] = name
                          /\ \A m \in j + 1 .. Len(args) : NameOf[args[m]] # name
                    IN args[i]

Given == {NameOf[args[i]] : i \in DOMAIN args}

EntryOf(name, k) == LET S == {i \in DOMAIN meta[k] : meta[k][i].name = name}
                    IN meta[k][CHOOSE i \in S : \A j \in S : j <= i].data

Answers(l, c) == test[l] # Absent /\ test[l].types # {} /\ (c = All \/ c \in test[l].types)

MetadataIsCurrent ==
  pc = "ended" =>
    \A name \in Given, k \in Kinds, c \in Columns :
      LET f == LastFolder(name) vs == EntryOf(name, k).col[c]
      IN \A l \in rated : l[1] = f /\ Answers(l, c) =>
           [rate |-> l[2], gen |-> test[l].gen] \in ToSet(vs)
           /\ \A i \in DOMAIN vs : vs[i].rate = l[2] => vs[i].gen = test[l].gen

(* A column whose type was answered at every load says in its i-th place what *)
(* was measured at the i-th load of x: the columns have no keys of their own, *)
(* and a chart draws one over the other.                                      *)
ColumnsAligned ==
  pc = "ended" =>
    \A name \in Given, k \in Kinds, c \in Columns :
      LET f == LastFolder(name) d == EntryOf(name, k)
      IN (\A l \in rated : l[1] = f => Answers(l, c)) =>
           /\ Len(d.col[c]) = Len(d.x)
           /\ \A i \in DOMAIN d.x : d.col[c][i].rate = d.x[i]

(* The entries of the policies that are not among the names, in their order.  *)
OthersIn(file, names) ==
  LET kept[i \in 0 .. Len(file)] ==
        IF i = 0 THEN <<>>
        ELSE IF file[i].name \in names THEN kept[i - 1] ELSE Append(kept[i - 1], file[i])
  IN kept[Len(file)]

At(file, name) == {i \in DOMAIN file : file[i].name = name}

(* A run leaves the entries of the other policies as it found them, in their  *)
(* order, and has one entry of each of its own (process_policys.py:34). This  *)
(* leaves out two entries of one name without an entry of another policy in   *)
(* between, as concat and rename can make them.                               *)
Apart(file, name, names) ==
  \A i, j \in At(file, name) : i < j => \E m \in i + 1 .. j - 1 : file[m].name \notin names

UpdatedInPlace ==
  pc = "ended" =>
    \A k \in Kinds :
      /\ OthersIn(meta[k], Given) = OthersIn(was[k], Given)
      /\ \A name \in Given : Apart(was[k], name, Given) => Cardinality(At(meta[k], name)) = 1

(* Between two runs the files list the same policies in the same order,       *)
(* unless a run was killed while it wrote them or one was edited by hand.     *)
FilesInStep ==
  pc \in {"idle", "test", "update", "ended"} /\ ~apart =>
    NamesOf(meta["latency"]) = NamesOf(meta["slowdown"])
=============================================================================
