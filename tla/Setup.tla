------------------------------- MODULE Setup -------------------------------
(* From a configuration to a plan that may be run: ShRemote.__init__ and      *)
(* ShRemote.validate (shremote.py). The configuration is loaded, in the older *)
(* format if it must be; its commands are made, registered under their names  *)
(* and linked to the commands that start and stop them; then all is tried out *)
(* before anything is run. Whatever is wrong is an exception, and the program *)
(* ends: "refused". What is accepted is what Scheduler and Formatting assume. *)
(* What loading makes of a configuration is given (ConfigFormat has it): what *)
(* is accepted can be run whatever the loader does.                           *)
EXTENDS ConfigTree, FiniteSets

CONSTANTS
  Loads(_),    \* load_cfg: the tree of a configuration, or Error
  LoadsV0(_),  \* load_v0_cfg, for a configuration of the older format
  Inputs, \* sets of [cfg: a configuration, like: the same in the present format, or Error]
  Needs,  \* of each text of a program or a file, the fields it reads
  Filled  \* of a text with the index of the host: what it is on each host

(* likely_v0_cfg: a map of commands, which the parser has left in its order.  *)
LikelyV0(cfg) == Has(cfg, "commands") /\ IsPairs(Get(cfg, "commands"))

ListsCommands(tree) ==
  ~IsError(tree) /\ Has(tree, "commands") => IsFiniteSet(DOMAIN Get(tree, "commands").elems)

(* The commands of a tree that was loaded are a list.                         *)
ASSUME SetupAssumption ==
  \A i \in DOMAIN Inputs : \A given \in Inputs[i] :
    /\ ListsCommands(Loads(given.cfg))
    /\ LikelyV0(given.cfg) => ListsCommands(LoadsV0(given.cfg))

VARIABLES
  input,
  pc,
  at,      \* the command it is at
  cfg,     \* the tree
  commands,
  cmd_names,      \* who may be referred to by which name: entries of each of its lists
  start_trigger,  \* of each command the one that starts it, or 0
  stop_trigger

uvars == <<input, pc, at, cfg, commands, cmd_names, start_trigger, stop_trigger>>

UInit ==
  /\ \E i \in DOMAIN Inputs : input \in Inputs[i]
  /\ pc = "load" /\ at = 1 /\ cfg = input.cfg
  /\ commands = <<>> /\ cmd_names = {} /\ start_trigger = <<>> /\ stop_trigger = <<>>

Filling(text, host_idx) == IF text \in DOMAIN Filled THEN Filled[text][host_idx] ELSE text

(* create_host_list: a host may stand for several, and may be disabled.       *)
Enabled(n) == Value(n, "enabled", "True") = "True"

CreateHostList(n) ==
  LET Named(h, hostname) == [name |-> Get(h, "name").v, addr |-> hostname.v, ssh |-> Get(h, "ssh")]
      Hosts(h) == IF ~Enabled(h) THEN <<>>
                  ELSE IF IsList(Get(h, "hostname"))
                  THEN [i \in DOMAIN Get(h, "hostname").elems |-> Named(h, Get(h, "hostname").elems[i])]
                  ELSE <<Named(h, Get(h, "hostname"))>>
  IN FlattenSeq([i \in DOMAIN n.elems |-> Hosts(n.elems[i])])

HostsOf(n) == IF Has(n, "hosts") THEN CreateHostList(Get(n, "hosts")) ELSE <<>>

(* A text finds its fields: those of the entry and those it is given.         *)
Finds(n, text, given) == text \in DOMAIN Needs => Needs[text] \subseteq DOMAIN n.sub \cup given

StartFinds(n) == Finds(n, Value(Get(n, "program"), "start", ""), {"host_idx", "log_dir", "host"})
StopFinds(n)  == Finds(n, Value(Get(n, "program"), "stop", ""), {"host_idx", "host", "pid"})

(* ShCommand and ShProgram.                                                   *)
Command(n) ==
  LET p == Get(n, "program")
      log == IF Has(p, "log") THEN Get(p, "log") ELSE Empty
      name == Value(n, "name", "")
  IN [cfg |-> n,
      name |-> IF name = "{program.name}" THEN Value(p, "name", "") ELSE name,
      begin |-> Value(n, "begin", "None"),
      start_after |-> Value(n, "start_after", "None"),
      stop_after |-> Value(n, "stop_after", "None"),
      max_duration |-> Value(n, "max_duration", "None"),
      min_duration |-> IF Value(p, "duration_reduced_error", "") = "True"
                       THEN Value(n, "min_duration", "None") ELSE "None",
      start |-> Value(p, "start", ""), stop |-> Value(p, "stop", "None"), bg |-> Value(p, "bg", ""),
      dir |-> Value(log, "dir", ""), out |-> Value(log, "out", "None"),
      err |-> Value(log, "err", "None"), append |-> Value(log, "append", ""),
      hosts |-> HostsOf(n)]

(* The commands that are enabled, in their order.                             *)
MadeOf(tree) ==
  LET given == Get(tree, "commands").elems
      enabled == {i \in DOMAIN given : Enabled(given[i])}
      nth(k) == CHOOSE i \in enabled : Cardinality({j \in enabled : j <= i}) = k
  IN [k \in 1 .. Cardinality(enabled) |-> Command(given[nth(k)])]

-----------------------------------------------------------------------------
Go(next) ==
  /\ pc' = next /\ at' = 1
  /\ UNCHANGED <<input, cfg, commands, cmd_names, start_trigger, stop_trigger>>

Refuse == Go("refused")

Step(ok, next) == IF ok THEN Go(next) ELSE Refuse

Loaded(tree, otherwise) ==
  IF IsError(tree) \/ ~Has(tree, "commands") THEN Go(otherwise)
  ELSE /\ cfg' = tree /\ pc' = "commands"
       /\ UNCHANGED <<input, at, commands, cmd_names, start_trigger, stop_trigger>>

Load   == pc = "load" /\ Loaded(Loads(cfg), IF LikelyV0(cfg) THEN "loadV0" ELSE "refused")
LoadV0 == pc = "loadV0" /\ Loaded(LoadsV0(cfg), "refused")

(* A command without a host, or whose start does not find its fields, is      *)
(* refused when it is made (preparing its trees formats the start).           *)
MakeCommands ==
  /\ pc = "commands"
  /\ LET made == MadeOf(cfg)
     IN IF \A i \in DOMAIN made : made[i].hosts # <<>> /\ StartFinds(made[i].cfg)
        THEN /\ commands' = made
             /\ start_trigger' = [i \in DOMAIN made |-> 0]
             /\ stop_trigger' = [i \in DOMAIN made |-> 0]
             /\ pc' = "register"
             /\ UNCHANGED <<input, at, cfg, cmd_names>>
        ELSE Refuse

Entry(c, triggered) == [name |-> commands[c].name, cmd |-> c, triggered |-> triggered]

(* The timed commands may be referred to by all, ...                          *)
Register ==
  /\ pc = "register" /\ pc' = "link"
  /\ cmd_names' = {Entry(c, FALSE) : c \in {d \in DOMAIN commands : commands[d].begin # "None"}}
  /\ UNCHANGED <<input, at, cfg, commands, start_trigger, stop_trigger>>

Matches(names, name) == {e \in names : e.name = name}

(* No name, or that of exactly one.                                           *)
Refers(names, name) == name # "None" => \E e \in names : Matches(names, name) = {e}

Referred(names, name) == IF name = "None" THEN 0 ELSE (CHOOSE e \in Matches(names, name) : TRUE).cmd

(* ... those that others start from then on; a command with a begin that      *)
(* another starts is then there twice.                                        *)
Link ==
  /\ pc = "link" /\ at \in DOMAIN commands
  /\ LET c == commands[at]
         known == IF c.start_after = "None" THEN cmd_names ELSE cmd_names \cup {Entry(at, TRUE)}
     IN IF ~Refers(cmd_names, c.start_after) \/ ~Refers(known, c.stop_after) THEN Refuse
        ELSE /\ cmd_names' = known
             /\ start_trigger' = [start_trigger EXCEPT ![at] = Referred(cmd_names, c.start_after)]
             /\ stop_trigger' = [stop_trigger EXCEPT ![at] = Referred(known, c.stop_after)]
             /\ at' = at + 1
             /\ UNCHANGED <<input, pc, cfg, commands>>

FilesOf == IF Has(cfg, "files") THEN {f \in {Get(cfg, "files").sub[k] : k \in DOMAIN Get(cfg, "files").sub} : Enabled(f)}
           ELSE {}

MakeFiles ==
  /\ pc = "link" /\ at \notin DOMAIN commands
  /\ Step(\A f \in FilesOf : HostsOf(f) # <<>>, "validate")

-----------------------------------------------------------------------------
(* Mutant: only what starts a command is looked at.                           *)
StartsOnly(c) == {start_trigger[c]} \ {0}

Triggers(c) == {start_trigger[c], stop_trigger[c]} \ {0}

(* What a command waits for, however indirectly: what is in every set that    *)
(* has its triggers, and the triggers of its members.                         *)
Holds(S, c) == Triggers(c) \subseteq S /\ \A d \in S : Triggers(d) \subseteq S

Reached(c) == {d \in DOMAIN commands : \A S \in SUBSET DOMAIN commands : Holds(S, c) => d \in S}

(* dependencies_contain of a command itself: it finds the command, or goes    *)
(* round in a loop that the command only leads to, until Python ends it.      *)
DependenciesContain(c) == \E d \in Reached(c) \cup {c} : d \in Reached(d)

Stoppable(c) == c.bg = "True" /\ c.max_duration # "None" => c.stop # "None"

Validate ==
  /\ pc = "validate"
  /\ IF at \notin DOMAIN commands THEN Go("overlap")
     ELSE LET c == commands[at]
          IN IF \/ c.begin = "None" /\ c.start_after = "None"
                \/ DependenciesContain(at) \/ ~StopFinds(c.cfg) \/ ~Stoppable(c)
             THEN Refuse
             ELSE /\ at' = at + 1
                  /\ UNCHANGED <<input, pc, cfg, commands, cmd_names, start_trigger, stop_trigger>>

(* assert_no_overlap, of a command and a later one; a later one that has no   *)
(* log of the same kind raises just as well.                                  *)
NoOverlap(c, d) ==
  \/ c.append = "True" /\ d.append = "True"
  \/ Filling(c.dir, 1) # Filling(d.dir, 1)
  \/ /\ c.out # "None" => (d.out # "None" /\ Filling(c.out, 1) # Filling(d.out, 1))
     /\ c.err # "None" => (d.err # "None" /\ Filling(c.err, 1) # Filling(d.err, 1))

CheckLogs ==
  /\ pc = "overlap"
  /\ Step(\A i, j \in DOMAIN commands : i < j => NoOverlap(commands[i], commands[j]), "files")

ValidateFiles ==
  /\ pc = "files"
  /\ Step(\A f \in FilesOf : Finds(f, Get(f, "src").v, {"host"}) /\ Finds(f, Get(f, "dst").v, {"host"}), "ready")

UNext == Load \/ LoadV0 \/ MakeCommands \/ Register \/ Link \/ MakeFiles \/ Validate \/ CheckLogs \/ ValidateFiles

USpec == UInit /\ [][UNext]_uvars

-----------------------------------------------------------------------------
Accepted == pc = "ready"

Planned == INSTANCE Plan WITH
  Commands <- DOMAIN commands,
  Timed <- {c \in DOMAIN commands : commands[c].begin # "None"},
  Starters <- [c \in DOMAIN commands |-> {start_trigger[c]} \ {0}],
  Stoppers <- [c \in DOMAIN commands |-> {stop_trigger[c]} \ {0}],
  Bg <- {c \in DOMAIN commands : commands[c].bg = "True"},
  Limited <- {c \in DOMAIN commands : commands[c].max_duration # "None"},
  HasStop <- {c \in DOMAIN commands : commands[c].stop # "None"}

(* A plan that is accepted can be run (shremote.py:580-602, 358-386): what    *)
(* starts each command leads to a command that has a time, through commands   *)
(* that never wait for what waits for them, neither to be started nor to be   *)
(* stopped; a background program that has an end can be stopped; each command *)
(* has a host to run on; and one at least has a time to begin the run with    *)
(* (shremote.py:826).                                                         *)
PlanCanRun ==
  Accepted =>
    /\ Planned!Validated
    /\ \A c \in DOMAIN commands : commands[c].hosts # <<>>
    /\ commands # <<>> => \E c \in DOMAIN commands : commands[c].begin # "None"

(* What a user has written of the same thing in several places: the first of  *)
(* these nodes that has it.                                                   *)
FirstOf(nodes, key, default) ==
  LET having == {i \in DOMAIN nodes : Has(nodes[i], key)}
  IN IF having = {} THEN default ELSE Get(nodes[CHOOSE i \in having : \A j \in having : i <= j], key)

Under(n, key) == IF Has(n, key) THEN Get(n, key) ELSE Empty

HostsGiven(n) ==
  LET h == FirstOf(<<n>>, "hosts", FirstOf(<<n>>, "host", List(<<>>))) IN IF IsList(h) THEN h.elems ELSE <<h>>

(* The most specific setting counts (cfg_formatter.py:62-83, 166-167): of the *)
(* connection to a host what the host says, then the section for all, then    *)
(* the default, and no setting is missing; of an argument what the command    *)
(* says, then the defaults of its program. With the hosts it is the other way *)
(* round: those of the program replace those of the command.                  *)
MostSpecificWins ==
  Accepted /\ ~LikelyV0(input.cfg) =>
    LET raw == SelectSeq(Get(input.cfg, "commands").elems, Enabled)
        ProgramOf(n) == IF IsMap(Get(n, "program")) THEN Get(n, "program")
                        ELSE Get(Get(input.cfg, "programs"), Get(n, "program").v)
        defaults == [user |-> Leaf("{0.user}"), key |-> Leaf("~/.ssh/id_rsa"), port |-> Leaf("22")]
    IN \A c \in DOMAIN commands :
         LET program == ProgramOf(raw[c])
             given == HostsGiven(IF HostsGiven(program) # <<>> THEN program ELSE raw[c])
             named == {given[i].v : i \in {j \in DOMAIN given : IsLeaf(given[j])}}
         IN /\ FirstOf(<<commands[c].cfg>>, "x", Leaf("None"))
                  = FirstOf(<<raw[c], Under(program, "defaults")>>, "x", Leaf("None"))
            /\ \A h \in {commands[c].hosts[i] : i \in DOMAIN commands[c].hosts} :
                 /\ h.name \in named \cup {"_anonymous"} /\ DOMAIN defaults \subseteq DOMAIN h.ssh.sub
                 /\ h.name \in named =>
                      \A k \in DOMAIN defaults :
                        Get(h.ssh, k) = FirstOf(<<Under(Under(Under(input.cfg, "hosts"), h.name), "ssh"),
                                                  Under(input.cfg, "ssh")>>, k, defaults[k])

Essence(c) == [c EXCEPT !.cfg = Get(@, "program")]

AllAlike(s, t) == DOMAIN s = DOMAIN t /\ \A i \in DOMAIN s : Essence(s[i]) = Essence(t[i])

(* A configuration of the older format makes the commands that its present    *)
(* form makes: its durations, its hosts that are lists, its order and its     *)
(* texts are taken over (cfg_format_v0.py:121-139).                           *)
OldFormatLoadsAlike ==
  pc = "register" /\ ~IsError(input.like) =>
    AllAlike(MadeOf(Loads(input.like)), commands)
=============================================================================
