---------------------------- MODULE SetupProofs ----------------------------
(* Theorems about the plans that are accepted, for every set of               *)
(* configurations and whatever the loader makes of them.                      *)
EXTENDS Setup, FiniteSetTheorems, WellFoundedInduction, TLAPS

Points == {"register", "link", "validate", "overlap", "files", "ready"}

(* What is loaded is what was given, and has a list of commands.              *)
LoadInv ==
  /\ \E i \in DOMAIN Inputs : input \in Inputs[i]
  /\ pc \in {"load", "loadV0"} => cfg = input.cfg
  /\ pc = "loadV0" => LikelyV0(cfg)
  /\ pc = "commands" => IsFiniteSet(DOMAIN Get(cfg, "commands").elems)

IsAList(s) == \E n \in Nat : DOMAIN s = 1 .. n

(* A trigger is a command, or none.                                           *)
TriggersTyped ==
  /\ start_trigger \in [DOMAIN commands -> DOMAIN commands \cup {0}]
  /\ stop_trigger \in [DOMAIN commands -> DOMAIN commands \cup {0}]

(* Once they are made, the commands stay as they are.                         *)
MadeInv ==
  /\ at \in Nat \ {0}
  /\ pc \in {"load", "loadV0", "commands", "register"} => at = 1
  /\ IsAList(commands)
  /\ pc \in Points => TriggersTyped /\ \A c \in DOMAIN commands : commands[c].hosts # <<>>
  /\ pc = "link" => \A e \in cmd_names : e.cmd \in DOMAIN commands

(* The commands it is past: all, once it has gone on.                         *)
Past(here, c) == pc = here => c < at

HasStarter(c) == commands[c].start_after # "None" => start_trigger[c] # 0

Sound(c) ==
  /\ commands[c].begin # "None" \/ commands[c].start_after # "None"
  /\ ~DependenciesContain(c)
  /\ Stoppable(commands[c])

LinkInv ==
  \A c \in DOMAIN commands :
    /\ pc \in {"link", "validate", "overlap", "files", "ready"} /\ Past("link", c) => HasStarter(c)
    /\ pc \in {"validate", "overlap", "files", "ready"} /\ Past("validate", c) => Sound(c)

(* The inductive invariant.                                                   *)
SetupInv == LoadInv /\ MadeInv /\ LinkInv

-----------------------------------------------------------------------------
(* What a command waits for.                                                  *)
LEMMA TriggersAre ==
  ASSUME TriggersTyped, NEW c \in DOMAIN commands
  PROVE  Triggers(c) \subseteq DOMAIN commands
  BY DEF TriggersTyped, Triggers

LEMMA ReachedHolds ==
  ASSUME TriggersTyped, NEW c \in DOMAIN commands
  PROVE  Holds(Reached(c), c)
<1>1. Triggers(c) \subseteq Reached(c)
  BY TriggersAre DEF Reached, Holds
<1>2. ASSUME NEW d \in Reached(c), NEW e \in Triggers(d) PROVE e \in Reached(c)
  <2>1. d \in DOMAIN commands
    BY DEF Reached
  <2>2. e \in DOMAIN commands
    BY <2>1, TriggersAre
  <2>3. ASSUME NEW S \in SUBSET DOMAIN commands, Holds(S, c) PROVE e \in S
    <3>1. d \in S
      BY <2>3 DEF Reached
    <3> QED
      BY <2>3, <3>1 DEF Holds
  <2> QED
    BY <2>2, <2>3 DEF Reached
<1> QED
  BY <1>1, <1>2 DEF Holds

LEMMA ReachedLeast ==
  ASSUME NEW c \in DOMAIN commands, NEW S \in SUBSET DOMAIN commands, Holds(S, c)
  PROVE  Reached(c) \subseteq S
  BY DEF Reached

(* What a command waits for reaches less than the command does.               *)
LEMMA ReachedFurther ==
  ASSUME TriggersTyped, NEW c \in DOMAIN commands, NEW d \in Triggers(c)
  PROVE  d \in DOMAIN commands /\ d \in Reached(c) /\ Reached(d) \subseteq Reached(c)
<1>1. d \in DOMAIN commands
  BY TriggersAre
<1>2. Holds(Reached(c), c) /\ Reached(c) \in SUBSET DOMAIN commands
  BY ReachedHolds DEF Reached
<1>3. d \in Reached(c)
  BY <1>2 DEF Holds
<1>4. Holds(Reached(c), d)
  BY <1>2, <1>3 DEF Holds
<1> QED
  BY <1>1, <1>2, <1>3, <1>4, ReachedLeast

LEMMA CommandsFinite ==
  ASSUME IsAList(commands)
  PROVE  IsFiniteSet(DOMAIN commands)
<1>1. \A n \in Nat : IsFiniteSet(1 .. n)
  BY FS_Interval
<1> QED
  BY <1>1 DEF IsAList

(* Of some commands, take one that waits for the fewest: it waits for none of *)
(* them, when there is no loop.                                               *)
LEMMA LoopFree ==
  ASSUME IsAList(commands), TriggersTyped, \A c \in DOMAIN commands : ~DependenciesContain(c)
  PROVE  Planned!Acyclic
<1> DEFINE D == DOMAIN commands
<1>1. IsFiniteSet(D)
  BY CommandsFinite
<1>2. ASSUME NEW c \in D PROVE c \notin Reached(c)
  BY DEF DependenciesContain
<1>3. ASSUME NEW c \in D PROVE IsFiniteSet(Reached(c)) /\ Cardinality(Reached(c)) \in Nat
  BY <1>1, FS_Subset, FS_CardinalityType DEF Reached
<1>4. ASSUME NEW c \in D, NEW d \in Triggers(c)
      PROVE d \in D /\ Cardinality(Reached(d)) < Cardinality(Reached(c))
  <2>1. d \in D /\ d \in Reached(c) /\ Reached(d) \subseteq Reached(c)
    BY ReachedFurther
  <2>2. Reached(d) # Reached(c)
    BY <1>2, <2>1
  <2>3. IsFiniteSet(Reached(c)) /\ Cardinality(Reached(c)) \in Nat /\ Cardinality(Reached(d)) \in Nat
    BY <1>3, <2>1
  <2>4. Cardinality(Reached(d)) <= Cardinality(Reached(c))
        /\ (Cardinality(Reached(c)) = Cardinality(Reached(d)) => Reached(d) = Reached(c))
    BY <2>1, <2>3, FS_Subset
  <2> QED
    BY <2>1, <2>2, <2>3, <2>4
<1>5. ASSUME NEW S \in SUBSET D, S # {} PROVE \E c \in S : Triggers(c) \cap S = {}
  <2> DEFINE Counts == {Cardinality(Reached(c)) : c \in S}
  <2>1. Counts \subseteq Nat /\ Counts # {}
    BY <1>3, <1>5
  <2>2. PICK k \in Counts : \A j \in Counts : ~(<<j, k>> \in OpToRel(<, Nat))
    <3> HIDE DEF Counts
    <3> QED
      BY <2>1, NatLessThanWellFounded, WFMin
  <2>3. PICK c \in S : k = Cardinality(Reached(c))
    OBVIOUS
  <2>4. ASSUME NEW d \in Triggers(c) \cap S PROVE FALSE
    <3>1. Cardinality(Reached(d)) < k
      BY <1>4, <2>3
    <3>2. Cardinality(Reached(d)) \in Counts
      OBVIOUS
    <3> QED
      BY <2>1, <2>2, <3>1, <3>2 DEF OpToRel
  <2> QED
    BY <2>4
<1>6. SUFFICES ASSUME NEW S \in (SUBSET DOMAIN commands) \ {{}}
      PROVE  \E c \in S : ([d \in DOMAIN commands |-> {start_trigger[d]} \ {0}][c]
                            \cup [d \in DOMAIN commands |-> {stop_trigger[d]} \ {0}][c]) \cap S = {}
  BY DEF Planned!Acyclic
<1>7. PICK c \in S : Triggers(c) \cap S = {}
  <2>1. S \in SUBSET D /\ S # {}
    BY <1>6
  <2> HIDE DEF D
  <2> QED
    BY <1>5, <2>1
<1>8. c \in DOMAIN commands
  OBVIOUS
<1> QED
  BY <1>7, <1>8 DEF Triggers

(* What a command waits for is a trigger of it, or what a trigger waits for.  *)
LEMMA ReachedThrough ==
  ASSUME TriggersTyped, NEW c \in DOMAIN commands, NEW d \in Reached(c)
  PROVE  d \in Triggers(c) \/ \E e \in Triggers(c) : d \in Reached(e)
<1> DEFINE S == Triggers(c) \cup UNION {Reached(e) : e \in Triggers(c)}
<1>1. ASSUME NEW e \in Triggers(c) PROVE e \in DOMAIN commands /\ Holds(Reached(e), e)
  BY TriggersAre, ReachedHolds
<1>2. S \in SUBSET DOMAIN commands
  BY TriggersAre DEF Reached
<1>3. ASSUME NEW g \in S PROVE Triggers(g) \subseteq S
  BY <1>1 DEF Holds
<1>4. Holds(S, c)
  BY <1>3 DEF Holds
<1> HIDE DEF S
<1>5. d \in S
  BY <1>2, <1>4, ReachedLeast
<1> QED
  BY <1>5 DEF S

(* And the other way round: a loop is a set in which each waits for another.  *)
LEMMA NoLoopFound ==
  ASSUME TriggersTyped, Planned!Acyclic, NEW c \in DOMAIN commands
  PROVE  ~DependenciesContain(c)
<1>1. ASSUME NEW d \in DOMAIN commands, d \in Reached(d) PROVE FALSE
  <2> DEFINE S == {e \in DOMAIN commands : d \in Reached(e)}
  <2>1. d \in S
    BY <1>1
  <2>2. PICK e \in S : ([a \in DOMAIN commands |-> {start_trigger[a]} \ {0}][e]
                         \cup [a \in DOMAIN commands |-> {stop_trigger[a]} \ {0}][e]) \cap S = {}
    <3>1. S \in (SUBSET DOMAIN commands) \ {{}}
      BY <2>1
    <3> HIDE DEF S
    <3> QED
      BY <3>1 DEF Planned!Acyclic
  <2>3. Triggers(e) \cap S = {}
    BY <2>2 DEF Triggers
  <2>4. d \in Triggers(e) \/ \E f \in Triggers(e) : d \in Reached(f)
    BY ReachedThrough
  <2>5. \A f \in Triggers(e) : f \in DOMAIN commands
    BY TriggersAre
  <2> QED
    BY <2>1, <2>3, <2>4, <2>5
<1> QED
  BY <1>1 DEF DependenciesContain, Reached

-----------------------------------------------------------------------------
(* What is said of the commands depends on them and their triggers only.      *)
LEMMA CommandsKept ==
  ASSUME UNCHANGED <<commands, start_trigger, stop_trigger>>
  PROVE  /\ TriggersTyped' <=> TriggersTyped
         /\ IsAList(commands)' <=> IsAList(commands)
         /\ \A c : (HasStarter(c)' <=> HasStarter(c)) /\ (Sound(c)' <=> Sound(c))
<1>1. \A c : DependenciesContain(c)' <=> DependenciesContain(c)
  BY DEF DependenciesContain, Reached, Holds, Triggers
<1>2. \A c : Stoppable(commands[c])' <=> Stoppable(commands[c])
  BY DEF Stoppable
<1>3. \A c : Sound(c)' <=> Sound(c)
  BY <1>1, <1>2 DEF Sound
<1> QED
  BY <1>3 DEF TriggersTyped, IsAList, HasStarter

LEMMA SetupInit == UInit => SetupInv
<1> SUFFICES ASSUME UInit PROVE SetupInv
  OBVIOUS
<1>1. IsAList(commands)
  <2>1. DOMAIN <<>> = 1 .. 0
    OBVIOUS
  <2> QED
    BY <2>1 DEF UInit, IsAList
<1> QED
  BY <1>1 DEF UInit, SetupInv, LoadInv, MadeInv, LinkInv, Points

(* On to the next stage, or refused.                                          *)
LEMMA GoKept ==
  ASSUME SetupInv, NEW next, Go(next), next \in {"refused", "overlap", "files", "ready", "validate"},
         next # "refused" => pc \in Points,
         next \in {"overlap", "files", "ready"} => \A c \in DOMAIN commands : Sound(c),
         next \in {"overlap", "files", "ready", "validate"} => \A c \in DOMAIN commands : HasStarter(c)
  PROVE  SetupInv'
<1>1. LoadInv'
  BY DEF Go, SetupInv, LoadInv
<1>2. at' = 1 /\ pc' = next /\ UNCHANGED <<commands, start_trigger, stop_trigger, cmd_names>>
  BY DEF Go
<1>3. MadeInv'
  BY <1>2, CommandsKept DEF SetupInv, MadeInv, Points
<1>4. LinkInv'
  <2>1. ASSUME NEW c \in DOMAIN commands' PROVE c \in Nat /\ ~(c < 1) /\ c \in DOMAIN commands
    BY <1>2 DEF SetupInv, MadeInv, IsAList
  <2> QED
    BY <1>2, <2>1, CommandsKept DEF LinkInv, Past
<1> QED
  BY <1>1, <1>3, <1>4 DEF SetupInv

LEMMA MadeIsList ==
  ASSUME NEW tree, IsFiniteSet(DOMAIN Get(tree, "commands").elems)
  PROVE  IsAList(MadeOf(tree))
<1> DEFINE given == Get(tree, "commands").elems
           enabled == {i \in DOMAIN given : Enabled(given[i])}
<1>1. Cardinality(enabled) \in Nat
  <2>1. enabled \in SUBSET DOMAIN given
    OBVIOUS
  <2> HIDE DEF enabled
  <2> QED
    BY <2>1, FS_Subset, FS_CardinalityType
<1>2. DOMAIN MadeOf(tree) = 1 .. Cardinality(enabled)
  BY DEF MadeOf
<1> HIDE DEF enabled
<1> QED
  BY <1>1, <1>2 DEF IsAList

LEMMA LoadKept ==
  ASSUME SetupInv, NEW tree, NEW otherwise, Loaded(tree, otherwise), ListsCommands(tree),
         pc \in {"load", "loadV0"},
         otherwise = "refused" \/ (otherwise = "loadV0" /\ pc = "load" /\ LikelyV0(cfg))
  PROVE  SetupInv'
<1>1. CASE IsError(tree) \/ ~Has(tree, "commands")
  <2>1. Go(otherwise)
    BY <1>1 DEF Loaded
  <2>2. CASE otherwise = "refused"
    BY <2>1, <2>2, GoKept
  <2>3. CASE otherwise = "loadV0"
    <3>1. pc' = "loadV0" /\ at' = 1 /\ cfg' = cfg /\ input' = input
          /\ UNCHANGED <<commands, start_trigger, stop_trigger>>
      BY <2>1, <2>3 DEF Go
    <3>2. IsAList(commands)'
      BY <3>1, CommandsKept DEF SetupInv, MadeInv
    <3>3. LikelyV0(cfg)'
      BY <2>3, <3>1
    <3> QED
      BY <2>3, <3>1, <3>2, <3>3 DEF SetupInv, LoadInv, MadeInv, LinkInv, Points
  <2> QED
    BY <2>2, <2>3
<1>2. CASE ~(IsError(tree) \/ ~Has(tree, "commands"))
  <2>1. pc' = "commands" /\ cfg' = tree /\ UNCHANGED <<input, at, commands, start_trigger, stop_trigger>>
    BY <1>2 DEF Loaded
  <2>2. IsFiniteSet(DOMAIN Get(tree, "commands").elems)
    BY <1>2 DEF ListsCommands
  <2>3. IsAList(commands)'
    BY <2>1, CommandsKept DEF SetupInv, MadeInv
  <2> QED
    BY <2>1, <2>2, <2>3 DEF SetupInv, LoadInv, MadeInv, LinkInv, Points
<1> QED
  BY <1>1, <1>2

LEMMA MakeKept == SetupInv /\ MakeCommands => SetupInv'
<1> SUFFICES ASSUME SetupInv, MakeCommands PROVE SetupInv'
  OBVIOUS
<1> DEFINE made == MadeOf(cfg)
<1>1. IsAList(made)
  BY MadeIsList DEF SetupInv, LoadInv, MakeCommands
<1>2. CASE ~(\A i \in DOMAIN made : made[i].hosts # <<>> /\ StartFinds(made[i].cfg))
  BY <1>2, GoKept DEF MakeCommands, Refuse
<1>3. CASE \A i \in DOMAIN made : made[i].hosts # <<>> /\ StartFinds(made[i].cfg)
  <2>1. /\ commands' = made
        /\ start_trigger' = [i \in DOMAIN made |-> 0] /\ stop_trigger' = [i \in DOMAIN made |-> 0]
        /\ pc' = "register" /\ UNCHANGED <<input, at, cfg, cmd_names>>
    BY <1>3 DEF MakeCommands
  <2>2. IsAList(commands)'
    BY <1>1, <2>1 DEF IsAList
  <2>3. TriggersTyped'
    <3> HIDE DEF made
    <3> QED
      BY <2>1 DEF TriggersTyped
  <2>4. \A c \in DOMAIN commands' : commands'[c].hosts # <<>>
    BY <1>3, <2>1
  <2> HIDE DEF made
  <2>5. MadeInv'
    <3>1. at = 1
      BY DEF MakeCommands, SetupInv, MadeInv
    <3> QED
      BY <2>1, <2>2, <2>3, <2>4, <3>1 DEF MadeInv
  <2> QED
    BY <2>1, <2>5 DEF SetupInv, LoadInv, LinkInv
<1> QED
  BY <1>2, <1>3

LEMMA RegisterKept == SetupInv /\ Register => SetupInv'
<1> SUFFICES ASSUME SetupInv, Register PROVE SetupInv'
  OBVIOUS
<1>1. /\ pc = "register" /\ pc' = "link" /\ UNCHANGED <<input, at, cfg, commands, start_trigger, stop_trigger>>
  BY DEF Register
<1>2. \A e \in cmd_names' : e.cmd \in DOMAIN commands
  BY DEF Register, Entry
<1>3. MadeInv'
  <2>1. at' \in Nat \ {0} /\ pc' = "link"
    BY <1>1 DEF SetupInv, MadeInv
  <2>2. \A e \in cmd_names' : e.cmd \in DOMAIN commands'
    BY <1>1, <1>2
  <2>3. IsAList(commands)' /\ TriggersTyped'
    BY <1>1, CommandsKept DEF SetupInv, MadeInv, Points
  <2>4. \A c \in DOMAIN commands' : commands'[c].hosts # <<>>
    BY <1>1 DEF SetupInv, MadeInv, Points
  <2> QED
    BY <2>1, <2>2, <2>3, <2>4 DEF MadeInv
<1>4. LinkInv'
  <2>1. at = 1 /\ \A c \in DOMAIN commands : c \in Nat /\ ~(c < 1)
    BY <1>1 DEF SetupInv, MadeInv, IsAList
  <2> QED
    BY <1>1, <2>1 DEF LinkInv, Past
<1> QED
  BY <1>1, <1>3, <1>4 DEF SetupInv, LoadInv

LEMMA ReferredIs ==
  ASSUME NEW names, NEW name, Refers(names, name), \A e \in names : e.cmd \in DOMAIN commands
  PROVE  /\ Referred(names, name) \in DOMAIN commands \cup {0}
         /\ name # "None" => Referred(names, name) \in DOMAIN commands
<1>1. CASE name = "None"
  BY <1>1 DEF Referred
<1>2. CASE name # "None"
  <2>1. PICK e \in names : Matches(names, name) = {e}
    BY <1>2 DEF Refers
  <2>2. (CHOOSE f \in Matches(names, name) : TRUE) = e
    BY <2>1
  <2> QED
    BY <1>2, <2>1, <2>2 DEF Referred
<1> QED
  BY <1>1, <1>2

LEMMA LinkKept == SetupInv /\ Link => SetupInv'
<1> SUFFICES ASSUME SetupInv, Link PROVE SetupInv'
  OBVIOUS
<1> DEFINE c == commands[at]
           known == IF c.start_after = "None" THEN cmd_names ELSE cmd_names \cup {Entry(at, TRUE)}
<1>1. pc = "link" /\ at \in DOMAIN commands
  BY DEF Link
<1>2. CASE ~Refers(cmd_names, c.start_after) \/ ~Refers(known, c.stop_after)
  BY <1>2, GoKept DEF Link, Refuse
<1>3. CASE Refers(cmd_names, c.start_after) /\ Refers(known, c.stop_after)
  <2>1. /\ cmd_names' = known
        /\ start_trigger' = [start_trigger EXCEPT ![at] = Referred(cmd_names, c.start_after)]
        /\ stop_trigger' = [stop_trigger EXCEPT ![at] = Referred(known, c.stop_after)]
        /\ at' = at + 1 /\ UNCHANGED <<input, pc, cfg, commands>>
    BY <1>3 DEF Link
  <2>2. (\A e \in cmd_names : e.cmd \in DOMAIN commands) /\ (\A e \in known : e.cmd \in DOMAIN commands)
    BY <1>1 DEF SetupInv, MadeInv, Entry
  <2>3. /\ Referred(cmd_names, c.start_after) \in DOMAIN commands \cup {0}
        /\ c.start_after # "None" => Referred(cmd_names, c.start_after) \in DOMAIN commands
        /\ Referred(known, c.stop_after) \in DOMAIN commands \cup {0}
    BY <1>3, <2>2, ReferredIs
  <2>4. TriggersTyped /\ at \in Nat \ {0} /\ IsAList(commands) /\ \A d \in DOMAIN commands : d \in Nat /\ d # 0
    BY <1>1 DEF SetupInv, MadeInv, Points, IsAList
  <2> DEFINE first == Referred(cmd_names, c.start_after)
             second == Referred(known, c.stop_after)
  <2>5. c.start_after # "None" => first # 0
    BY <2>3, <2>4
  <2>6. first \in DOMAIN commands \cup {0} /\ second \in DOMAIN commands \cup {0}
    BY <2>3
  <2>7. /\ start_trigger' = [start_trigger EXCEPT ![at] = first]
        /\ stop_trigger' = [stop_trigger EXCEPT ![at] = second]
    BY <2>1
  <2> HIDE DEF first, second, known
  <2>8. TriggersTyped'
    <3> DEFINE D == DOMAIN commands
    <3>1. start_trigger \in [D -> D \cup {0}] /\ stop_trigger \in [D -> D \cup {0}]
      BY <2>4 DEF TriggersTyped
    <3>2. DOMAIN commands' = D
      BY <2>1
    <3>3. first \in D \cup {0} /\ second \in D \cup {0}
      BY <2>6
    <3> HIDE DEF D
    <3>4. start_trigger' \in [D -> D \cup {0}] /\ stop_trigger' \in [D -> D \cup {0}]
      BY <2>7, <3>1, <3>3
    <3> QED
      BY <3>2, <3>4 DEF TriggersTyped
  <2>9. LoadInv'
    BY <2>1 DEF SetupInv, LoadInv
  <2>10. MadeInv'
    <3>1. at' \in Nat \ {0} /\ pc' = "link"
      BY <1>1, <2>1, <2>4
    <3>2. IsAList(commands)'
      BY <2>1, <2>4 DEF IsAList
    <3>3. \A d \in DOMAIN commands' : commands'[d].hosts # <<>>
      BY <1>1, <2>1 DEF SetupInv, MadeInv, Points
    <3>4. \A e \in cmd_names' : e.cmd \in DOMAIN commands'
      BY <2>1, <2>2
    <3> QED
      BY <2>8, <3>1, <3>2, <3>3, <3>4 DEF MadeInv
  <2>11. LinkInv'
    <3>1. ASSUME NEW d \in DOMAIN commands, d < at + 1 PROVE HasStarter(d)'
      <4>1. CASE d = at
        BY <2>1, <2>4, <2>5, <2>7, <4>1 DEF HasStarter, TriggersTyped
      <4>2. CASE d # at
        <5>1. HasStarter(d)
          BY <1>1, <2>4, <3>1, <4>2 DEF SetupInv, LinkInv, Past
        <5>2. start_trigger'[d] = start_trigger[d]
          BY <2>4, <2>7, <4>2 DEF TriggersTyped
        <5> QED
          BY <2>1, <5>1, <5>2 DEF HasStarter
      <4> QED
        BY <4>1, <4>2
    <3> QED
      BY <1>1, <2>1, <3>1 DEF LinkInv, Past
  <2> QED
    BY <2>9, <2>10, <2>11 DEF SetupInv
<1> QED
  BY <1>2, <1>3

LEMMA FilesKept ==
  ASSUME SetupInv, MakeFiles \/ ValidateFiles
  PROVE  SetupInv'
<1>1. CASE MakeFiles
  <2>1. ASSUME NEW c \in DOMAIN commands PROVE c < at
    BY <1>1 DEF MakeFiles, SetupInv, MadeInv, IsAList
  <2> QED
    BY <1>1, <2>1, GoKept DEF MakeFiles, Step, Refuse, Points, SetupInv, LinkInv, Past
<1>2. CASE ValidateFiles
  BY <1>2, GoKept DEF ValidateFiles, Step, Refuse, Points, SetupInv, LinkInv, Past
<1> QED
  BY <1>1, <1>2

LEMMA ValidateKept == SetupInv /\ Validate => SetupInv'
<1> SUFFICES ASSUME SetupInv, Validate PROVE SetupInv'
  OBVIOUS
<1>1. pc = "validate" /\ \A c \in DOMAIN commands : HasStarter(c)
  BY DEF Validate, SetupInv, LinkInv, Past
<1>2. CASE at \notin DOMAIN commands
  <2>1. \A c \in DOMAIN commands : c < at
    BY <1>2 DEF SetupInv, MadeInv, IsAList
  <2>2. \A c \in DOMAIN commands : Sound(c)
    BY <1>1, <2>1 DEF SetupInv, LinkInv, Past
  <2>3. Go("overlap")
    BY <1>2 DEF Validate
  <2> QED
    BY <1>1, <2>2, <2>3, GoKept DEF Points
<1>3. CASE at \in DOMAIN commands /\ ~Sound(at)
  BY <1>3, GoKept DEF Validate, Refuse, Sound
<1>4. CASE at \in DOMAIN commands /\ Sound(at)
  <2>1. \/ pc' = pc /\ at' = at + 1 /\ UNCHANGED <<input, cfg, commands, cmd_names, start_trigger, stop_trigger>>
        \/ Go("refused")
    BY <1>1, <1>4 DEF Validate, Refuse
  <2>2. CASE Go("refused")
    BY <2>2, GoKept
  <2>3. CASE pc' = pc /\ at' = at + 1 /\ UNCHANGED <<input, cfg, commands, cmd_names, start_trigger, stop_trigger>>
    <3>1. MadeInv'
      BY <1>1, <2>3, CommandsKept DEF SetupInv, MadeInv
    <3>2. ASSUME NEW c \in DOMAIN commands, c < at + 1 PROVE Sound(c)
      BY <1>1, <1>4, <3>2 DEF SetupInv, MadeInv, IsAList, LinkInv, Past
    <3>3. LinkInv'
      BY <1>1, <2>3, <3>2, CommandsKept DEF LinkInv, Past
    <3> QED
      BY <1>1, <2>3, <3>1, <3>3 DEF SetupInv, LoadInv
  <2> QED
    BY <2>1, <2>2, <2>3
<1> QED
  BY <1>2, <1>3, <1>4

LEMMA SetupNext == SetupInv /\ [UNext]_uvars => SetupInv'
<1> SUFFICES ASSUME SetupInv, [UNext]_uvars PROVE SetupInv'
  OBVIOUS
<1>1. ListsCommands(Loads(input.cfg)) /\ (LikelyV0(input.cfg) => ListsCommands(LoadsV0(input.cfg)))
  BY SetupAssumption DEF SetupInv, LoadInv
<1>2. CASE Load
  <2>1. ListsCommands(Loads(cfg))
    BY <1>1, <1>2 DEF Load, SetupInv, LoadInv
  <2> QED
    BY <1>2, <2>1, LoadKept DEF Load
<1>3. CASE LoadV0
  <2>1. ListsCommands(LoadsV0(cfg))
    BY <1>1, <1>3 DEF LoadV0, SetupInv, LoadInv
  <2> QED
    BY <1>3, <2>1, LoadKept DEF LoadV0
<1>4. CASE CheckLogs
  <2>1. pc = "overlap" /\ \A c \in DOMAIN commands : Sound(c) /\ HasStarter(c)
    BY <1>4 DEF CheckLogs, SetupInv, LinkInv, Past
  <2> QED
    BY <1>4, <2>1, GoKept DEF CheckLogs, Step, Refuse, Points
<1>5. CASE UNCHANGED uvars
  BY <1>5, CommandsKept DEF uvars, SetupInv, LoadInv, MadeInv, LinkInv, Past
<1> QED
  BY <1>2, <1>3, <1>4, <1>5, MakeKept, RegisterKept, LinkKept, FilesKept, ValidateKept DEF UNext

LEMMA SetupAlways == USpec => []SetupInv
  BY SetupInit, SetupNext, PTL DEF USpec

(* What validate makes of the triggers is exact: a plan is refused for a      *)
(* loop, at some command, only if there is one, and if there is one it is     *)
(* refused (dependencies_contain).                                            *)
THEOREM LoopsAreFound ==
  USpec => [](pc \in Points =>
                (Planned!Acyclic <=> \A c \in DOMAIN commands : ~DependenciesContain(c)))
<1>1. SetupInv /\ pc \in Points =>
        (Planned!Acyclic <=> \A c \in DOMAIN commands : ~DependenciesContain(c))
  BY LoopFree, NoLoopFound DEF SetupInv, MadeInv
<1> QED
  BY <1>1, SetupAlways, PTL

(* A plan that is accepted is one that Scheduler takes: it is validated, each *)
(* command has a host, and a command that waits for none begins the run.      *)
THEOREM AcceptedPlansRun == USpec => []PlanCanRun
<1>1. SetupInv => PlanCanRun
  <2> SUFFICES ASSUME SetupInv, Accepted PROVE PlanCanRun
    BY DEF PlanCanRun
  <2> DEFINE D == DOMAIN commands
  <2>1. pc = "ready"
    BY DEF Accepted
  <2>2. \A c \in D : Sound(c) /\ HasStarter(c)
    BY <2>1 DEF SetupInv, LinkInv, Past
  <2>3. IsAList(commands) /\ TriggersTyped /\ \A c \in D : commands[c].hosts # <<>>
    BY <2>1 DEF SetupInv, MadeInv, Points
  <2>4. Planned!Acyclic
    BY <2>2, <2>3, LoopFree DEF Sound
  <2>5. \A c \in D : commands[c].begin # "None" \/ {start_trigger[c]} \ {0} # {}
    BY <2>2 DEF Sound, HasStarter
  <2>6. \A c \in D : commands[c].bg = "True" /\ commands[c].max_duration # "None" => commands[c].stop # "None"
    BY <2>2 DEF Sound, Stoppable
  <2>7. Planned!Validated
    BY <2>4, <2>5, <2>6 DEF Planned!Validated
  <2>8. ASSUME commands # <<>> PROVE \E c \in D : commands[c].begin # "None"
    <3>1. D # {}
      BY <2>3, <2>8 DEF IsAList
    <3>2. PICK c \in D : Triggers(c) \cap D = {}
      <4>1. D \in (SUBSET DOMAIN commands) \ {{}}
        BY <3>1
      <4>2. PICK c \in D : ([d \in DOMAIN commands |-> {start_trigger[d]} \ {0}][c]
                            \cup [d \in DOMAIN commands |-> {stop_trigger[d]} \ {0}][c]) \cap D = {}
        BY <2>4, <4>1 DEF Planned!Acyclic
      <4> QED
        BY <4>2 DEF Triggers
    <3>3. start_trigger[c] = 0
      BY <2>3, <3>2 DEF TriggersTyped, Triggers
    <3> QED
      BY <2>5, <3>3
  <2> QED
    BY <2>3, <2>7, <2>8 DEF PlanCanRun
<1> QED
  BY <1>1, SetupAlways, PTL
=============================================================================
