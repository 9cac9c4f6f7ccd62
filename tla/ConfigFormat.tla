---------------------------- MODULE ConfigFormat ----------------------------
(* How a configuration becomes the tree Shremote works with: cfg_format.py    *)
(* says what fields there are, cfg_formatter.py walks through the tree with   *)
(* that. Aliases, defaults, inherited ssh settings and references are put in  *)
(* first, field by field (pre_format); then computed fields, and the defaults *)
(* of a program into the commands that use it (format). cfg_format_v0.py      *)
(* rewrites the older format.                                                 *)
EXTENDS ConfigTree

CONSTANTS
  Modern,     \* what fix_format_substitutions makes of a text
  Unlabelled  \* a directory without {0.label}

None == Leaf("None")
NoDefault == [t |-> "none"]

Field(key) == [kind |-> "field", key |-> key, class |-> "", aliases |-> <<>>, default |-> NoDefault,
               required |-> FALSE, list_ok |-> FALSE, inherit |-> "", sibling_inherit |-> <<>>]
Default(key, v) == [Field(key) EXCEPT !.default = v]
Required(key) == [Field(key) EXCEPT !.required = TRUE]
Alias(field, a) == [field EXCEPT !.aliases = <<a>>]
Of(kind, key, class) == [Field(key) EXCEPT !.kind = kind, !.class = class]
HostsRef == [Alias(Of("reference", "hosts", "hosts"), "host") EXCEPT !.list_ok = TRUE]

(* The fields of each class of cfg_format.py, in their order.                 *)
FieldsOf == [
  ssh      |-> <<Default("user", Leaf("{0.user}")), Default("key", Leaf("~/.ssh/id_rsa")),
                 Default("port", Leaf("22"))>>,
  hostSsh  |-> <<>>,
  hosts    |-> <<Alias(Required("hostname"), "addr"), Alias(Field("name"), "_name"),
                 [Of("map", "ssh", "hostSsh") EXCEPT !.inherit = "ssh"],
                 Default("log_dir", Leaf("{0.log_dir}")), Default("sudo_passwd", None),
                 Default("enabled", Leaf("True"))>>,
  files    |-> <<Required("src"), Required("dst"), Alias(Field("name"), "_name"),
                 Default("enabled", Leaf("True")), [HostsRef EXCEPT !.required = TRUE]>>,
  log      |-> <<Default("dir", Leaf("")), Field("out"), Field("err"), Default("append", Leaf("False"))>>,
  programs |-> <<HostsRef, Alias(Field("name"), "_name"), Required("start"), Default("stop", None),
                 Of("map", "log", "log"), Default("duration_reduced_error", Leaf("True")),
                 Default("duration_exceeded_error", Leaf("False")), Default("bg", Leaf("False")),
                 Alias(Default("checked_rtn", None), "check_rtn"), Default("sudo", Leaf("False")),
                 Default("defaults", Empty)>>,
  commands |-> <<[Of("reference", "program", "programs") EXCEPT !.required = TRUE],
                 [HostsRef EXCEPT !.sibling_inherit = <<"program", "hosts">>],
                 Field("begin"), Default("name", Leaf("{program.name}")), Default("min_duration", None),
                 Default("max_duration", None), Field("start_after"), Field("stop_after"),
                 Default("enabled", Leaf("True"))>>,
  cmds     |-> <<Required("cmd"), Alias(Default("checked_rtn", Leaf("0")), "check_rtn")>>,
  top      |-> <<Default("log_dir", Leaf("~/shremote_logs")), Of("map", "ssh", "ssh"),
                 Of("list", "init_cmds", "cmds"), Of("list", "post_cmds", "cmds"),
                 Of("maps", "hosts", "hosts"), Of("maps", "files", "files"),
                 Of("maps", "programs", "programs"), Of("list", "commands", "commands")>>]

ReservedOf(class) ==
  CASE class = "hosts" -> <<Default("output_dir", Leaf("host output_dir"))>>
    [] class = "commands" -> <<Default("log_dir", Leaf("command log_dir"))>>
    [] OTHER -> <<>>

ComputedOf(class) ==
  CASE class = "files" -> {"host"}
    [] class = "commands" -> {"host_idx", "host", "pid"}
    [] class = "top" -> {"user", "label", "args", "output_dir", "cfg_dir"}
    [] OTHER -> {}

-----------------------------------------------------------------------------
(* CfgField.pre_format, step by step.                                         *)
CheckAliases(f, p) ==
  IF Has(p, f.key) \/ \A i \in DOMAIN f.aliases : ~Has(p, f.aliases[i]) THEN p
  ELSE Put(p, f.key, Get(p, f.aliases[CHOOSE i \in DOMAIN f.aliases :
         Has(p, f.aliases[i]) /\ \A j \in 1 .. i - 1 : ~Has(p, f.aliases[j])]))

SetDefault(f, p) == IF Has(p, f.key) \/ f.default = NoDefault THEN p ELSE Put(p, f.key, f.default)

(* The ssh section is the one that was pre-formatted last, the top one. What  *)
(* a sibling has takes the place of what is there.                            *)
DoInherit(f, p, top) ==
  LET q == IF f.inherit # "" THEN MergePath(p, f.key, Get(top, f.inherit)) ELSE p
  IN IF f.sibling_inherit # <<>> /\ HasPath(q, f.sibling_inherit)
     THEN Put(q, f.key, GetPath(q, f.sibling_inherit))
     ELSE q

CheckRequired(f, p) == IF f.required /\ ~Has(p, f.key) THEN Error ELSE p

Listify(f, p) ==
  IF f.list_ok /\ Has(p, f.key) /\ ~IsList(Get(p, f.key)) THEN Put(p, f.key, List(<<Get(p, f.key)>>)) ELSE p

PreField(f, p, top) ==
  IF ~IsMap(p) THEN Error
  ELSE Listify(f, CheckRequired(f, DoInherit(f, SetDefault(f, CheckAliases(f, p)), top)))

(* A reserved field may only have its default.                                *)
PutReserved(class, n) ==
  FoldLeft(LAMBDA m, f : IF IsError(m) \/ (Has(m, f.key) /\ Get(m, f.key) # f.default) THEN Error
                         ELSE SetDefault(f, m),
           n, ReservedOf(class))

(* CfgReference: a name is replaced by a copy of what it refers to.           *)
Refer(n, class, top) ==
  CASE IsLeaf(n) -> IF Has(top, class) /\ Has(Get(top, class), n.v)
                    THEN Put(Get(Get(top, class), n.v), "_name", n) ELSE Error
    [] IsMap(n) -> IF Has(n, "_name") THEN n ELSE Put(n, "_name", Leaf("_anonymous"))
    [] OTHER -> Error

ReferAll(f, p, top) ==
  IF ~Has(p, f.key) THEN p
  ELSE LET n == Get(p, f.key)
       IN Put(p, f.key, IF f.list_ok /\ IsList(n)
                        THEN Each(LAMBDA e : Refer(e, f.class, top), n)
                        ELSE Refer(n, f.class, top))

RECURSIVE PreChildren(_, _, _)

(* A section that is not there is begun if one of its fields has a default.   *)
Begun(f, p, top) ==
  IF ~IsError(p) /\ ~Has(p, f.key) /\ \E i \in DOMAIN FieldsOf[f.class] : FieldsOf[f.class][i].default # NoDefault
  THEN PreField(f, Put(p, f.key, Empty), top) ELSE p

Within(f, p, top) == IF Has(p, f.key) THEN Put(p, f.key, PreChildren(f.class, Get(p, f.key), top)) ELSE p

PreMap(f, p, top) == Within(f, Begun(f, PreField(f, p, top), top), top)

WithinEach(f, p, top) ==
  IF Has(p, f.key) THEN Put(p, f.key, Each(LAMBDA e : PreChildren(f.class, e, top), Get(p, f.key))) ELSE p

PreMapList(f, p, top) == IF Has(p, f.key) /\ ~IsList(Get(p, f.key)) THEN Error ELSE WithinEach(f, p, top)

PreMapMap(f, p, top) ==
  IF ~Has(p, f.key) THEN p
  ELSE LET n == Get(p, f.key)
           Named(k) == IF Has(n.sub[k], "_name") THEN n.sub[k] ELSE Put(n.sub[k], "_name", Leaf(k))
       IN IF ~IsMap(n) THEN Error
          ELSE Put(p, f.key, MapOf([k \in DOMAIN n.sub |-> PreChildren(f.class, Named(k), top)]))

InheritIfMissing(f, p, top) == IF Has(p, f.key) THEN p ELSE DoInherit(f, p, top)

PreReference(f, p, top) ==
  LET q == PreField(f, ReferAll(f, InheritIfMissing(f, CheckAliases(f, p), top), top), top)
  IN IF f.list_ok THEN WithinEach(f, q, top) ELSE Within(f, q, top)

Pre(f, p, top) ==
  CASE f.kind = "field" -> PreField(f, p, top)
    [] f.kind = "map" -> PreMap(f, p, top)
    [] f.kind = "list" -> PreMapList(f, p, top)
    [] f.kind = "maps" -> PreMapMap(f, p, top)
    [] f.kind = "reference" -> PreReference(f, p, top)

PreChildren(class, n, top) ==
  IF ~IsMap(n) THEN Error
  ELSE FoldLeft(LAMBDA m, f : IF IsError(m) THEN m ELSE Pre(f, m, top),
                PutReserved(class, n), FieldsOf[class])

(* At the top each field sees what those before it have made of the tree.     *)
PreFormat(cfg) ==
  FoldLeft(LAMBDA m, f : IF IsError(m) THEN m ELSE Pre(f, m, m), cfg, FieldsOf.top)

(* Computed fields are put in where they are missing, marked until a value is *)
(* provided; then a command is given the defaults of its program.             *)
PutComputed(class, n) == Merge(n, Map([k \in ComputedOf(class) |-> Leaf("computed")]))

FormatCommand(cmd) ==
  Merge(PutComputed("commands", cmd), GetPath(cmd, <<"program", "defaults">>))

WithCommands(F(_), n) ==
  IF Has(n, "commands") THEN Put(n, "commands", Each(F, Get(n, "commands"))) ELSE n

Format(cfg) == IF IsError(cfg) THEN Error ELSE WithCommands(FormatCommand, PutComputed("top", cfg))

LoadCfg(cfg) == Format(PreFormat(cfg))

-----------------------------------------------------------------------------
(* The older format: hosts that are lists of addresses, commands that are a   *)
(* map from programs, other names for the durations and in the texts.         *)
UnlistifyHosts(cfg) ==
  LET Unlisted(n) == IF IsList(n) THEN Map("addr" :> Each(LAMBDA e : Get(e, "addr"), n)) ELSE n
      hosts == Get(cfg, "hosts").sub
  IN Put(cfg, "hosts", Map([k \in DOMAIN hosts |-> Unlisted(hosts[k])]))

ListifyCommands(cfg) ==
  LET Numbered(cmd, program, i) == Put(Put(cmd, "program", Leaf(program)), "i", Leaf(ToString(i)))
      Listed(e) == IF IsList(e.value) THEN [i \in DOMAIN e.value.elems |-> Numbered(e.value.elems[i], e.key, i - 1)]
                   ELSE <<Numbered(e.value, e.key, 0)>>
      pairs == Get(cfg, "commands").elems
  IN Put(cfg, "commands", List(FlattenSeq([i \in DOMAIN pairs |-> Listed(pairs[i])])))

(* walk_dict_values goes into maps, and not into lists.                       *)
RECURSIVE FixSubstitutions(_)
FixSubstitutions(n) ==
  CASE IsMap(n) -> Map([k \in DOMAIN n.sub |-> FixSubstitutions(n.sub[k])])
    [] IsLeaf(n) -> Leaf(IF n.v \in DOMAIN Modern THEN Modern[n.v] ELSE n.v)
    [] IsPairs(n) -> Pairs([i \in DOMAIN n.elems |-> [n.elems[i] EXCEPT !.value = FixSubstitutions(@)]])
    [] OTHER -> n

(* mapify_cmds, for init_cmds.                                                *)
ListifyInitCmds(cfg) ==
  LET Listed(e) == Put(IF IsLeaf(e.value) THEN Map("cmd" :> e.value) ELSE e.value, "name", Leaf(e.key))
  IN IF Has(cfg, "init_cmds") /\ IsPairs(Get(cfg, "init_cmds"))
     THEN Put(cfg, "init_cmds", Each(Listed, Get(cfg, "init_cmds"))) ELSE cfg

(* A log directory among the programs belongs to the top.                     *)
MoveLogDir(cfg) ==
  LET programs == Get(cfg, "programs")
      dir == Get(programs, "log_dir")
  IN IF ~Has(programs, "log_dir") THEN cfg
     ELSE Put(Put(cfg, "programs", Map([k \in DOMAIN programs.sub \ {"log_dir"} |-> programs.sub[k]])),
              "log_dir", IF dir.v \in DOMAIN Unlabelled THEN Leaf(Unlabelled[dir.v]) ELSE dir)

(* Mutant: a duration is not taken over.                                      *)
FixNothing(cmd) == cmd

FixCommand(cmd) ==
  LET Renamed(n, new, old) == IF Get(n, new) = None /\ Has(n, old) THEN Put(n, new, Get(n, old)) ELSE n
  IN Renamed(Renamed(cmd, "min_duration", "enforce_duration"), "max_duration", "duration")

(* The list of post_cmds is rewritten by a function that does not exist.      *)
LoadV0Cfg(cfg) ==
  IF Has(cfg, "post_cmds") \/ ~Has(cfg, "hosts") \/ ~Has(cfg, "programs") THEN Error
  ELSE WithCommands(FixCommand, LoadCfg(MoveLogDir(ListifyInitCmds(FixSubstitutions(
                                  ListifyCommands(UnlistifyHosts(cfg)))))))
=============================================================================
