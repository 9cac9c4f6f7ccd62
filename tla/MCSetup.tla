------------------------------ MODULE MCSetup ------------------------------
(* Configurations: how settings are resolved, how commands are linked, what   *)
(* can be stopped, files, logs, and the older format, well formed and not.    *)
EXTENDS Setup, ConfigFormat

Texts(s) == List([i \in DOMAIN s |-> Leaf(s[i])])

(* Optional keys: those whose value is not Error.                             *)
With(f) == Map([k \in {k \in DOMAIN f : ~IsError(f[k])} |-> f[k]])
Old(c) == [cfg |-> c[1], like |-> c[2]]
New(c) == [cfg |-> c, like |-> Error]

MCNeeds == ("run {x}" :> {"x"}) @@ ("stop {pid}" :> {"pid"}) @@ ("cd {remote_out}" :> {"remote_out"})
             @@ ("cd {host.output_dir}" :> {"host"}) @@ ("copy {x}" :> {"x"})
MCFilled == "d{host_idx}" :> <<"d0", "d1">>
MCModern == "cd {remote_out}" :> "cd {host.output_dir}"
MCUnlabelled == "/logs/{0.label}" :> "/logs/"

(* Host c is disabled, d stands for two, e has settings of its own.           *)
User(u) == Map("user" :> Leaf(u))
Hosts(ssh) == Map([a |-> Map("addr" :> Leaf("a")), b |-> Map("hostname" :> Leaf("b")),
                 c |-> Map([addr |-> Leaf("c"), enabled |-> Leaf("False")]),
                 d |-> Map("addr" :> Texts(<<"d1", "d2">>)), e |-> With([addr |-> Leaf("e"), ssh |-> ssh])])

ResolutionOf(section, ssh, phost, chost, default, own, inline) ==
  LET program == With([start |-> Leaf("run {x}"), host |-> phost,
                       defaults |-> IF IsError(default) THEN Error ELSE Map("x" :> default)])
  IN With([ssh |-> section, hosts |-> Hosts(ssh), programs |-> Map("p" :> program),
           commands |-> List(<<With([program |-> IF inline THEN program ELSE Leaf("p"), begin |-> Leaf("0"),
                                     hosts |-> chost, x |-> own])>>)])

Resolution ==
  {ResolutionOf(section, ssh, phost, chost, default, own, inline) :
     section \in {Error, User("u0"), Map([user |-> Leaf("u0"), port |-> Leaf("2022")])},
     ssh \in {Error, User("ue")},
     phost \in {Error, Leaf("e"), Texts(<<"e", "c", "d">>), Map([addr |-> Leaf("e"), ssh |-> User("inline")])},
     chost \in {Error, Leaf("b"), Texts(<<"a", "e">>), Leaf("c"), Leaf("nobody")},
     default \in {Error, Leaf("d")}, own \in {Error, Leaf("o")}, inline \in BOOLEAN}

Opt(v) == IF v = "None" THEN Error ELSE Leaf(v)

Named(name, begin, after, until) ==
  With([program |-> Leaf("p"), host |-> Leaf("a"), name |-> Leaf(name), begin |-> Opt(begin),
        start_after |-> Opt(after), stop_after |-> Opt(until), x |-> Leaf("o")])

Plan(programs, list) == Map([hosts |-> Hosts(Error), programs |-> programs, commands |-> List(list)])

Linked ==
  LET p == Map("p" :> Map("start" :> Leaf("run {x}")))
      Begins == {"None", "0"}
  IN {Plan(p, <<Named("one", b1, s1, t1), Named("two", b2, s2, t2), Named(n3, b3, "one", t3)>>) :
        b1 \in Begins, s1 \in {"None", "two"}, t1 \in {"None", "one", "two"},
        b2 \in Begins, s2 \in {"None", "one", "two"}, t2 \in {"None", "one", "three"},
        n3 \in {"three", "one"}, b3 \in Begins, t3 \in {"None", "two"}}

(* Stops, durations, a command that is disabled, files.                       *)
Stopped ==
  {Plan(Map("p" :> With([start |-> Leaf("run"), host |-> Leaf("a"), bg |-> bg, stop |-> stop,
                       duration_reduced_error |-> reduced])),
        <<With([program |-> Leaf("p"), begin |-> Leaf("0"), max_duration |-> max, min_duration |-> min,
                enabled |-> enabled])>>) :
     bg \in {Error, Leaf("True")}, stop \in {Error, Leaf("stop {pid}"), Leaf("run {x}")},
     max \in {Error, Leaf("9")}, min \in {Error, Leaf("3")}, reduced \in {Error, Leaf("False")},
     enabled \in {Error, Leaf("False")}}

WithFiles ==
  {Put(Plan(Map("p" :> Map([start |-> Leaf("run"), host |-> Leaf("a")])), <<Map([program |-> Leaf("p"), begin |-> Leaf("0")])>>),
       "files", Map("f" :> With([src |-> src, dst |-> Leaf("/tmp"), host |-> host, enabled |-> enabled]))) :
     src \in {Error, Leaf("copy"), Leaf("copy {x}")}, host \in {Error, Leaf("a"), Leaf("c"), Texts(<<"c", "d">>)},
     enabled \in {Error, Leaf("False")}}

Logs ==
  LET Log == {With([dir |-> dir, out |-> out, err |-> err, append |-> append]) :
                dir \in {Error, Leaf("d0"), Leaf("d{host_idx}")}, out \in {Error, Leaf("o")},
                err \in {Error, Leaf("o"), Leaf("e")}, append \in {Error, Leaf("True")}}
      Program(log, host) == Map([start |-> Leaf("run"), log |-> log, host |-> host])
  IN {Plan(Map([p |-> Program(log, Leaf("a")), q |-> Program(other, Texts(<<"b", "a">>))]),
           <<Map([program |-> Leaf("p"), begin |-> Leaf("0")]), Map([program |-> Leaf("q"), begin |-> Leaf("1")])>>) :
        log \in Log, other \in Log}

OldForm ==
  LET Timing(dur, enforce, names) ==
        With((names[1] :> dur) @@ (names[2] :> enforce) @@ ("begin" :> Leaf("0")))
      V0(dur, enforce) == Timing(dur, enforce, <<"duration", "enforce_duration">>)
      V1(p, dur, enforce) == Put(Timing(dur, enforce, <<"max_duration", "min_duration">>), "program", Leaf(p))
      Programs(start, h) == Map([p |-> Map([start |-> Leaf(start), host |-> Leaf("a")]),
                               q |-> Map([start |-> Leaf("run"), host |-> Leaf(h)])])
      Many == List(<<Map("addr" :> Leaf("d1")), Map("addr" :> Leaf("d2"))>>)
      Cfg(hosts, programs, list, extra) == With(extra @@ [hosts |-> hosts, programs |-> programs, commands |-> list])
      OldHosts == Map([a |-> Map("addr" :> Leaf("a")), d |-> Many])
      NewHosts == Map([a |-> Map("addr" :> Leaf("a")), d |-> Map("addr" :> Texts(<<"d1", "d2">>))])
      Extra(init) == IF init THEN ("init_cmds" :> Pairs(<<[key |-> "i", value |-> Leaf("make")]>>))
                     ELSE ("init_cmds" :> Error)
      Pair(dur, enforce, h, dir, init) ==
        <<Cfg(OldHosts,
              IF dir THEN Put(Programs("cd {remote_out}", h), "log_dir", Leaf("/logs/{0.label}"))
                     ELSE Programs("cd {remote_out}", h),
              Pairs(<<[key |-> "q", value |-> List(<<V0(dur, enforce), V0(Error, Error)>>)],
                      [key |-> "p", value |-> V0(dur, Error)]>>), Extra(init)),
          Cfg(NewHosts, Programs("cd {host.output_dir}", h),
              List(<<V1("q", dur, enforce), V1("q", Error, Error), V1("p", dur, Error)>>),
              "log_dir" :> (IF dir THEN Leaf("/logs/") ELSE Error))>>
  IN {Pair(dur, enforce, h, dir, init) : dur \in {Error, Leaf("9")}, enforce \in {Error, Leaf("3")},
        h \in {"a", "d"}, dir \in BOOLEAN, init \in BOOLEAN}

(* A list of commands to run afterwards, in the older format, ends it.        *)
MCInputs ==
  LET Given(configs) == {New(c) : c \in configs}
  IN <<Given(Resolution), Given(Linked), Given(Stopped), Given(WithFiles), Given(Logs),
       {Old(p) : p \in OldForm}, Given({Put(p[1], "post_cmds", List(<<>>)) : p \in OldForm})>>
=============================================================================
