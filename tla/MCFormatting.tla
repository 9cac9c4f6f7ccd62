---------------------------- MODULE MCFormatting ----------------------------
(* A server on two hosts, each with a log of its index; a background program  *)
(* with an argument of its own; the stop of the server. And, for a run of its *)
(* own, the two commands of examples/default_args.yml.                        *)
EXTENDS Formatting

Log == [gives |-> <<"host_idx", "host">>, reads |-> <<{"host_idx"}>>]
StartServer == [gives |-> <<"host_idx", "log_dir", "host">>, reads |-> <<{"log_dir", "host"}>>]
Echo == [gives |-> <<"host_idx", "log_dir", "host">>, reads |-> <<{"program", "host"}, {"to_echo"}>>]
StopServer == [gives |-> <<"host_idx", "host", "pid">>, reads |-> <<{"pid"}>>]

MCFields == [c \in {"server", "hello", "goodbye"} |->
               IF c = "server" THEN {"program", "log_dir"} ELSE {"program", "log_dir", "to_echo"}]

On(c, h, calls, joined) == [cmd |-> c, host |-> h, calls |-> calls, joined |-> joined]

MCJobs == <<On("server", 1, <<StartServer, Log>>, FALSE), On("server", 2, <<StartServer, Log>>, FALSE),
            On("goodbye", 1, <<Echo>>, TRUE),
            On("server", 2, <<StopServer>>, TRUE)>>

TwoEchos == <<On("hello", 1, <<Echo>>, FALSE), On("goodbye", 1, <<Echo>>, FALSE)>>
=============================================================================
