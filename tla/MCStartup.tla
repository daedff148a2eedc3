------------------------------ MODULE MCStartup ------------------------------
(* Startup for TLC: every option that another is checked against, with values
   on both sides of each test. *)
EXTENDS Startup, TLC

Flag(name) == [name |-> name, value |-> "true"]
Arg(name, value) == [name |-> name, value |-> value]

MCArguments ==
  {Flag(n) : n \in Flags} \cup {Flag("no such option")}
  \cup {Arg("backend", b) : b \in {"auto", "vulkan", "hip", "cuda"}}
  \cup {Arg("config", "/c"), Arg("config", ""), Arg("assets", ""), Arg("modules", "m"),
        Arg("input", "i"), Arg("output", "o"), Arg("width", "1"), Arg("height", "1"), Arg("height", "9999"),
        Arg("tier", "900"), Arg("tier", "1"), Arg("passes", "101"), Arg("device", "1"), Arg("device", "x"),
        Arg("self-test-runs", "1"), Arg("self-test-runs", "900"), Arg("idle-exit", "900"),
        Arg("trace-dir", ""), Arg("trace-dir", "t")}
MCLines ==
  {Arg("backend", b) : b \in {"vulkan", "hip"}}
  \cup {Arg("performance", "false"), Arg("performance", "yes"), Arg("assets", "~/a"), Arg("modules", ""),
        Arg("device", "1"), Arg("idle-exit", "900"), Arg("trace-dir", "t"), Arg("once", "true")}
(* Everything there, nothing there, and one without the other. *)
MCEnvironments ==
  {[home |-> TRUE, xdg |-> FALSE, executable |-> TRUE], [home |-> FALSE, xdg |-> TRUE, executable |-> TRUE],
   [home |-> FALSE, xdg |-> FALSE, executable |-> FALSE]}
MCNumberOf == "0" :> 0 @@ "1" :> 1 @@ "10" :> 10 @@ "101" :> 101 @@ "900" :> 900 @@ "9999" :> 9999
MCHomePath == "~/a" :> "/home/a"
=============================================================================
