------------------------------- MODULE Startup -------------------------------
(***************************************************************************)
(* How dlsslopd comes to run what it runs: its command line, read one      *)
(* option at a time; the config file one of them may name; the options     *)
(* that follow from both, checked against each other; and the engine they  *)
(* select, which falls back from Vulkan to HIP when nothing forbids it.    *)
(***************************************************************************)
EXTENDS Integers, Sequences

CONSTANTS
  Arguments,   \* options and values a command line may hold
  Lines,       \* settings a config file may hold
  NumberOf,    \* the numbers texts spell, of the texts that spell one
  HomePath,    \* the paths that texts beginning with ~/ stand for
  Environments,  \* whether there is a home, an XDG directory, a known executable
  Gfx1201,     \* the HIP devices the network runs on
  KMaxPasses,  \* of the shared-memory protocol
  MaxArguments, MaxLines  \* bounds

ASSUME StartupAssumption ==
  /\ MaxArguments \in Nat /\ MaxLines \in Nat /\ KMaxPasses \in Nat
  /\ Environments \subseteq [home : BOOLEAN, xdg : BOOLEAN, executable : BOOLEAN]
  /\ \A t \in DOMAIN NumberOf : NumberOf[t] \in Nat

VARIABLES
  mainPc,
  env,      \* the environment
  config,   \* the config file's path, and whether an option gave it
  given,    \* the options of the command line
  lines,    \* the config file's settings so far
  applied,  \* how many of the command line's options it has
  o,        \* Options
  engine,   \* the engine opened, or NoEngine
  device,   \* the device it is on
  exit      \* the exit status, or Runs

mainVars == <<mainPc, env, config, given, lines, applied, o, engine, device, exit>>

Runs == -1
NoEngine == "none"
Unset == ""

-----------------------------------------------------------------------------
(* kSpecs: every option once.                                              *)

Flags == {"diagnose", "self-test", "cpu-compose", "cpu-codec", "performance", "once",
          "test-identity", "help"}
Paths == {"config", "vulkan-model", "assets", "modules", "shm"}
Texts == {"backend", "input", "output", "trace-dir"}
Numbers == {"tier", "passes", "device", "self-test-runs", "width", "height", "idle-exit"}
Names == Flags \cup Paths \cup Texts \cup Numbers

(* Those the config file may set. *)
Settable == {"backend", "vulkan-model", "assets", "modules", "tier", "passes", "device",
             "performance", "idle-exit"}

Number(v) == v \in DOMAIN NumberOf /\ NumberOf[v] <= 100000
N(v) == NumberOf[v]
KMaxW == 7680
KMaxH == 4320

(* Whether an option takes a value. *)
Valid(name, v) ==
  /\ name \in Numbers => Number(v)
  /\ name = "tier" => N(v) \in {720, 900, 1080}
  /\ name = "passes" => N(v) \in 1 .. KMaxPasses
  /\ name = "backend" => v \in {"auto", "vulkan", "hip"}
  /\ name = "performance" => v \in {"true", "false"}
  /\ name = "trace-dir" => v # Unset

(* Where a value lands. *)
BuggyApplied(opts, name, v) == [opts EXCEPT ![name] = v]

Applied(opts, name, v) ==
  IF name = "cpu-compose" THEN [opts EXCEPT !["cpu-compose"] = v, !["cpu-codec"] = v]
  ELSE [opts EXCEPT ![name] = v]

-----------------------------------------------------------------------------
(* Paths and defaults.                                                     *)

(* XDG_BASE, or a directory of the home directory, then a name. *)
XdgPath(path) == IF env.xdg \/ env.home THEN path ELSE Unset

DefaultAssets == XdgPath("/data/model")
DefaultVulkanModel == XdgPath("/data/dlssnr.bin")
DefaultConfig == XdgPath("/config/dlsslopd.conf")
(* DLSSLOP_MODULES, or beside the executable, whose path may be unknown. *)
DefaultModules == IF env.executable THEN "/share/HIP" ELSE Unset

DefaultOptions ==
  [n \in Names |->
     CASE n = "assets" -> DefaultAssets
       [] n = "modules" -> DefaultModules
       [] n = "vulkan-model" -> DefaultVulkanModel
       [] n = "backend" -> "auto"
       [] n \in {"width", "height", "idle-exit"} -> "0"
       [] n = "self-test-runs" -> "10"
       [] n \in Flags -> "false"
       [] OTHER -> Unset]

MainInit ==
  /\ mainPc = "getopt"
  /\ env \in Environments
  /\ config = [path |-> DefaultConfig, given |-> FALSE]
  /\ given = <<>> /\ lines = <<>> /\ applied = 0
  /\ o = DefaultOptions
  /\ engine = NoEngine /\ device = Runs /\ exit = Runs

-----------------------------------------------------------------------------
(* parse().                                                                *)

Exit(status) == mainPc' = "exited" /\ exit' = status

(* One option of the command line, in its order. *)
Getopt(a) ==
  /\ mainPc = "getopt" /\ Len(given) < MaxArguments
  /\ IF a.name \notin Names
     THEN Exit(1) /\ UNCHANGED <<config, given>>
     ELSE IF a.name = "help"
     THEN Exit(0) /\ UNCHANGED <<config, given>>
     ELSE IF a.name = "config"
     THEN config' = [path |-> a.value, given |-> TRUE] /\ UNCHANGED <<mainPc, exit, given>>
     ELSE given' = Append(given, a) /\ UNCHANGED <<mainPc, exit, config>>
  /\ UNCHANGED <<env, lines, applied, o, engine, device>>

(* The end of them, unless something is left over. *)
Options ==
  /\ mainPc = "getopt"
  /\ Exit(1) \/ (mainPc' = "config" /\ UNCHANGED exit)
  /\ UNCHANGED <<env, config, given, lines, applied, o, engine, device>>

(* A default file that is missing is skipped; otherwise it must be readable. *)
ReadConfig ==
  /\ mainPc = "config"
  /\ \E file \in IF config.path = Unset THEN {"missing"} ELSE {"missing", "unreadable", "there"} :
       IF ~config.given /\ file = "missing" THEN mainPc' = "apply" /\ UNCHANGED exit
       ELSE IF file # "there" THEN Exit(1)
       ELSE mainPc' = "lines" /\ UNCHANGED exit
  /\ UNCHANGED <<env, config, given, lines, applied, o, engine, device>>

(* A path is absolute or begins with ~/, which a home is needed for. *)
Relative(v) == v \notin DOMAIN HomePath /\ (v = Unset \/ SubSeq(v, 1, 1) # "/")
ConfigPathFails(v) == Relative(v) \/ (v \in DOMAIN HomePath /\ ~env.home)
ConfigPath(v) == IF v \in DOMAIN HomePath THEN HomePath[v] ELSE v

(* One NAME = VALUE line. *)
ApplySetting(l) ==
  /\ mainPc = "lines" /\ Len(lines) < MaxLines
  /\ LET value == IF l.name \in Paths THEN ConfigPath(l.value) ELSE l.value
         fails == \/ l.name \notin Settable
                  \/ l.name \in Paths /\ ConfigPathFails(l.value)
                  \/ ~Valid(l.name, value)
     IN IF fails THEN Exit(1) /\ UNCHANGED <<lines, o>>
        ELSE /\ lines' = Append(lines, [name |-> l.name, value |-> value])
             /\ o' = Applied(o, l.name, value)
             /\ UNCHANGED <<mainPc, exit>>
  /\ UNCHANGED <<env, config, given, applied, engine, device>>

EndOfConfig ==
  /\ mainPc = "lines" /\ mainPc' = "apply"
  /\ UNCHANGED <<env, config, given, lines, applied, o, engine, device, exit>>

(* Options override the config file, one after another. *)
Apply ==
  /\ mainPc = "apply" /\ applied < Len(given)
  /\ LET a == given[applied + 1]
     IN IF Valid(a.name, a.value)
        THEN /\ o' = Applied(o, a.name, a.value) /\ applied' = applied + 1
             /\ UNCHANGED <<mainPc, exit>>
        ELSE Exit(1) /\ UNCHANGED <<o, applied>>
  /\ UNCHANGED <<env, config, given, lines, engine, device>>

On(name) == o[name] = "true"
Has(name) == o[name] # Unset
OnCommandLine(name) == \E i \in DOMAIN given : given[i].name = name

(* The options that only HIP serves. *)
BuggyHipOnly == On("cpu-compose") \/ On("cpu-codec")
HipOnly == On("cpu-compose") \/ On("cpu-codec") \/ Has("trace-dir")

Refused ==
  \/ N(o["self-test-runs"]) \notin 2 .. 1000
  \/ OnCommandLine("self-test-runs") /\ ~On("self-test")
  \/ ~On("diagnose") /\ ~On("test-identity") /\ ~(Has("assets") /\ Has("modules"))
  \/ On("self-test") /\ (On("test-identity") \/ Has("input"))
  \/ ~On("self-test") /\ Has("input") # Has("output")
  \/ Has("input") /\ (N(o["width"]) \notin 1 .. KMaxW \/ N(o["height"]) \notin 1 .. KMaxH)
  \/ Has("trace-dir") /\ (On("self-test") \/ Has("input") \/ On("test-identity") \/ On("diagnose"))
  \/ /\ OnCommandLine("idle-exit") /\ N(o["idle-exit"]) # 0
     /\ On("self-test") \/ Has("input") \/ On("diagnose")
  \/ HipOnly /\ o["backend"] = "vulkan"

Check ==
  /\ mainPc = "apply" /\ applied = Len(given)
  /\ IF Refused THEN Exit(1) ELSE mainPc' = "start" /\ UNCHANGED exit
  /\ UNCHANGED <<env, config, given, lines, applied, o, engine, device>>

-----------------------------------------------------------------------------
(* main() and open_engine().                                               *)

Mode == IF On("diagnose") THEN "diagnose"
        ELSE IF On("self-test") THEN "self-test"
        ELSE IF Has("input") THEN "offline" ELSE "serve"

(* Serving opens the channel, and the trace directory, before any engine. *)
Start ==
  /\ mainPc = "start"
  /\ \/ mainPc' = "open" /\ UNCHANGED exit
     \/ Mode = "serve" /\ Exit(1)
  /\ UNCHANGED <<env, config, given, lines, applied, o, engine, device>>

OpenEngine ==
  /\ mainPc = "open"
  /\ IF On("test-identity") THEN engine' = "identity" /\ mainPc' = "run"
     ELSE /\ mainPc' = IF (HipOnly /\ o["backend"] = "auto") \/ o["backend"] = "hip" THEN "hip" ELSE "vulkan"
          /\ UNCHANGED engine
  /\ UNCHANGED <<env, config, given, lines, applied, o, device, exit>>

(* The model is there, a device can run the network, and it builds; else what
   was opened is gone again, and auto goes on to HIP. *)
OpenVulkan ==
  /\ mainPc = "vulkan"
  /\ \/ engine' = "vulkan" /\ mainPc' = "run" /\ UNCHANGED exit
     \/ UNCHANGED engine /\ IF o["backend"] = "vulkan" THEN Exit(1) ELSE mainPc' = "hip" /\ UNCHANGED exit
  /\ UNCHANGED <<env, config, given, lines, applied, o, device>>

(* The runtime loads, and has the device asked for, or any. *)
OpenHip ==
  /\ mainPc = "hip"
  /\ LET fit == {d \in Gfx1201 : Has("device") => N(o["device"]) = d}
     IN \/ Exit(1) /\ UNCHANGED <<engine, device>>
        \/ /\ device' \in {d \in fit : \A e \in fit : d <= e}
           /\ engine' = "hip" /\ mainPc' = "run" /\ UNCHANGED exit
  /\ UNCHANGED <<env, config, given, lines, applied, o>>

(* The mode runs with the engine, which ends with it. *)
Run ==
  /\ mainPc = "run"
  /\ \E status \in 0 .. 1 : Exit(status)
  /\ engine' = NoEngine /\ device' = Runs
  /\ UNCHANGED <<env, config, given, lines, applied, o>>

Exited == mainPc = "exited" /\ UNCHANGED mainVars

MainNext ==
  \/ \E a \in Arguments : Getopt(a)
  \/ Options \/ ReadConfig
  \/ \E l \in Lines : ApplySetting(l)
  \/ EndOfConfig \/ Apply \/ Check \/ Start
  \/ OpenEngine \/ OpenVulkan \/ OpenHip \/ Run \/ Exited

MainSpec == MainInit /\ [][MainNext]_mainVars

-----------------------------------------------------------------------------
(* Properties.                                                             *)

(* What an option's value should be: the command line's last, or what another
   of its options implies; else the config file's last; else the default.  The
   first K of a sequence are heard. *)
Speaks(a, name) == a.name = name \/ (name = "cpu-codec" /\ a.name = "cpu-compose")
Silent(s, k, name) == \A i \in 1 .. k : ~Speaks(s[i], name)
SaysLast(s, k, name, v) ==
  \E i \in 1 .. k : Speaks(s[i], name) /\ s[i].value = v /\ \A j \in i + 1 .. k : ~Speaks(s[j], name)

AsSaid(k, name, v) ==
  \/ SaysLast(given, k, name, v)
  \/ Silent(given, k, name) /\ SaysLast(lines, Len(lines), name, v)
  \/ Silent(given, k, name) /\ Silent(lines, Len(lines), name) /\ v = DefaultOptions[name]

(* Whatever the order of the command line, and wherever the config file is
   named in it, each option has the value its most specific source gave it. *)
OptionsAsGiven ==
  mainPc \in {"start", "open", "vulkan", "hip", "run"} => \A n \in Names : AsSaid(Len(given), n, o[n])

(* The engine that runs is the one asked for, and can do what was asked of it:
   an explicit backend is never replaced; identity, the only engine that makes
   answers without a network, runs on request alone; no option that only HIP
   serves reaches another network; and a trace is of real frames, served. *)
EngineServesOptions ==
  mainPc = "run" =>
    /\ (engine = "identity") = On("test-identity")
    /\ engine # "identity" /\ o["backend"] # "auto" => engine = o["backend"]
    /\ On("cpu-compose") \/ On("cpu-codec") => engine # "vulkan"
    /\ Has("trace-dir") => engine = "hip" /\ Mode = "serve"
    /\ engine = "hip" => device \in Gfx1201 /\ (Has("device") => device = N(o["device"]))
    /\ engine # "identity" /\ Mode # "diagnose" => Has("assets") /\ Has("modules")
=============================================================================
