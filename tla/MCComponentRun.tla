--------------------------- MODULE MCComponentRun ---------------------------
(***************************************************************************)
(* Two versions, each with any of a few recipes that differ in what the    *)
(* readers of a recipe tell apart.                                         *)
(***************************************************************************)
EXTENDS ComponentRun

MCBeginnings ==
    [word \in {"true", "false", "linux", "*", "all", "arch", "HARD"} |->
        {"", word} \cup CASE word = "arch" -> {"amd64"}
                          [] word = "true" -> {"t"}
                          [] OTHER -> {}]

Esc(type, arg) == [type |-> type, arg |-> arg]
Section(priv, script, env) ==
    [RequiresPrivilege |-> priv, Script |-> script, Setenv |-> env]
Phase(script) == Section(Missing, script, Missing)
Cycle(install, startup, run, env) ==
    [install |-> install, startup |-> startup, run |-> run, Setenv |-> env]
Manifest(os, architecture, lifecycle, selections) ==
    [Platform |-> [os |-> os, architecture |-> architecture],
     Lifecycle |-> lifecycle, Selections |-> selections]
Linux(lifecycle) == <<Manifest("linux", Missing, lifecycle, Missing)>>
Dep(name, type) == [name |-> name, type |-> type]
Full(manifests, deps, global) ==
    [named |-> TRUE, ComponentDescription |-> "text", Manifests |-> manifests,
     ComponentDependencies |-> deps, Lifecycle |-> global]

Conf == Esc("configuration", "key")

MCRecipes ==
    LET install == Phase(<<Text("make")>>)
        run     == Phase(<<Text("go"), Conf, Esc("work", "path")>>)
        startup == Section("t", <<Text("up")>>, << <<Conf>> >>)
        other   == Manifest("windows", Missing, Bad, Missing)
        foreign == Manifest("linux", "arm", Bad, Missing)
        global  == [linux |-> Cycle(Missing, Missing, run, Missing)]
    IN  << Full(Linux(Cycle(install, Missing, run, Missing)),
               <<Dep("x", "HARD"), Dep("y", "SOFT"), Dep("z", Missing)>>, Missing),
          Full(<<other, foreign>> \o Linux(Cycle(Missing, startup, run, << <<>> >>)),
               Missing, Missing),
          \* an escape that is not known; a value that is no string
          Full(Linux(Cycle(Section("false", <<Text("a"), Esc("iot", "x"), Text("b")>>,
                                   << <<Text("v")>>, Bad >>),
                           Missing,
                           Phase(<<Text("a"), Esc(Missing, "HOME"), Text("b")>>), Missing)),
               Missing, Missing),
          \* neither startup nor run; a startup without a script
          Full(Linux(Cycle(install, Missing, Missing, Missing)), Missing, Missing),
          Full(Linux(Cycle(Missing, Phase(Missing), run, Missing)), Missing, Missing),
          \* dependencies in a list: found when the install unit is written
          Full(Linux(Cycle(install, Missing, run, Missing)), Bad, Missing),
          \* the lifecycle from the recipe's own section; a section that is a list
          Full(<<Manifest("linux", "amd64", Missing, <<"x", "all">>)>>, Missing, global),
          Full(Linux(Cycle(Missing, Bad, run, Missing)), Missing, Missing) >>
=============================================================================
