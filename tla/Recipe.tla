------------------------------- MODULE Recipe -------------------------------
(***************************************************************************)
(* What the daemons read out of a component's recipe: the lifecycle for    *)
(* this platform, the script of a phase, the systemd units of the          *)
(* component, and the text that is given to the shell.                     *)
(*                                                                         *)
(* A field of a recipe is Missing (the key is absent), Bad (it has a type  *)
(* that the reader refuses) or a value.  A phase given as a plain string   *)
(* is the map with only that Script.  Strings are compared with strncmp    *)
(* over the length of the recipe's string, so that any beginning of the    *)
(* word is taken for the word.                                             *)
(* ggl-recipe/src/recipe.c, recipe2unit/src/unit_file_generator.c,         *)
(* recipe-runner/src/runner.c                                              *)
(***************************************************************************)
EXTENDS Naturals, Sequences

CONSTANTS
    Missing,
    Bad,
    Beginnings      \* [word -> the strings that are a beginning of it]

Ok(x) == [ret |-> "OK", out |-> x]
Error(e) == [ret |-> e, out |-> Missing]

(* strncmp(string, word, length of the string) = 0                         *)
Begins(string, word) == string \in Beginnings[word]

-----------------------------------------------------------------------------
(* ggl-recipe                                                              *)

parse_requiresprivilege_section(value) ==
    IF value = Missing THEN Ok(FALSE)
    ELSE IF value = Bad THEN Error("INVALID")
    ELSE IF Begins(value, "true") THEN Ok(TRUE)
    ELSE IF Begins(value, "false") THEN Ok(FALSE)
    ELSE Error("INVALID")

(* The script of a phase: who runs it, its text and its environment.       *)
ScriptOf(section, root) ==
    IF root.ret # "OK" THEN root
    ELSE IF section.Script = Missing THEN Error("NOENTRY")
    ELSE IF Bad \in {section.Script, section.Setenv} THEN Error("INVALID")
    ELSE Ok([root |-> root.out, script |-> section.Script, env |-> section.Setenv])

fetch_script_section(lifecycle, phase) ==
    LET section == lifecycle[phase]
    IN  IF section = Missing THEN Error("NOENTRY")
        ELSE IF section = Bad THEN Error("INVALID")
        ELSE ScriptOf(section,
                      parse_requiresprivilege_section(section.RequiresPrivilege))

(* A selection that means this platform takes the lifecycle from the       *)
(* recipe's own Lifecycle section: it is stored through a pointer that is  *)
(* NULL at this place, which ends the process.                             *)
lifecycle_selection(selections, global) ==
    LET chosen == \E i \in 1..Len(selections) :
                     Begins(selections[i], "all") \/ Begins(selections[i], "linux")
    IN  IF ~chosen \/ global = Missing THEN Ok(Missing)
        ELSE IF global = Bad THEN Error("INVALID")
        ELSE IF global.linux = Missing THEN Ok(Missing)
        ELSE IF global.linux = Bad THEN Error("INVALID")
        ELSE Error("crash")

(* Whether the platform section accepts this machine; only asked when the  *)
(* section names an operating system.                                      *)
Supported(platform) ==
    /\ \E word \in {"linux", "*", "all"} : Begins(platform.os, word)
    /\ platform.architecture = Missing \/ Begins(platform.architecture, "arch")

(* Ok(Missing) goes on to the next manifest.                               *)
manifest_selection(manifest, recipe) ==
    LET platform == manifest.Platform
    IN  IF platform \in {Missing, Bad} THEN Error("INVALID")
        ELSE IF platform.os = Missing THEN Ok(Missing)
        ELSE IF Bad \in {platform.os, platform.architecture} THEN Error("INVALID")
        ELSE IF ~Supported(platform) THEN Ok(Missing)
        ELSE IF manifest.Lifecycle = Bad THEN Error("INVALID")
        ELSE IF manifest.Lifecycle # Missing THEN Ok(manifest.Lifecycle)
        ELSE IF manifest.Selections \in {Missing, Bad} THEN Error("INVALID")
        ELSE lifecycle_selection(manifest.Selections, recipe.Lifecycle)

(* The first manifest that gives a lifecycle, or an error.                 *)
select_linux_manifest(recipe) ==
    LET result(i) == IF recipe.Manifests[i] = Bad THEN Error("INVALID")
                     ELSE manifest_selection(recipe.Manifests[i], recipe)
        final == {i \in 1..Len(recipe.Manifests) : result(i) # Ok(Missing)}
    IN  IF recipe.Manifests \in {Missing, Bad} THEN Error("INVALID")
        ELSE IF final = {} THEN Error("FAILURE")
        ELSE result(CHOOSE i \in final : \A j \in final : i <= j)

-----------------------------------------------------------------------------
(* recipe2unit.  A unit is what its file says that systemd or this project *)
(* acts on: the units it needs, its type, the phase that ExecStart names,  *)
(* the user, and whether the target wants it.                              *)

Needs(binds, wants) == Ok([binds |-> binds, wants |-> wants])

(* parse_dependency_type over the ComponentDependencies; a dependency that *)
(* is no map is skipped, as one without a type.                            *)
dependency_parser(deps) ==
    LET of(S(_)) == {deps[i].name : i \in {i \in 1..Len(deps) :
                                            deps[i].type # Missing /\ S(deps[i].type)}}
        hard(t) == Begins(t, "HARD")
        soft(t) == ~Begins(t, "HARD")
    IN  IF \E i \in 1..Len(deps) : deps[i].type = Bad THEN Error("PARSE")
        ELSE Needs(of(hard), of(soft))

(* A component with dependencies does not ask for ggipcd.                  *)
fill_unit_section(recipe, phase) ==
    LET deps == recipe.ComponentDependencies
    IN  IF recipe.ComponentDescription = Bad THEN Error("PARSE")
        ELSE IF phase = "install" THEN Needs({}, {})
        ELSE IF deps = Missing THEN Needs({}, {"core.ggipcd"})
        ELSE IF deps = Bad THEN Error("INVALID")
        ELSE dependency_parser(deps)

(* Mutant of RunPhase: the run section is preferred.                       *)
RunFirst(lifecycle) ==
    IF lifecycle.run # Missing THEN "run"
    ELSE IF lifecycle.startup # Missing THEN "startup" ELSE Missing

(* The section that the unit of the component runs.                        *)
RunPhase(lifecycle) ==
    IF lifecycle.startup # Missing THEN "startup"
    ELSE IF lifecycle.run # Missing THEN "run" ELSE Missing

Type(section) == CASE section = "install" -> "oneshot"
                   [] section = "startup" -> "notify"
                   [] section = "run" -> "exec"

(* The part of the [Service] section that comes from the phase's script.   *)
update_unit_file_buffer(section, script) ==
    IF script.ret # "OK" THEN script
    ELSE Ok([type |-> Type(section), exec |-> section, root |-> script.out.root])

(* A lifecycle with neither startup nor run gives a unit without a command.*)
AddPhase(lifecycle, section) ==
    IF lifecycle.ret # "OK" THEN lifecycle
    ELSE IF section = Missing
    THEN Ok([type |-> Missing, exec |-> Missing, root |-> FALSE])
    ELSE update_unit_file_buffer(section,
                                 fetch_script_section(lifecycle.out, section))

manifest_builder(recipe, phase) ==
    LET lifecycle == select_linux_manifest(recipe)
    IN  AddPhase(lifecycle, IF phase = "install" THEN phase
                            ELSE RunPhase(lifecycle.out))

(* The sections [Unit], [Service] and [Install] together.                  *)
Unit(needs, named, service, phase) ==
    IF needs.ret # "OK" THEN needs
    ELSE IF ~named THEN Error("INVALID")
    ELSE IF service.ret # "OK" THEN service
    ELSE Ok([needs |-> needs.out, type |-> service.out.type,
             exec |-> service.out.exec, root |-> service.out.root,
             wanted |-> phase # "install"])

generate_systemd_unit(recipe, phase) ==
    Unit(fill_unit_section(recipe, phase), recipe.named,
         manifest_builder(recipe, phase), phase)

-----------------------------------------------------------------------------
(* recipe-runner.  A script or the value of an environment variable is a   *)
(* sequence of pieces [type, arg]: "text" is written as it is, any other   *)
(* type is an escape {type:arg}.  An escape that is not closed, or has no  *)
(* colon, is one of type Missing.                                          *)

Text(arg) == [type |-> "text", arg |-> arg]

(* What an escape is replaced by: text, a value of the configuration that  *)
(* is read when it is written, or Bad, at which the writer gives up.       *)
substitute_escape(piece) ==
    IF \/ piece.type = "text"
       \/ piece.type = "configuration" /\ piece.arg # Bad
       \/ piece \in [type : {"kernel"}, arg : {"rootPath"}]
       \/ piece \in [type : {"iot"}, arg : {"thingName"}]
       \/ piece \in [type : {"work"}, arg : {"path"}]
       \/ piece \in [type : {"artifacts"}, arg : {"path", "decompressedPath"}]
    THEN piece ELSE Bad

Pieces(text) == IF text = <<>> THEN <<Text("eol")>>
                ELSE [i \in 1..Len(text) |-> substitute_escape(text[i])]

(* One line for each variable, in the order of the map.                    *)
process_set_env(env) ==
    LET line(value) == <<Text("export")>>
            \o IF value = Bad THEN <<Bad>> ELSE Append(Pieces(value), Text("eol"))
        lines[n \in 0..Len(env)] == IF n = 0 THEN <<>> ELSE lines[n - 1] \o line(env[n])
    IN  lines[Len(env)]

find_and_process_set_env(env) ==
    IF env = Missing THEN <<>>
    ELSE IF env = Bad THEN <<Bad>> ELSE process_set_env(env)

process_lifecycle_phase(script) ==
    IF script.ret # "OK" THEN <<Bad>>
    ELSE find_and_process_set_env(script.out.env) \o Pieces(script.out.script)

(* The pieces that the writer has to write, in order.                      *)
write_script(lifecycle, phase) ==
    IF lifecycle.ret # "OK" THEN <<Bad>>
    ELSE <<Text("set")>>
            \o find_and_process_set_env(lifecycle.out.Setenv)
            \o process_lifecycle_phase(fetch_script_section(lifecycle.out, phase))

write_script_with_replacement(recipe, phase) ==
    write_script(select_linux_manifest(recipe), phase)
=============================================================================
