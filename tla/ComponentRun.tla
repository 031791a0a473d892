---------------------------- MODULE ComponentRun ----------------------------
(***************************************************************************)
(* From a recipe to the running script of a component.                     *)
(*                                                                         *)
(* The deployment thread converts the recipe of a version into the install *)
(* unit and the run unit of the component, one after the other, each       *)
(* written over the file that was there.  systemd starts a unit: its       *)
(* process is recipe-runner, which connects to ggipcd, asks for the        *)
(* environment, reads the recipe again, makes a pipe and forks.  The       *)
(* parent becomes the shell, with the pipe as its input and so as the      *)
(* input of every command it runs; the child writes the script into it     *)
(* piece by piece, and asks for each configuration value when it comes to  *)
(* it.  Nobody waits for the child.                                        *)
(* recipe2unit/src/parser.c, recipe-runner/src/runner.c,                   *)
(* ggipc-client/src/client.c                                               *)
(***************************************************************************)
EXTENDS Recipe

CONSTANTS
    Versions,          \* versions of the component
    Recipes,           \* [name -> a recipe that a version may have]
    Values,            \* values of the configuration key that scripts name
    PipeSize,          \* pieces that the pipe holds
    MaxConversions,    \* bound: calls of convert_to_unit
    MaxStarts,         \* bound: processes that systemd starts
    MaxEvents          \* bound: failures, and changes of the configuration

ASSUME BoundsAssumption ==
    /\ {PipeSize, MaxConversions, MaxStarts, MaxEvents} \subseteq Nat
    /\ PipeSize > 0

VARIABLES
    recipeOf,    \* [version -> the name of its recipe]
    present,     \* the versions whose recipe file exists
    file,        \* [kind of unit -> Missing, Bad (empty), or the unit]
    conv,        \* convert_to_unit
    outcome,     \* the version that was converted last, and how it ended
    proc,        \* the component's process
    config,      \* the configuration value, or Missing
    seen,        \* the values it had since the process was started
    count        \* what the bounds count

vars == <<recipeOf, present, file, conv, outcome, proc, config, seen, count>>
disk == <<recipeOf, present, file>>
deploy == <<conv, outcome>>
settings == <<config, seen>>

Kinds == {"install", "run"}

(* What the readers make of each recipe.                                   *)
ReadingOf(n) ==
    [name |-> n,
     lifecycle |-> select_linux_manifest(Recipes[n]).out,
     unit |-> [install |-> generate_systemd_unit(Recipes[n], "install"),
               run     |-> generate_systemd_unit(Recipes[n], "run")],
     script |-> [install |-> write_script_with_replacement(Recipes[n], "install"),
                 startup |-> write_script_with_replacement(Recipes[n], "startup"),
                 run     |-> write_script_with_replacement(Recipes[n], "run")]]

Readings == {ReadingOf(n) : n \in DOMAIN Recipes}

Reading(v) == CHOOSE r \in Readings : r.name = recipeOf[v]

Phases == {"install", "startup", "run"}

(* The pieces of all scripts.                                              *)
ScriptPieces ==
    UNION {UNION {{r.script[p][i] : i \in DOMAIN r.script[p]} : p \in Phases} :
              r \in Readings}

(* Missing and Bad are not mistaken for a section or a unit, and scripts   *)
(* are sequences.                                                          *)
ASSUME RecipesAssumption ==
    /\ Missing # Bad /\ Phases \cap {Missing, Bad} = {}
    /\ \A v \in Versions, r \in Readings, k \in Kinds :
          [version |-> v, unit |-> r.unit[k].out] \notin {Missing, Bad}
    /\ \A r \in Readings, p \in Phases : r.script[p] \in Seq(ScriptPieces)

NoProc == [pc |-> "none", phase |-> Missing, version |-> Missing, todo |-> <<>>,
           pipe |-> <<>>, taken |-> <<>>, busy |-> FALSE, child |-> "none",
           held |-> FALSE]
Convert(v, k, pc) == [pc |-> pc, kind |-> k, version |-> v]
Idle == Convert(Missing, "install", "idle")

Init ==
    /\ recipeOf \in [Versions -> DOMAIN Recipes]
    /\ present = Versions
    /\ file = [k \in Kinds |-> Missing]
    /\ conv = Idle
    /\ outcome = [version |-> Missing, ret |-> "none"]
    /\ proc = NoProc
    /\ config \in Values
    /\ seen = {config}
    /\ count = [conversions |-> 0, starts |-> 0, events |-> 0]

Event == /\ count.events < MaxEvents
         /\ count' = [count EXCEPT !.events = @ + 1]

-----------------------------------------------------------------------------
(* convert_to_unit                                                         *)

Return(ret) ==
    /\ conv' = Idle
    /\ outcome' = [version |-> conv.version, ret |-> ret]

(* After the install unit comes the run unit.                              *)
Continue ==
    IF conv.kind = "install"
    THEN conv' = Convert(conv.version, "run", "generate") /\ outcome' = outcome
    ELSE Return("OK")

(* ggl_recipe_get_from_file: a version without a recipe ends it at once.   *)
Begin(v) ==
    /\ conv.pc = "idle" /\ count.conversions < MaxConversions
    /\ count' = [count EXCEPT !.conversions = @ + 1]
    /\ IF v \in present
       THEN /\ conv' = Convert(v, "install", "generate")
            /\ outcome' = [version |-> v, ret |-> "none"]
       ELSE conv' = conv /\ outcome' = [version |-> v, ret |-> "error"]
    /\ UNCHANGED <<disk, proc, settings>>

(* generate_systemd_unit, and the opening of the file, which empties it.   *)
(* The host may lack the user, the group or the working directory.         *)
Generate ==
    /\ conv.pc = "generate"
    /\ LET unit == Reading(conv.version).unit[conv.kind]
       IN  \/ /\ unit.ret = "OK"
              /\ file' = [file EXCEPT ![conv.kind] = Bad]
              /\ conv' = [conv EXCEPT !.pc = "write"]
              /\ UNCHANGED <<outcome, count>>
           \/ /\ unit.ret = "NOENTRY" /\ Continue /\ UNCHANGED <<file, count>>
           \/ /\ unit.ret \notin {"OK", "NOENTRY"}
              /\ Return(IF unit.ret = "crash" THEN "crash" ELSE "error")
              /\ UNCHANGED <<file, count>>
           \/ Event /\ Return("error") /\ file' = file
    /\ UNCHANGED <<recipeOf, present, proc, settings>>

create_unit_file ==
    /\ conv.pc = "write"
    /\ \/ /\ file' = [file EXCEPT ![conv.kind] =
                        [version |-> conv.version,
                         unit |-> Reading(conv.version).unit[conv.kind].out]]
          /\ Continue /\ count' = count
       \/ Event /\ Return("error") /\ file' = file
    /\ UNCHANGED <<recipeOf, present, proc, settings>>

(* The daemon stops in between.                                            *)
Crash ==
    /\ conv.pc # "idle" /\ Event /\ Return("crash")
    /\ UNCHANGED <<disk, proc, settings>>

(* A deployment removes the recipe of a version that it does not deploy.   *)
RemoveRecipe(v) ==
    /\ conv.pc = "idle" /\ v \in present /\ v # outcome.version
    /\ Event
    /\ present' = present \ {v}
    /\ UNCHANGED <<recipeOf, file, deploy, proc, settings>>

-----------------------------------------------------------------------------
(* systemd (external): it starts a unit that has a command, at any time,   *)
(* and may stop it; the processes of a unit end together.                  *)
Start(k) ==
    /\ proc.pc \in {"none", "ended"} /\ count.starts < MaxStarts
    /\ file[k] \notin {Missing, Bad} /\ file[k].unit.exec # Missing
    /\ proc' = [NoProc EXCEPT !.pc = "connect", !.phase = file[k].unit.exec,
                              !.version = file[k].version]
    /\ seen' = {config}
    /\ count' = [count EXCEPT !.starts = @ + 1]
    /\ UNCHANGED <<disk, deploy, config>>

Exit(child) == proc' = [proc EXCEPT !.pc = "ended", !.child = child]

Stop ==
    /\ proc.pc \notin {"none", "ended"}
    /\ Event /\ Exit("killed")
    /\ UNCHANGED <<disk, deploy, settings>>

-----------------------------------------------------------------------------
(* recipe-runner: the parent.                                              *)

(* ggipc_call: ggipcd does not answer, or answers with an error.           *)
CallFails == Event

(* The runner has a connection and its token, or ends.                     *)
ggipc_connect_auth ==
    /\ proc.pc = "connect"
    /\ \/ proc' = [proc EXCEPT !.pc = "environment"] /\ count' = count
       \/ CallFails /\ Exit("none")
    /\ UNCHANGED <<disk, deploy, settings>>

(* The calls that fill the environment; all but the one for the port of    *)
(* the token server must succeed.                                          *)
runner ==
    /\ proc.pc = "environment"
    /\ \/ proc' = [proc EXCEPT !.pc = "recipe"] /\ count' = count
       \/ CallFails /\ Exit("none")
    /\ UNCHANGED <<disk, deploy, settings>>

(* The recipe is read, and the component's working directory entered.      *)
OpenRecipe ==
    /\ proc.pc = "recipe"
    /\ \/ /\ IF proc.version \in present THEN proc' = [proc EXCEPT !.pc = "fork"]
             ELSE Exit("none")
          /\ count' = count
       \/ Event /\ Exit("none")
    /\ UNCHANGED <<disk, deploy, settings>>

(* pipe2 or fork fails.                                                    *)
ForkFails ==
    /\ proc.pc = "fork" /\ Event /\ Exit("none")
    /\ UNCHANGED <<disk, deploy, settings>>

(* Mutant of Fork: the shell keeps the end that the child writes to.       *)
ForkHeld ==
    /\ proc.pc = "fork"
    /\ proc' = [proc EXCEPT !.pc = "shell", !.child = "writing", !.held = TRUE,
                            !.todo = Reading(proc.version).script[proc.phase]]
    /\ UNCHANGED <<disk, deploy, settings, count>>

(* The pipe is close-on-exec: as the parent becomes the shell, the child   *)
(* alone holds the end that is written to.                                 *)
Fork ==
    /\ proc.pc = "fork"
    /\ proc' = [proc EXCEPT !.pc = "shell", !.child = "writing", !.held = FALSE,
                            !.todo = Reading(proc.version).script[proc.phase]]
    /\ UNCHANGED <<disk, deploy, settings, count>>

-----------------------------------------------------------------------------
(* recipe-runner: the child.                                               *)

Writing == proc.child = "writing" /\ proc.pc = "shell"
NextPiece == IF proc.todo = <<>> THEN Missing ELSE Head(proc.todo)
GiveUp == proc' = [proc EXCEPT !.child = "failed"]

(* The value of a key that is set, as a string; otherwise Bad.             *)
ggipc_get_config_str == IF config = Missing THEN Bad ELSE config

(* The value is read; it is written when the pipe has room, and may have   *)
(* changed by then.  A value that is not there ends the child.             *)
insert_config_value ==
    /\ Writing /\ NextPiece \notin {Missing, Bad} /\ NextPiece.type = "configuration"
    /\ LET value == ggipc_get_config_str
       IN  \/ /\ value # Bad /\ count' = count
              /\ proc' = [proc EXCEPT !.todo[1] = [type |-> "value", arg |-> value]]
           \/ value = Bad /\ GiveUp /\ count' = count
           \/ CallFails /\ GiveUp
    /\ UNCHANGED <<disk, deploy, settings>>

(* The child writes the next piece when the pipe has room, and ends at the *)
(* first one that it cannot replace.                                       *)
WritePiece ==
    /\ Writing
    /\ \/ /\ NextPiece \notin {Missing, Bad} /\ NextPiece.type # "configuration"
          /\ Len(proc.pipe) < PipeSize
          /\ proc' = [proc EXCEPT !.todo = Tail(@), !.pipe = Append(@, NextPiece)]
       \/ NextPiece = Bad /\ GiveUp
    /\ UNCHANGED <<disk, deploy, settings, count>>

(* Mutant of ChildEnds: the last piece is left out.                        *)
ChildEndsEarly ==
    /\ Writing /\ Len(proc.todo) <= 1
    /\ proc' = [proc EXCEPT !.child = "ok"]
    /\ UNCHANGED <<disk, deploy, settings, count>>

ChildEnds ==
    /\ Writing /\ proc.todo = <<>>
    /\ proc' = [proc EXCEPT !.child = "ok"]
    /\ UNCHANGED <<disk, deploy, settings, count>>

-----------------------------------------------------------------------------
(* The shell and the commands it runs (external).  The shell takes a piece *)
(* from the pipe and is busy with it for as long as that needs, a daemon   *)
(* for ever.  A command has the pipe as its input and may take what        *)
(* follows; it may also end the shell.  The shell ends at the end of its   *)
(* input, when nobody has the pipe open to write.                          *)
Take ==
    /\ proc.pc = "shell" /\ proc.pipe # <<>>
    /\ proc' = [proc EXCEPT !.taken = Append(@, Head(proc.pipe)), !.pipe = Tail(@),
                            !.busy = TRUE]
    /\ UNCHANGED <<disk, deploy, settings, count>>

ShellReads == ~proc.busy /\ Take

CommandReads == proc.busy /\ Take

CommandEnds ==
    /\ proc.pc = "shell" /\ proc.busy
    /\ proc' = [proc EXCEPT !.busy = FALSE]
    /\ UNCHANGED <<disk, deploy, settings, count>>

ShellExits ==
    /\ proc.pc = "shell" /\ proc.busy
    /\ Exit(IF proc.child = "writing" THEN "killed" ELSE proc.child)
    /\ UNCHANGED <<disk, deploy, settings, count>>

ShellEnds ==
    /\ proc.pc = "shell" /\ ~proc.busy /\ proc.pipe = <<>>
    /\ proc.child # "writing" /\ ~proc.held
    /\ Exit(proc.child)
    /\ UNCHANGED <<disk, deploy, settings, count>>

(* Other processes change the configuration (external).                    *)
SetConfig ==
    /\ Event
    /\ \E value \in Values \cup {Missing} : value # config /\ config' = value
    /\ seen' = seen \cup {config'}
    /\ UNCHANGED <<disk, deploy, proc>>

-----------------------------------------------------------------------------
RunnerSteps == ggipc_connect_auth \/ runner \/ OpenRecipe \/ Fork
ChildSteps == insert_config_value \/ WritePiece \/ ChildEnds
ShellSteps == ShellReads \/ ShellEnds
CommandSteps == CommandReads \/ CommandEnds \/ ShellExits

Next ==
    \/ \E v \in Versions : Begin(v) \/ RemoveRecipe(v)
    \/ Generate \/ create_unit_file \/ Crash
    \/ \E k \in Kinds : Start(k)
    \/ Stop
    \/ RunnerSteps \/ ForkFails \/ ChildSteps
    \/ ShellSteps \/ CommandSteps
    \/ SetConfig

Spec == Init /\ [][Next]_vars

(* recipe-runner and its child run, and a shell that is not busy reads.    *)
(* The commands of the component need not end.                             *)
FairSpec ==
    /\ Spec
    /\ WF_vars(RunnerSteps) /\ WF_vars(ChildSteps) /\ WF_vars(ShellSteps)

-----------------------------------------------------------------------------
(* The state has the shape of the files, the conversion and the process.   *)
TypeOK ==
    /\ present \subseteq Versions
    /\ \A k \in Kinds : file[k] \in {Missing, Bad} \/ file[k].version \in Versions
    /\ conv.pc \in {"idle", "generate", "write"} /\ conv.kind \in Kinds
    /\ outcome.ret \in {"none", "OK", "error", "crash"}
    /\ proc.pc \in {"none", "connect", "environment", "recipe", "fork", "shell",
                   "ended"}
    /\ proc.child \in {"none", "writing", "ok", "failed", "killed"}
    /\ Len(proc.pipe) <= PipeSize /\ proc.busy \in BOOLEAN

(* When a conversion succeeds, the units on disk are those of the recipe   *)
(* that was converted, whatever earlier conversions left there: the        *)
(* install section if there is one, and of startup and run the one that    *)
(* is preferred, each run by root exactly when the section asks for it.    *)
(* A section that is absent or has no script leaves the file that was      *)
(* there (convert_to_unit).                                                *)
UnitsOfRecipe ==
    /\ TypeOK
    /\ outcome.ret = "OK" =>
        LET lifecycle == Reading(outcome.version).lifecycle
            section(k) == IF k = "run" /\ lifecycle.startup # Missing
                          THEN "startup" ELSE k
        IN  \A k \in Kinds :
              LET s == lifecycle[section(k)]
              IN  s # Missing =>
                    \/ s.Script = Missing
                    \/ /\ file[k] \notin {Missing, Bad}
                       /\ file[k].version = outcome.version
                       /\ file[k].unit.exec = section(k)
                       /\ file[k].unit.root =
                            (s.RequiresPrivilege \notin {Missing}
                             /\ Begins(s.RequiresPrivilege, "true"))

(* A piece that was taken from the pipe is the one of the recipe, with a   *)
(* value that the configuration had since the process was started.         *)
Renders(taken, piece) ==
    /\ piece # Bad
    /\ \/ taken = piece /\ piece.type # "configuration"
       \/ /\ piece.type = "configuration" /\ taken.type = "value"
          /\ taken.arg \in seen

(* What the shell and its commands take from the pipe is, in order, a      *)
(* beginning of the script that the unit's phase has in the recipe of the  *)
(* unit's version: nothing that follows a piece that could not be written, *)
(* and nothing twice (write_script_with_replacement, handle_escape).       *)
TakenIsPrefix ==
    proc.taken # <<>> =>
        LET script == Reading(proc.version).script[proc.phase]
        IN  /\ Len(proc.taken) <= Len(script)
            /\ \A i \in 1..Len(proc.taken) : Renders(proc.taken[i], script[i])

(* When the child wrote the script to its end and the shell came to the    *)
(* end of its input, all of the script went through.  When the child gave  *)
(* up, the shell comes to the end of what was written before and ends like *)
(* any other; a shell that ends while it is busy leaves the rest (runner). *)
WholeScriptTaken ==
    proc.pc = "ended" /\ ~proc.busy /\ proc.child = "ok" =>
        LET script == Reading(proc.version).script[proc.phase]
        IN  Len(proc.taken) = Len(script)

(* What the shell is given is the script, and all of it when it is written.*)
ScriptIsRun == TakenIsPrefix /\ WholeScriptTaken

(* A process that was started ends, unless a command of the component runs *)
(* for ever: the parent, the child and the shell never wait for each other *)
(* for ever, and when the child ends, whether it could write everything or *)
(* not, the shell sees the end of its input (runner, the pipe).            *)
ProcessEnds == []<>(~proc.busy) => (proc.pc # "none" ~> proc.pc = "ended")
=============================================================================
