------------------------- MODULE ComponentRunProofs -------------------------
(***************************************************************************)
(* The units and the scripts of a component are those of its recipe,       *)
(* proved for any recipes, versions, values and size of the pipe.          *)
(***************************************************************************)
EXTENDS ComponentRun, TLAPS

(* What a section of a lifecycle asks of its unit.                         *)
Section(lifecycle, k) ==
    IF k = "run" /\ lifecycle.startup # Missing THEN "startup" ELSE k

Privileged(s) == s.RequiresPrivilege \notin {Missing} /\ Begins(s.RequiresPrivilege, "true")

(* The file of kind k is the unit of v, where v has such a section.        *)
Converted(v, k) ==
    LET lifecycle == Reading(v).lifecycle
        s == lifecycle[Section(lifecycle, k)]
    IN  s # Missing =>
          \/ s.Script = Missing
          \/ /\ file[k] \notin {Missing, Bad}
             /\ file[k].version = v
             /\ file[k].unit.exec = Section(lifecycle, k)
             /\ file[k].unit.root = Privileged(s)

(* A file is missing, empty, or the unit of some version.                  *)
FileInv ==
    \A k \in Kinds :
        \/ file[k] \in {Missing, Bad}
        \/ \E v \in Versions :
             /\ file[k] = [version |-> v, unit |-> Reading(v).unit[k].out]
             /\ Reading(v).unit[k].ret = "OK"

(* A conversion has dealt with the install unit before the run unit, and   *)
(* has no result before it ends.                                           *)
ConvInv ==
    /\ conv.pc # "idle" => conv.version \in Versions /\ outcome.ret = "none"
    /\ conv.pc # "idle" /\ conv.kind = "run" => Converted(conv.version, "install")
    /\ conv.pc = "write" => Reading(conv.version).unit[conv.kind].ret = "OK"
    /\ outcome.ret = "OK" =>
          outcome.version \in Versions /\ \A k \in Kinds : Converted(outcome.version, k)

(* The script of the running process, and what has been written of it.     *)
Script == Reading(proc.version).script[proc.phase]
Written == Len(proc.taken) + Len(proc.pipe)

(* What was taken, what is in the pipe and what is to be written yet are   *)
(* the script, in this order.                                              *)
ScriptInv ==
    /\ proc.pc # "none" => proc.version \in Versions /\ proc.phase \in Phases
    /\ proc.pc \notin {"shell", "ended"} =>
          proc.taken = <<>> /\ proc.pipe = <<>> /\ proc.child = "none"
    /\ \A i \in 1..Len(proc.taken) : i <= Len(Script) /\ Renders(proc.taken[i], Script[i])
    /\ \A i \in 1..Len(proc.pipe) :
          /\ Len(proc.taken) + i <= Len(Script)
          /\ Renders(proc.pipe[i], Script[Len(proc.taken) + i])
    /\ proc.pc = "shell" =>
          /\ Written + Len(proc.todo) = Len(Script)
          /\ \A i \in 1..Len(proc.todo) :
                \/ proc.todo[i] = Script[Written + i]
                \/ proc.todo[i].type = "value" /\ Renders(proc.todo[i], Script[Written + i])
    /\ proc.child = "ok" => proc.todo = <<>>
    /\ proc.pc = "ended" /\ ~proc.busy /\ proc.child = "ok" =>
          Len(proc.taken) = Len(Script)

AnyPiece == ScriptPieces \cup [type : {"value"}, arg : Values]

Processes ==
    [pc : {"none", "connect", "environment", "recipe", "fork", "shell", "ended"},
     phase : Phases \cup {Missing}, version : Versions \cup {Missing},
     todo : Seq(AnyPiece), pipe : Seq(AnyPiece), taken : Seq(AnyPiece),
     busy : BOOLEAN, child : {"none", "writing", "ok", "failed", "killed"},
     held : BOOLEAN]

TypeInv ==
    /\ recipeOf \in [Versions -> DOMAIN Recipes]
    /\ present \subseteq Versions
    /\ DOMAIN file = Kinds /\ file = [k \in Kinds |-> file[k]]
    /\ conv \in [pc : {"idle", "generate", "write"}, kind : Kinds,
                 version : Versions \cup {Missing}]
    /\ outcome \in [version : Versions \cup {Missing},
                    ret : {"none", "OK", "error", "crash"}]
    /\ proc \in Processes
    /\ Len(proc.pipe) <= PipeSize
    /\ config \in Values \cup {Missing} /\ config \in seen

IInv == TypeInv /\ FileInv /\ ConvInv /\ ScriptInv

-----------------------------------------------------------------------------
(* What the readers of a recipe return.                                    *)

(* Selecting a manifest never returns NOENTRY, which would be taken for a  *)
(* section that is absent.                                                 *)
LEMMA SelectReturns ==
    ASSUME NEW recipe
    PROVE  select_linux_manifest(recipe).ret \in {"OK", "INVALID", "FAILURE", "crash"}
<1>1. ASSUME NEW m
      PROVE  manifest_selection(m, recipe).ret \in {"OK", "INVALID", "crash"}
  BY Zenon DEF manifest_selection, lifecycle_selection, Ok, Error
<1> QED
  BY Zenon, <1>1 DEF select_linux_manifest, Ok, Error

(* The script of a section.                                                *)
LEMMA FetchReturns ==
    ASSUME NEW lifecycle, NEW p
    PROVE  LET f == fetch_script_section(lifecycle, p)
               s == lifecycle[p]
           IN  /\ f.ret = "NOENTRY" => s = Missing \/ s.Script = Missing
               /\ f.ret = "OK" => s # Missing /\ f.out.root = Privileged(s)
BY Zenon DEF fetch_script_section, ScriptOf, parse_requiresprivilege_section, Ok, Error,
       Privileged, Begins

(* The unit of a kind is absent only for want of a section or a script,    *)
(* and otherwise names the section that is preferred and its user.         *)
LEMMA UnitReturns ==
    ASSUME NEW recipe, NEW k \in Kinds
    PROVE  LET u == generate_systemd_unit(recipe, k)
               lifecycle == select_linux_manifest(recipe).out
               s == lifecycle[Section(lifecycle, k)]
           IN  /\ u.ret = "NOENTRY" => s = Missing \/ s.Script = Missing
               /\ u.ret = "OK" /\ s # Missing =>
                    u.out.exec = Section(lifecycle, k) /\ u.out.root = Privileged(s)
               /\ u.ret = "OK" => u.out.exec \in Phases \cup {Missing}
<1> DEFINE cycle == select_linux_manifest(recipe)
           lifecycle == cycle.out
           s == lifecycle[Section(lifecycle, k)]
           m == manifest_builder(recipe, k)
           u == generate_systemd_unit(recipe, k)
<1>1. fill_unit_section(recipe, k).ret \in {"OK", "PARSE", "INVALID"}
  BY Zenon DEF fill_unit_section, dependency_parser, Needs, Ok, Error
<1>2. /\ u.ret = "NOENTRY" => m.ret = "NOENTRY"
      /\ u.ret = "OK" => m.ret = "OK" /\ u.out.exec = m.out.exec
                                     /\ u.out.root = m.out.root
  BY Zenon, <1>1 DEF generate_systemd_unit, Unit, Ok, Error
<1>3. /\ m.ret = "NOENTRY" => s = Missing \/ s.Script = Missing
      /\ m.ret = "OK" /\ s # Missing =>
            m.out.exec = Section(lifecycle, k) /\ m.out.root = Privileged(s)
      /\ m.ret = "OK" => m.out.exec \in Phases \cup {Missing}
  <2> DEFINE p == IF k = "install" THEN k ELSE RunPhase(lifecycle)
  <2>1. m = AddPhase(cycle, p)
    BY Zenon DEF manifest_builder
  <2>2. cycle.ret # "NOENTRY"
    BY Zenon, SelectReturns
  <2>3. CASE p = Missing
    <3>1. k = "run" /\ s = Missing
      BY Zenon, <2>3, RecipesAssumption DEF RunPhase, Section, Phases, Kinds
    <3> QED
      BY SMTT(60), <2>1, <2>2, <2>3, <3>1 DEF AddPhase, Ok
  <2>4. CASE p # Missing
    <3>1. p = Section(lifecycle, k) /\ p \in Phases
      BY Zenon, <2>4, RecipesAssumption DEF RunPhase, Section, Phases, Kinds
    <3> DEFINE f == fetch_script_section(lifecycle, p)
    <3>2. /\ m.ret = "NOENTRY" => f.ret = "NOENTRY"
          /\ m.ret = "OK" => f.ret = "OK" /\ m.out.exec = p /\ m.out.root = f.out.root
      BY SMTT(60), <2>1, <2>2, <2>4 DEF AddPhase, update_unit_file_buffer, Ok
    <3> QED
      BY SMTT(60), <3>1, <3>2, FetchReturns
  <2> QED
    BY Zenon, <2>3, <2>4
<1> QED
  BY Zenon, <1>2, <1>3

(* What the conversions know of a version is what its recipe says.         *)
LEMMA ReadingReturns ==
    ASSUME TypeInv, NEW v \in Versions
    PROVE  /\ Reading(v) \in Readings
           /\ \A k \in Kinds :
                LET u == Reading(v).unit[k]
                    lifecycle == Reading(v).lifecycle
                    s == lifecycle[Section(lifecycle, k)]
                IN  /\ u.ret = "NOENTRY" => s = Missing \/ s.Script = Missing
                    /\ u.ret = "OK" /\ s # Missing =>
                         u.out.exec = Section(lifecycle, k) /\ u.out.root = Privileged(s)
                    /\ u.ret = "OK" => u.out.exec \in Phases \cup {Missing}
<1> DEFINE recipe == Recipes[recipeOf[v]]
<1>1. recipeOf[v] \in DOMAIN Recipes
  BY Zenon DEF TypeInv
<1>2. ReadingOf(recipeOf[v]) \in Readings /\ ReadingOf(recipeOf[v]).name = recipeOf[v]
  BY Zenon, <1>1 DEF Readings, ReadingOf
<1>3. Reading(v) \in Readings /\ Reading(v).name = recipeOf[v]
  BY Zenon, <1>2 DEF Reading
<1>4. Reading(v) = ReadingOf(recipeOf[v])
  BY SMTT(60), <1>3 DEF Readings, ReadingOf
<1>5. /\ Reading(v).lifecycle = select_linux_manifest(recipe).out
      /\ \A k \in Kinds : Reading(v).unit[k] = generate_systemd_unit(recipe, k)
  BY SMTT(60), <1>4 DEF ReadingOf, Kinds
<1> QED
  BY SMTT(60), <1>3, <1>5, UnitReturns

(* The recipes of the versions do not change.                              *)
LEMMA SameReading ==
    ASSUME UNCHANGED recipeOf PROVE \A v : Reading(v)' = Reading(v)
BY Zenon DEF Reading

-----------------------------------------------------------------------------
LEMMA InitIInv == Init => IInv
<1> SUFFICES ASSUME Init PROVE IInv
  BY Zenon
<1>1. TypeInv
  BY SMTT(60), BoundsAssumption, RecipesAssumption
     DEF Init, TypeInv, Processes, Idle, Convert, NoProc, Kinds
<1>2. FileInv /\ ConvInv
  BY Zenon DEF Init, FileInv, ConvInv, Idle, Convert
<1>3. ScriptInv
  BY SMTT(60) DEF Init, ScriptInv, NoProc, Written
<1> QED
  BY Zenon, <1>1, <1>2, <1>3 DEF IInv

(* A step that leaves the process alone.                                   *)
LEMMA SameScript ==
    ASSUME ScriptInv, UNCHANGED <<recipeOf, proc>>, seen \subseteq seen'
    PROVE  ScriptInv'
<1>1. Script' = Script /\ Written' = Written
  BY Zenon, SameReading DEF Script, Written
<1>2. \A r, piece : Renders(r, piece) => Renders(r, piece)'
  BY Zenon DEF Renders
<1> QED
  BY Zenon, <1>1, <1>2 DEF ScriptInv

(* A step that leaves the files and the conversion alone.                  *)
LEMMA SameFiles ==
    ASSUME FileInv, ConvInv, UNCHANGED <<recipeOf, file, conv, outcome>>
    PROVE  FileInv' /\ ConvInv'
<1>1. \A v : Reading(v)' = Reading(v)
  BY Zenon, SameReading
<1>2. \A v, k : Converted(v, k)' <=> Converted(v, k)
  BY SMTT(60), <1>1 DEF Converted
<1> QED
  BY Zenon, <1>1, <1>2 DEF FileInv, ConvInv

(* A file that is left alone, or has no section to be made from, is        *)
(* converted as it was.                                                    *)
LEMMA SameConverted ==
    ASSUME NEW v, NEW k, UNCHANGED recipeOf, file'[k] = file[k], Converted(v, k)
    PROVE  Converted(v, k)'
BY Zenon, SameReading DEF Converted

LEMMA NothingToConvert ==
    ASSUME TypeInv, NEW v \in Versions, NEW k \in Kinds, Reading(v).unit[k].ret = "NOENTRY"
    PROVE  Converted(v, k)
BY Zenon, ReadingReturns DEF Converted

(* A unit that is written is converted.                                    *)
LEMMA UnitConverted ==
    ASSUME TypeInv, NEW v \in Versions, NEW k \in Kinds, Reading(v).unit[k].ret = "OK",
           UNCHANGED recipeOf,
           file'[k] = [version |-> v, unit |-> Reading(v).unit[k].out]
    PROVE  Converted(v, k)'
<1>1. file'[k] \notin {Missing, Bad}
  BY SMTT(60), ReadingReturns, RecipesAssumption
<1> QED
  BY SMTT(60), <1>1, ReadingReturns, SameReading DEF Converted

(* The end of a unit's turn: the next unit, or success.                    *)
LEMMA ContinueInv ==
    ASSUME IInv, conv.pc # "idle", Continue, UNCHANGED recipeOf,
           NEW v, NEW k, v = conv.version, k = conv.kind, Converted(v, k)',
           k = "run" => file'["install"] = file["install"]
    PROVE  ConvInv' /\ conv' \in [pc : {"idle", "generate", "write"}, kind : Kinds,
                                  version : Versions \cup {Missing}]
                    /\ outcome' \in [version : Versions \cup {Missing},
                                     ret : {"none", "OK", "error", "crash"}]
<1> v \in Versions /\ k \in Kinds /\ outcome.ret = "none"
  BY Zenon DEF IInv, TypeInv, ConvInv
<1>1. CASE k = "install"
  <2>1. conv' = [pc |-> "generate", kind |-> "run", version |-> v] /\ outcome' = outcome
    BY Zenon, <1>1 DEF Continue, Convert
  <2> QED
    BY Zenon, <1>1, <2>1 DEF IInv, TypeInv, ConvInv, Kinds
<1>2. CASE k = "run"
  <2>1. Converted(v, "install")
    BY Zenon, <1>2 DEF IInv, ConvInv
  <2>2. Converted(v, "install")'
    BY Zenon, <1>2, <2>1, SameConverted
  <2>3. /\ conv' = [pc |-> "idle", kind |-> "install", version |-> Missing]
        /\ outcome' = [version |-> v, ret |-> "OK"]
    BY Zenon, <1>2 DEF Continue, Return, Idle, Convert
  <2> QED
    BY Zenon, <1>2, <2>2, <2>3 DEF ConvInv, Kinds
<1> QED
  BY Zenon, <1>1, <1>2 DEF Kinds

(* A conversion that fails or is cut short has no result to keep.          *)
LEMMA ReturnInv ==
    ASSUME IInv, NEW ret \in {"error", "crash"}, Return(ret)
    PROVE  ConvInv' /\ conv' \in [pc : {"idle", "generate", "write"}, kind : Kinds,
                                  version : Versions \cup {Missing}]
                    /\ outcome' \in [version : Versions \cup {Missing},
                                     ret : {"none", "OK", "error", "crash"}]
BY Zenon DEF IInv, TypeInv, Kinds, Return, Idle, Convert, ConvInv

(* The steps of a conversion, and the removal of a recipe.                 *)
LEMMA DeploySteps ==
    ASSUME IInv,
           \/ \E v \in Versions : Begin(v) \/ RemoveRecipe(v)
           \/ Generate \/ create_unit_file \/ Crash
    PROVE  IInv'
<1>1. UNCHANGED <<recipeOf, proc, config, seen>>
  BY Zenon DEF Begin, RemoveRecipe, Generate, create_unit_file, Crash, disk, settings
<1>2. ScriptInv'
  BY Zenon, <1>1, SameScript DEF IInv
<1>3. \A w : Reading(w)' = Reading(w)
  BY Zenon, <1>1, SameReading
<1>4. ASSUME NEW v \in Versions, Begin(v) PROVE IInv'
  <2>1. TypeInv'
    BY SMTT(60), <1>1, <1>4 DEF IInv, TypeInv, Begin, Convert, disk, Kinds
  <2>2. FileInv'
    BY Zenon, <1>3, <1>4 DEF IInv, FileInv, Begin, disk
  <2>3. ConvInv'
    BY SMTT(60), <1>4 DEF IInv, TypeInv, ConvInv, Begin, Convert, disk
  <2> QED BY Zenon, <1>2, <2>1, <2>2, <2>3 DEF IInv
<1>5. ASSUME NEW v \in Versions, RemoveRecipe(v) PROVE IInv'
  <2>1. TypeInv'
    BY SMTT(60), <1>1, <1>5 DEF IInv, TypeInv, RemoveRecipe, deploy
  <2>2. FileInv' /\ ConvInv'
    BY Zenon, <1>1, <1>5, SameFiles DEF IInv, RemoveRecipe, deploy
  <2> QED BY Zenon, <1>2, <2>1, <2>2 DEF IInv
<1>6. CASE Generate
  <2> DEFINE v == conv.version
             k == conv.kind
             unit == Reading(v).unit[k]
  <2>1. v \in Versions /\ k \in Kinds /\ conv.pc = "generate"
    BY Zenon, <1>6 DEF IInv, TypeInv, ConvInv, Generate
  <2>2. CASE unit.ret = "OK" /\ file' = [file EXCEPT ![k] = Bad]
             /\ conv' = [conv EXCEPT !.pc = "write"] /\ UNCHANGED outcome
    <3>1. TypeInv'
      BY SMTT(60), <1>1, <1>6, <2>1, <2>2 DEF IInv, TypeInv, Generate
    <3>2. FileInv'
      BY ZenonT(60), <1>3, <2>1, <2>2 DEF IInv, TypeInv, FileInv
    <3>3. ConvInv'
      <4> PICK w, l : w = conv.version /\ l = conv.kind
        BY Zenon
      <4>1. ASSUME l = "run" PROVE Converted(w, "install")'
        <5>1. Converted(w, "install") /\ file'["install"] = file["install"]
          BY Zenon, <2>1, <2>2, <4>1 DEF IInv, TypeInv, ConvInv, Kinds
        <5> QED BY Zenon, <1>1, <5>1, SameConverted
      <4>2. /\ conv' = [pc |-> "write", kind |-> l, version |-> w]
            /\ outcome' = outcome /\ outcome.ret = "none"
        BY Zenon, <2>1, <2>2 DEF IInv, TypeInv, ConvInv
      <4>3. w \in Versions /\ Reading(w)'.unit[l].ret = "OK"
        BY Zenon, <1>3, <2>1, <2>2
      <4> QED BY Zenon, <4>1, <4>2, <4>3 DEF ConvInv
    <3> QED BY Zenon, <1>2, <3>1, <3>2, <3>3 DEF IInv
  <2>3. CASE unit.ret = "NOENTRY" /\ Continue /\ UNCHANGED file
    <3> PICK w, l : w = conv.version /\ l = conv.kind
      BY Zenon
    <3>1. Converted(w, l)
      BY Zenon, <2>1, <2>3, NothingToConvert DEF IInv
    <3>2. Converted(w, l)'
      BY Zenon, <1>1, <2>3, <3>1, SameConverted
    <3>3. ConvInv' /\ TypeInv'
      BY SMTT(60), <1>1, <1>6, <2>1, <2>3, <3>2, ContinueInv DEF IInv, TypeInv, Generate
    <3>4. FileInv'
      BY Zenon, <1>3, <2>3 DEF IInv, FileInv
    <3> QED BY Zenon, <1>2, <3>3, <3>4 DEF IInv
  <2>4. CASE \E ret \in {"error", "crash"} : Return(ret) /\ UNCHANGED file
    <3>1. ConvInv' /\ TypeInv'
      BY SMTT(60), <1>1, <1>6, <2>4, ReturnInv DEF IInv, TypeInv, Generate
    <3>2. FileInv'
      BY Zenon, <1>3, <2>4 DEF IInv, FileInv
    <3> QED BY Zenon, <1>2, <3>1, <3>2 DEF IInv
  <2> QED
    BY Zenon, <1>6, <2>2, <2>3, <2>4 DEF Generate
<1>7. CASE create_unit_file
  <2> PICK v, k : v = conv.version /\ k = conv.kind
    BY Zenon
  <2>1. v \in Versions /\ k \in Kinds /\ Reading(v).unit[k].ret = "OK"
    BY Zenon, <1>7 DEF IInv, TypeInv, ConvInv, create_unit_file
  <2>2. CASE Continue /\ file' = [file EXCEPT ![k] =
                                  [version |-> v, unit |-> Reading(v).unit[k].out]]
    <3>1. Converted(v, k)'
      BY Zenon, <1>1, <2>1, <2>2, UnitConverted DEF IInv, TypeInv
    <3>2. k = "run" => file'["install"] = file["install"]
      BY Zenon, <2>2 DEF IInv, TypeInv, Kinds
    <3>3. ConvInv' /\ TypeInv'
      BY SMTT(60), <1>1, <1>7, <2>1, <2>2, <3>1, <3>2, ContinueInv
         DEF IInv, TypeInv, create_unit_file
    <3>4. FileInv'
      <4>1. file'[k] = [version |-> v, unit |-> Reading(v)'.unit[k].out]
        BY Zenon, <1>3, <2>1, <2>2 DEF IInv, TypeInv
      <4>2. \A j \in Kinds : j # k => file'[j] = file[j]
        BY Zenon, <2>2 DEF IInv, TypeInv
      <4> QED BY SMTT(60), <1>3, <2>1, <4>1, <4>2 DEF IInv, FileInv
    <3> QED BY Zenon, <1>2, <3>3, <3>4 DEF IInv
  <2>3. CASE Return("error") /\ UNCHANGED file
    <3>1. ConvInv' /\ TypeInv'
      BY SMTT(60), <1>1, <1>7, <2>3, ReturnInv DEF IInv, TypeInv, create_unit_file
    <3>2. FileInv'
      BY Zenon, <1>3, <2>3 DEF IInv, FileInv
    <3> QED BY Zenon, <1>2, <3>1, <3>2 DEF IInv
  <2> QED
    BY Zenon, <1>7, <2>2, <2>3 DEF create_unit_file
<1>8. CASE Crash
  <2>1. ConvInv' /\ TypeInv'
    BY SMTT(60), <1>1, <1>8, ReturnInv DEF IInv, TypeInv, Crash, disk
  <2>2. FileInv'
    BY Zenon, <1>3, <1>8 DEF IInv, FileInv, Crash, disk
  <2> QED BY Zenon, <1>2, <2>1, <2>2 DEF IInv
<1> QED
  BY Zenon, <1>4, <1>5, <1>6, <1>7, <1>8

-----------------------------------------------------------------------------
(* The script of a process that runs is a sequence of pieces.              *)
LEMMA ScriptType ==
    ASSUME IInv, proc.pc # "none" PROVE Script \in Seq(AnyPiece)
<1>1. proc.version \in Versions /\ proc.phase \in Phases
  BY Zenon DEF IInv, ScriptInv
<1>2. Reading(proc.version) \in Readings
  BY Zenon, <1>1, ReadingReturns DEF IInv
<1>3. Script \in Seq(ScriptPieces)
  BY Zenon, <1>1, <1>2, RecipesAssumption DEF Script
<1> QED
  BY SMTT(60), <1>3 DEF AnyPiece

(* A process before it forks, or one that is ended: what it has run stays. *)
LEMMA EarlySteps ==
    ASSUME IInv,
           \/ Stop \/ ggipc_connect_auth \/ runner \/ OpenRecipe \/ ForkFails
    PROVE  TypeInv' /\ ScriptInv'
<1>1. UNCHANGED <<recipeOf, present, file, conv, outcome, config, seen>>
  BY Zenon DEF Stop, ggipc_connect_auth, runner, OpenRecipe, ForkFails, disk, deploy,
               settings
<1>2. /\ proc.pc \notin {"none", "ended"}
      /\ \/ \E p \in {"environment", "recipe", "fork"} :
               /\ proc.pc \notin {"shell", "ended"}
               /\ proc' = [proc EXCEPT !.pc = p]
         \/ \E child \in {"none", "killed"} :
               proc' = [proc EXCEPT !.pc = "ended", !.child = child]
  BY Zenon DEF Stop, ggipc_connect_auth, runner, OpenRecipe, ForkFails, Exit, IInv, TypeInv,
               Processes
<1>3. /\ proc'.version = proc.version /\ proc'.phase = proc.phase
      /\ proc'.taken = proc.taken /\ proc'.pipe = proc.pipe
      /\ proc'.pc # "shell"
      /\ proc'.pc # "ended" => proc'.child = proc.child /\ proc.pc \notin {"shell", "ended"}
      /\ proc'.pc = "ended" => proc'.child # "ok"
      /\ proc'.child # "ok"
  BY ZenonT(60), <1>2 DEF IInv, TypeInv, Processes, ScriptInv
<1>4. TypeInv'
  <2>1. ASSUME NEW p \in {"environment", "recipe", "fork"}, proc' = [proc EXCEPT !.pc = p]
        PROVE  proc' \in Processes
    BY Zenon, <2>1 DEF IInv, TypeInv, Processes
  <2>2. ASSUME NEW child \in {"none", "killed"},
               proc' = [proc EXCEPT !.pc = "ended", !.child = child]
        PROVE  proc' \in Processes
    BY Zenon, <2>2 DEF IInv, TypeInv, Processes
  <2>3. proc' \in Processes
    BY Zenon, <1>2, <2>1, <2>2
  <2> QED
    BY SMTT(60), <1>1, <1>3, <2>3 DEF IInv, TypeInv
<1>5. Script' = Script
  BY Zenon, <1>1, <1>3, SameReading DEF Script
<1>6. ScriptInv'
  BY SMTT(60), <1>1, <1>2, <1>3, <1>5 DEF IInv, ScriptInv, Renders
<1> QED
  BY Zenon, <1>4, <1>6

(* systemd starts the phase that the unit names.                           *)
LEMMA StartStep ==
    ASSUME IInv, NEW k \in Kinds, Start(k) PROVE TypeInv' /\ ScriptInv'
<1>1. PICK v \in Versions :
        /\ file[k] = [version |-> v, unit |-> Reading(v).unit[k].out]
        /\ Reading(v).unit[k].ret = "OK"
  BY Zenon DEF Start, IInv, FileInv
<1>2. file[k].version = v /\ file[k].unit.exec \in Phases
  BY SMTT(60), <1>1, ReadingReturns DEF Start, IInv
<1>3. proc' = [pc |-> "connect", phase |-> file[k].unit.exec, version |-> v,
               todo |-> <<>>, pipe |-> <<>>, taken |-> <<>>, busy |-> FALSE,
               child |-> "none", held |-> FALSE]
  BY Zenon, <1>2 DEF Start, NoProc
<1>4. TypeInv'
  <2>1. proc' \in Processes
    BY SMTT(60), <1>2, <1>3 DEF Processes
  <2>2. Len(proc'.pipe) <= PipeSize
    BY SMTT(60), <1>3, BoundsAssumption
  <2> QED
    BY SMTT(60), <2>1, <2>2 DEF Start, disk, deploy, IInv, TypeInv
<1>5. ScriptInv'
  BY SMTT(60), <1>2, <1>3 DEF ScriptInv
<1> QED
  BY Zenon, <1>4, <1>5

(* The child begins with the whole script to write.                        *)
LEMMA ForkStep ==
    ASSUME IInv, Fork PROVE TypeInv' /\ ScriptInv'
<1>1. UNCHANGED <<recipeOf, present, file, conv, outcome, config, seen>>
  BY Zenon DEF Fork, disk, deploy, settings
<1>2. Script \in Seq(AnyPiece)
  BY Zenon, ScriptType DEF Fork
<1>3. proc' = [proc EXCEPT !.pc = "shell", !.child = "writing", !.held = FALSE,
                           !.todo = Script]
  BY Zenon DEF Fork, Script
<1>4. TypeInv'
  BY ZenonT(60), <1>1, <1>2, <1>3 DEF IInv, TypeInv, Processes
<1>5. Script' = Script
  BY Zenon, <1>1, <1>3, SameReading DEF Script, IInv, TypeInv, Processes
<1>6. proc'.taken = <<>> /\ proc'.pipe = <<>> /\ proc'.todo = Script
      /\ proc'.pc = "shell" /\ proc'.child = "writing"
      /\ proc'.version = proc.version /\ proc'.phase = proc.phase
  BY Zenon, <1>3 DEF Fork, IInv, TypeInv, Processes, ScriptInv
<1>7. proc.version \in Versions /\ proc.phase \in Phases
  BY Zenon DEF Fork, IInv, ScriptInv
<1>8. Written' = 0
  BY SMTT(60), <1>6 DEF Written
<1> HIDE DEF Script, Written
<1>9. \A i \in 1..Len(proc'.todo) : proc'.todo[i] = Script'[Written' + i]
  BY SMTT(60), <1>2, <1>5, <1>6, <1>8
<1>10. Written' + Len(proc'.todo) = Len(Script')
  BY SMTT(60), <1>2, <1>5, <1>6, <1>8
<1> QED
  BY SMTT(60), <1>4, <1>6, <1>7, <1>9, <1>10 DEF ScriptInv

(* The child gives up or ends: what is in the pipe stays.                  *)
LEMMA ChildDone ==
    ASSUME IInv, proc.pc = "shell", NEW child \in {"ok", "failed"},
           proc' = [proc EXCEPT !.child = child], child = "ok" => proc.todo = <<>>,
           UNCHANGED <<recipeOf, present, file, conv, outcome, config, seen>>
    PROVE  TypeInv' /\ ScriptInv'
<1>1. /\ proc' \in Processes
      /\ proc'.pc = "shell" /\ proc'.child = child
      /\ proc'.version = proc.version /\ proc'.phase = proc.phase
      /\ proc'.taken = proc.taken /\ proc'.pipe = proc.pipe /\ proc'.todo = proc.todo
  BY Zenon DEF IInv, TypeInv, Processes
<1>2. Script' = Script /\ Written' = Written
  BY Zenon, <1>1, SameReading DEF Script, Written
<1>3. \A r, piece : Renders(r, piece)' <=> Renders(r, piece)
  BY Zenon DEF Renders
<1> QED
  BY SMTT(60), <1>1, <1>2, <1>3 DEF IInv, TypeInv, ScriptInv

(* The value of the configuration takes the place of the escape.           *)
LEMMA ValueStep ==
    ASSUME IInv, insert_config_value PROVE TypeInv' /\ ScriptInv'
<1>1. UNCHANGED <<recipeOf, present, file, conv, outcome, config, seen>>
  BY Zenon DEF insert_config_value, disk, deploy, settings
<1>2. CASE GiveUp
  BY Zenon, <1>1, <1>2, ChildDone DEF insert_config_value, GiveUp, Writing
<1>3. CASE ~GiveUp
  <2> DEFINE V == [type |-> "value", arg |-> config]
             todo == proc.todo
  <2>1. /\ proc.pc = "shell" /\ todo # <<>> /\ todo[1].type = "configuration"
        /\ todo[1] # Bad
        /\ config \in Values /\ config \in seen
        /\ proc' = [proc EXCEPT !.todo = [todo EXCEPT ![1] = V]]
    BY SMTT(60), <1>3 DEF insert_config_value, Writing, NextPiece, ggipc_get_config_str, IInv, TypeInv
  <2>2. /\ todo \in Seq(AnyPiece) /\ Len(todo) > 0
        /\ proc.taken \in Seq(AnyPiece) /\ proc.pipe \in Seq(AnyPiece)
    BY SMTT(60), <2>1 DEF IInv, TypeInv, Processes
  <2>3. V \in AnyPiece
    BY Zenon, <2>1 DEF AnyPiece
  <2> HIDE DEF V
  <2>4. /\ [todo EXCEPT ![1] = V] \in Seq(AnyPiece)
        /\ Len([todo EXCEPT ![1] = V]) = Len(todo)
    BY SMTT(60), <2>2, <2>3
  <2>5. /\ proc' \in Processes
        /\ proc'.pc = "shell" /\ proc'.child = proc.child
        /\ proc'.version = proc.version /\ proc'.phase = proc.phase
        /\ proc'.taken = proc.taken /\ proc'.pipe = proc.pipe
        /\ proc'.todo = [todo EXCEPT ![1] = V]
    BY Zenon, <2>1, <2>4 DEF IInv, TypeInv, Processes
  <2>6. Script' = Script /\ Written' = Written
    BY Zenon, <1>1, <2>5, SameReading DEF Script, Written
  <2>7. \A r, piece : Renders(r, piece)' <=> Renders(r, piece)
    BY Zenon, <1>1 DEF Renders
  <2>8. Renders(V, Script[Written + 1]) /\ V.type = "value"
    <3>1. todo[1] = Script[Written + 1]
      BY SMTT(60), <2>1, <2>2 DEF IInv, ScriptInv
    <3> QED
      BY Zenon, <2>1, <3>1 DEF Renders, V
  <2>9. \A i \in 1..Len(todo) :
          \/ [todo EXCEPT ![1] = V][i] = Script[Written + i]
          \/ /\ [todo EXCEPT ![1] = V][i].type = "value"
             /\ Renders([todo EXCEPT ![1] = V][i], Script[Written + i])
    <3>1. ASSUME NEW i \in 1..Len(todo), i # 1 PROVE [todo EXCEPT ![1] = V][i] = todo[i]
      BY SMTT(60), <2>2, <3>1
    <3>2. [todo EXCEPT ![1] = V][1] = V
      BY SMTT(60), <2>2
    <3> QED
      BY SMTT(60), <2>1, <2>8, <3>1, <3>2 DEF IInv, ScriptInv
  <2>10. TypeInv'
    BY SMTT(60), <1>1, <2>5 DEF IInv, TypeInv
  <2>11. proc.child # "ok"
    BY Zenon, <2>1 DEF insert_config_value, Writing
  <2>12. ScriptInv'
    BY SMTT(60), <2>4, <2>5, <2>6, <2>7, <2>9, <2>11, <2>1 DEF IInv, ScriptInv
  <2> QED BY Zenon, <2>10, <2>12
<1> QED
  BY Zenon, <1>2, <1>3

(* A piece goes from what is to be written into the pipe.                  *)
LEMMA WriteStep ==
    ASSUME IInv, WritePiece PROVE TypeInv' /\ ScriptInv'
<1>1. UNCHANGED <<recipeOf, present, file, conv, outcome, config, seen>>
  BY Zenon DEF WritePiece, disk, deploy, settings
<1>2. CASE GiveUp
  BY Zenon, <1>1, <1>2, ChildDone DEF WritePiece, GiveUp, Writing
<1>3. CASE ~GiveUp
  <2> DEFINE todo == proc.todo
             pipe == proc.pipe
             x == Head(todo)
  <2>1. /\ proc.pc = "shell" /\ proc.child = "writing" /\ todo # <<>>
        /\ x # Bad /\ x.type # "configuration" /\ Len(pipe) < PipeSize
        /\ proc' = [proc EXCEPT !.todo = Tail(todo), !.pipe = Append(pipe, x)]
    BY Zenon, <1>3 DEF WritePiece, Writing, NextPiece
  <2>2. /\ todo \in Seq(AnyPiece) /\ pipe \in Seq(AnyPiece) /\ Len(todo) > 0
        /\ proc.taken \in Seq(AnyPiece) /\ x = todo[1] /\ x \in AnyPiece
    BY SMTT(60), <2>1 DEF IInv, TypeInv, Processes
  <2>3. /\ Tail(todo) \in Seq(AnyPiece) /\ Len(Tail(todo)) = Len(todo) - 1
        /\ \A i \in 1..Len(Tail(todo)) : Tail(todo)[i] = todo[i + 1]
    BY SMTT(60), <2>2
  <2>4. /\ Append(pipe, x) \in Seq(AnyPiece) /\ Len(Append(pipe, x)) = Len(pipe) + 1
        /\ \A i \in 1..Len(pipe) : Append(pipe, x)[i] = pipe[i]
        /\ Append(pipe, x)[Len(pipe) + 1] = x
    BY SMTT(60), <2>2
  <2>5. /\ proc' \in Processes
        /\ proc'.pc = "shell" /\ proc'.child = "writing"
        /\ proc'.version = proc.version /\ proc'.phase = proc.phase
        /\ proc'.taken = proc.taken
        /\ proc'.todo = Tail(todo) /\ proc'.pipe = Append(pipe, x)
    BY Zenon, <2>1, <2>3, <2>4 DEF IInv, TypeInv, Processes
  <2>6. Script' = Script
    BY Zenon, <1>1, <2>5, SameReading DEF Script
  <2>7. Written' = Written + 1 /\ Written \in Nat
    <3>1. Len(proc'.pipe) = Len(pipe) + 1 /\ Len(proc'.taken) = Len(proc.taken)
      BY Zenon, <2>4, <2>5
    <3> DEFINE a == Len(proc.taken)
               b == Len(pipe)
    <3>2. a \in Nat /\ b \in Nat
      BY SMTT(60), <2>2
    <3>3. Written = a + b /\ Written' = a + (b + 1)
      BY Zenon, <3>1 DEF Written
    <3> HIDE DEF a, b
    <3> QED BY SMTT(60), <3>2, <3>3
  <2>8. \A r, piece : Renders(r, piece)' <=> Renders(r, piece)
    BY Zenon, <1>1 DEF Renders
  <2>9. Renders(x, Script[Written + 1])
    <3>1. \/ x = Script[Written + 1]
          \/ Renders(x, Script[Written + 1])
      BY SMTT(60), <2>1, <2>2 DEF IInv, ScriptInv
    <3> QED
      BY Zenon, <2>1, <3>1 DEF Renders
  <2>10. TypeInv'
    <3>1. Len(proc'.pipe) <= PipeSize
      BY SMTT(60), <2>1, <2>2, <2>4, <2>5, BoundsAssumption
    <3> QED BY SMTT(60), <1>1, <2>5, <3>1 DEF IInv, TypeInv
  <2> HIDE DEF x, todo, pipe
  <2>11. ScriptInv'
    <3>1. ASSUME NEW i \in 1..Len(proc'.pipe)
          PROVE  /\ Len(proc'.taken) + i <= Len(Script')
                 /\ Renders(proc.pipe[i], Script[Len(proc.taken) + i])'
      <4>1. CASE i = Len(pipe) + 1
        <5>1. /\ proc'.pipe[i] = x
              /\ Len(proc'.taken) + i = Written + 1
          <6> DEFINE a == Len(proc.taken)
                     b == Len(pipe)
          <6>1. a \in Nat /\ b \in Nat
            BY SMTT(60), <2>2
          <6>2. /\ proc'.pipe[i] = x /\ i = b + 1
                /\ Len(proc'.taken) = a /\ Written = a + b
            BY Zenon, <2>4, <2>5, <4>1 DEF Written, pipe
          <6> HIDE DEF a, b
          <6> QED BY SMTT(60), <6>1, <6>2
        <5>2. Written + 1 <= Len(Script)
          BY SMTT(60), <2>1, <2>2, <2>7 DEF IInv, ScriptInv, todo
        <5> QED
          BY Zenon, <2>6, <2>8, <2>9, <5>1, <5>2
      <4>2. CASE i \in 1..Len(pipe)
        BY Zenon, <2>4, <2>5, <2>6, <2>8, <4>2 DEF IInv, ScriptInv, pipe
      <4> QED
        BY SMTT(60), <2>2, <2>4, <2>5, <4>1, <4>2
    <3>2. Written' + Len(proc'.todo) = Len(Script')
      BY SMTT(60), <2>1, <2>2, <2>3, <2>5, <2>6, <2>7 DEF IInv, ScriptInv, todo
    <3>3. ASSUME NEW i \in 1..Len(proc'.todo)
          PROVE  \/ proc'.todo[i] = Script'[Written' + i]
                 \/ /\ proc'.todo[i].type = "value"
                    /\ Renders(proc.todo[i], Script[Written + i])'
      <4>1. proc'.todo[i] = todo[i + 1] /\ i + 1 \in 1..Len(todo)
        BY SMTT(60), <2>2, <2>3, <2>5
      <4>2. Written' + i = Written + (i + 1)
        BY SMTT(60), <2>7
      <4> QED
        BY Zenon, <2>1, <2>6, <2>8, <4>1, <4>2 DEF IInv, ScriptInv, todo
    <3>4. proc.version \in Versions /\ proc.phase \in Phases
      BY Zenon, <2>1 DEF IInv, ScriptInv
    <3>5. \A i \in 1..Len(proc'.taken) : i <= Len(Script') /\ Renders(proc.taken[i], Script[i])'
      BY Zenon, <2>5, <2>6, <2>8 DEF IInv, ScriptInv
    <3> QED
      BY Zenon, <2>5, <3>1, <3>2, <3>3, <3>4, <3>5 DEF ScriptInv
  <2> QED BY Zenon, <2>10, <2>11
<1> QED
  BY Zenon, <1>2, <1>3

(* A piece goes from the pipe to the shell or a command.                   *)
LEMMA ReadStep ==
    ASSUME IInv, Take PROVE TypeInv' /\ ScriptInv'
<1> DEFINE taken == proc.taken
           pipe == proc.pipe
           x == Head(pipe)
<1>1. UNCHANGED <<recipeOf, present, file, conv, outcome, config, seen>>
  BY Zenon DEF Take, disk, deploy, settings
<1>2. /\ proc.pc = "shell" /\ pipe # <<>>
      /\ proc' = [proc EXCEPT !.taken = Append(taken, x), !.pipe = Tail(pipe),
                           !.busy = TRUE]
  BY Zenon DEF Take
<1>3. /\ taken \in Seq(AnyPiece) /\ pipe \in Seq(AnyPiece) /\ Len(pipe) > 0
      /\ x = pipe[1] /\ x \in AnyPiece
  BY SMTT(60), <1>2 DEF IInv, TypeInv, Processes
<1>4. /\ Tail(pipe) \in Seq(AnyPiece) /\ Len(Tail(pipe)) = Len(pipe) - 1
      /\ \A i \in 1..Len(Tail(pipe)) : Tail(pipe)[i] = pipe[i + 1]
  BY SMTT(60), <1>3
<1>5. /\ Append(taken, x) \in Seq(AnyPiece) /\ Len(Append(taken, x)) = Len(taken) + 1
      /\ \A i \in 1..Len(taken) : Append(taken, x)[i] = taken[i]
      /\ Append(taken, x)[Len(taken) + 1] = x
  BY SMTT(60), <1>3
<1>6. /\ proc' \in Processes
      /\ proc'.pc = "shell" /\ proc'.child = proc.child
      /\ proc'.version = proc.version /\ proc'.phase = proc.phase
      /\ proc'.todo = proc.todo
      /\ proc'.taken = Append(taken, x) /\ proc'.pipe = Tail(pipe)
  BY Zenon, <1>2, <1>4, <1>5 DEF IInv, TypeInv, Processes
<1>7. Script' = Script
  BY Zenon, <1>1, <1>6, SameReading DEF Script
<1>8. Written' = Written
  <2>1. Len(proc'.pipe) = Len(pipe) - 1 /\ Len(proc'.taken) = Len(taken) + 1
    BY Zenon, <1>4, <1>5, <1>6
  <2> DEFINE a == Len(taken)
             b == Len(pipe)
  <2>2. a \in Nat /\ b \in Nat
    BY SMTT(60), <1>3
  <2>3. Written = a + b /\ Written' = (a + 1) + (b - 1)
    BY Zenon, <2>1 DEF Written
  <2> HIDE DEF a, b
  <2> QED BY SMTT(60), <2>2, <2>3
<1>9. \A r, piece : Renders(r, piece)' <=> Renders(r, piece)
  BY Zenon, <1>1 DEF Renders
<1>10. TypeInv'
  <2>1. Len(proc'.pipe) <= PipeSize
    BY SMTT(60), <1>3, <1>4, <1>6, BoundsAssumption DEF IInv, TypeInv
  <2> QED BY SMTT(60), <1>1, <1>6, <2>1 DEF IInv, TypeInv
<1> HIDE DEF x, taken, pipe
<1>11. ASSUME NEW i \in 1..Len(proc'.taken)
       PROVE  i <= Len(Script') /\ Renders(proc.taken[i], Script[i])'
  <2>1. CASE i = Len(taken) + 1
    BY SMTT(60), <1>3, <1>5, <1>6, <1>7, <1>9, <2>1 DEF IInv, ScriptInv, taken, pipe
  <2>2. CASE i \in 1..Len(taken)
    BY Zenon, <1>5, <1>6, <1>7, <1>9, <2>2 DEF IInv, ScriptInv, taken
  <2> QED
    BY SMTT(60), <1>3, <1>5, <1>6, <2>1, <2>2
<1>12. ASSUME NEW i \in 1..Len(proc'.pipe)
       PROVE  /\ Len(proc'.taken) + i <= Len(Script')
              /\ Renders(proc.pipe[i], Script[Len(proc.taken) + i])'
  <2>1. proc'.pipe[i] = pipe[i + 1] /\ i + 1 \in 1..Len(pipe)
    BY SMTT(60), <1>3, <1>4, <1>6
  <2>2. Len(proc'.taken) + i = Len(taken) + (i + 1)
    BY SMTT(60), <1>3, <1>5, <1>6
  <2> QED
    BY Zenon, <1>7, <1>9, <2>1, <2>2 DEF IInv, ScriptInv, taken, pipe
<1>13. ScriptInv'
  BY SMTT(60), <1>2, <1>6, <1>7, <1>8, <1>9, <1>11, <1>12 DEF IInv, ScriptInv
<1> QED
  BY Zenon, <1>10, <1>13

(* A command ends, or the shell ends with it.                              *)
LEMMA CommandStep ==
    ASSUME IInv, CommandEnds \/ ShellExits PROVE TypeInv' /\ ScriptInv'
<1>1. UNCHANGED <<recipeOf, present, file, conv, outcome, config, seen>>
  BY Zenon DEF CommandEnds, ShellExits, disk, deploy, settings
<1>2. /\ proc.pc = "shell" /\ proc.busy
      /\ \/ proc' = [proc EXCEPT !.busy = FALSE]
         \/ \E child \in {"none", "ok", "failed", "killed"} :
               /\ proc' = [proc EXCEPT !.pc = "ended", !.child = child]
               /\ child = "ok" => proc.child = "ok"
  BY Zenon DEF CommandEnds, ShellExits, Exit, IInv, TypeInv, Processes
<1>3. /\ proc' \in Processes
      /\ proc'.version = proc.version /\ proc'.phase = proc.phase
      /\ proc'.taken = proc.taken /\ proc'.pipe = proc.pipe /\ proc'.todo = proc.todo
      /\ \/ proc'.pc = "shell" /\ proc'.child = proc.child
         \/ /\ proc'.pc = "ended" /\ proc'.busy
            /\ proc'.child = "ok" => proc.child = "ok"
  BY ZenonT(60), <1>2 DEF IInv, TypeInv, Processes
<1>4. Script' = Script /\ Written' = Written
  BY Zenon, <1>1, <1>3, SameReading DEF Script, Written
<1>5. \A r, piece : Renders(r, piece)' <=> Renders(r, piece)
  BY Zenon, <1>1 DEF Renders
<1>6. TypeInv'
  BY SMTT(60), <1>1, <1>3 DEF IInv, TypeInv
<1>7. ScriptInv'
  BY Zenon, <1>2, <1>3, <1>4, <1>5 DEF IInv, ScriptInv
<1> QED
  BY Zenon, <1>6, <1>7

(* The shell ends when the pipe is empty and nobody writes.                *)
LEMMA EndStep ==
    ASSUME IInv, ShellEnds PROVE TypeInv' /\ ScriptInv'
<1>1. UNCHANGED <<recipeOf, present, file, conv, outcome, config, seen>>
  BY Zenon DEF ShellEnds, disk, deploy, settings
<1>2. /\ proc.pc = "shell" /\ proc.pipe = <<>>
      /\ proc' = [proc EXCEPT !.pc = "ended", !.child = proc.child]
  BY Zenon DEF ShellEnds, Exit
<1>3. /\ proc' \in Processes
      /\ proc'.pc = "ended" /\ proc'.child = proc.child
      /\ proc'.version = proc.version /\ proc'.phase = proc.phase
      /\ proc'.taken = proc.taken /\ proc'.pipe = proc.pipe /\ proc'.todo = proc.todo
      /\ proc.taken \in Seq(AnyPiece)
  BY Zenon, <1>2 DEF IInv, TypeInv, Processes
<1>4. Script' = Script
  BY Zenon, <1>1, <1>3, SameReading DEF Script
<1>5. \A r, piece : Renders(r, piece)' <=> Renders(r, piece)
  BY Zenon, <1>1 DEF Renders
<1>6. proc.child = "ok" => Len(proc.taken) = Len(Script)
  BY SMTT(60), <1>2, <1>3 DEF IInv, ScriptInv, Written
<1>7. ScriptInv'
  BY Zenon, <1>2, <1>3, <1>4, <1>5, <1>6 DEF IInv, ScriptInv
<1> QED
  BY SMTT(60), <1>1, <1>3, <1>7 DEF IInv, TypeInv

-----------------------------------------------------------------------------
(* Every step keeps the invariant.                                         *)
LEMMA NextIInv == IInv /\ [Next]_vars => IInv'
<1> SUFFICES ASSUME IInv, [Next]_vars PROVE IInv'
  BY Zenon
<1>1. ASSUME UNCHANGED <<recipeOf, file, conv, outcome>> PROVE FileInv' /\ ConvInv'
  BY Zenon, <1>1, SameFiles DEF IInv
<1>2. CASE \/ \E v \in Versions : Begin(v) \/ RemoveRecipe(v)
           \/ Generate \/ create_unit_file \/ Crash
  BY Zenon, <1>2, DeploySteps
<1>3. CASE \/ (\E k \in Kinds : Start(k)) \/ Stop
           \/ RunnerSteps \/ ForkFails \/ ChildSteps \/ ShellSteps \/ CommandSteps
  <2>1. FileInv' /\ ConvInv'
    BY Zenon, <1>1, <1>3
       DEF Start, Stop, RunnerSteps, ChildSteps, ShellSteps, CommandSteps,
           ggipc_connect_auth, runner, OpenRecipe, Fork, ForkFails,
           insert_config_value, WritePiece, ChildEnds, Take, ShellReads, ShellEnds,
           CommandReads, CommandEnds, ShellExits, disk, deploy
  <2>2. ASSUME ChildEnds PROVE TypeInv' /\ ScriptInv'
    BY Zenon, <2>2, ChildDone DEF ChildEnds, Writing, disk, deploy, settings
  <2>3. TypeInv' /\ ScriptInv'
    BY Zenon, <1>3, <2>2, EarlySteps, StartStep, ForkStep, ValueStep, WriteStep, ReadStep,
       CommandStep, EndStep
       DEF RunnerSteps, ChildSteps, ShellSteps, CommandSteps, ShellReads, CommandReads
  <2> QED BY Zenon, <2>1, <2>3 DEF IInv
<1>4. CASE SetConfig
  <2>1. FileInv' /\ ConvInv'
    BY Zenon, <1>1, <1>4 DEF SetConfig, disk, deploy
  <2>2. ScriptInv'
    BY Zenon, <1>4, SameScript DEF SetConfig, disk, IInv
  <2>3. TypeInv'
    BY SMTT(60), <1>4 DEF SetConfig, disk, deploy, IInv, TypeInv
  <2> QED BY Zenon, <2>1, <2>2, <2>3 DEF IInv
<1>5. CASE UNCHANGED vars
  <2>1. FileInv' /\ ConvInv'
    BY Zenon, <1>1, <1>5 DEF vars
  <2>2. ScriptInv'
    BY Zenon, <1>5, SameScript DEF vars, IInv
  <2> QED BY SMTT(60), <1>5, <2>1, <2>2 DEF vars, IInv, TypeInv
<1> QED
  BY Zenon, <1>2, <1>3, <1>4, <1>5 DEF Next

(* The invariant holds in every state.                                     *)
THEOREM Invariance == Spec => []IInv
BY InitIInv, NextIInv, PTL DEF Spec

(* After every successful conversion the units on disk are those of the    *)
(* recipe, for any recipes: recipe2unit takes no error for an absent       *)
(* section, prefers startup to run, and gives root to the sections that    *)
(* ask for it (convert_to_unit, manifest_builder, fetch_script_section).   *)
THEOREM UnitsStayOfRecipe == Spec => []UnitsOfRecipe
<1>1. ASSUME IInv PROVE UnitsOfRecipe
  <2>1. TypeOK
    <3>1. \A k \in Kinds : file[k] \notin {Missing, Bad} => file[k].version \in Versions
      <4> TAKE k \in Kinds
      <4> HAVE file[k] \notin {Missing, Bad}
      <4> PICK v \in Versions : file[k] = [version |-> v, unit |-> Reading(v).unit[k].out]
        BY Zenon, <1>1 DEF IInv, FileInv
      <4> QED BY SMTT(60)
    <3>2. conv.pc \in {"idle", "generate", "write"} /\ conv.kind \in Kinds
      BY Zenon, <1>1 DEF IInv, TypeInv
    <3>3. outcome.ret \in {"none", "OK", "error", "crash"}
      BY Zenon, <1>1 DEF IInv, TypeInv
    <3>4. /\ proc.pc \in {"none", "connect", "environment", "recipe", "fork", "shell",
                          "ended"}
          /\ proc.child \in {"none", "writing", "ok", "failed", "killed"}
          /\ proc.busy \in BOOLEAN
      BY Zenon, <1>1 DEF IInv, TypeInv, Processes
    <3> QED
      BY Zenon, <1>1, <3>1, <3>2, <3>3, <3>4 DEF IInv, TypeInv, TypeOK
  <2>2. outcome.ret = "OK" => \A k \in Kinds : Converted(outcome.version, k)
    BY Zenon, <1>1 DEF IInv, ConvInv
  <2> QED
    BY Zenon, <2>1, <2>2 DEF UnitsOfRecipe, Converted, Section, Privileged
<1> QED
  BY Invariance, <1>1, PTL

(* The shell and its commands are given a beginning of the script and      *)
(* nothing else, and all of it when the child wrote it to its end and the  *)
(* shell came to the end of its input, for any script, any size of the     *)
(* pipe, any commands and any changes of the configuration meanwhile       *)
(* (runner, write_script_with_replacement, insert_config_value).           *)
THEOREM ScriptStaysRun == Spec => []ScriptIsRun
<1>1. ASSUME IInv PROVE ScriptIsRun
  <2>1. proc.taken \in Seq(AnyPiece)
    BY Zenon, <1>1 DEF IInv, TypeInv, Processes
  <2>2. ASSUME proc.taken # <<>> PROVE Len(proc.taken) <= Len(Script)
    <3>1. Len(proc.taken) \in 1..Len(proc.taken)
      BY SMTT(60), <2>1, <2>2
    <3> QED BY Zenon, <1>1, <3>1 DEF IInv, ScriptInv
  <2> QED
    BY Zenon, <1>1, <2>2 DEF IInv, ScriptInv, ScriptIsRun, TakenIsPrefix, WholeScriptTaken, Script
<1> QED
  BY Invariance, <1>1, PTL
=============================================================================
