------------------------- MODULE DeploymentHandler -------------------------
(***************************************************************************)
(* ggdeploymentd's handler thread (deployment_handler.c): handle_deployment*)
(* with the resolution of versions (component_manager.c,                   *)
(* component_store.c), the unit files (recipe2unit) and the removal of     *)
(* stale components (stale_component.c).                                   *)
(*                                                                         *)
(* What it changes outlives it: the config, the store of recipes and       *)
(* artifacts, the unit files, and systemd.  A deployment may fail at any   *)
(* step and the daemon may crash at any step; later deployments start from *)
(* what is left.                                                           *)
(***************************************************************************)
EXTENDS DependencyResolution, FiniteSets

LOCAL INSTANCE SequencesExt

CONSTANTS
    Components, Versions,
    Recipe,       \* <<component, version>> -> [deps, install, run, ends,
                  \*  artifact, digest]
    Catalog,      \* component -> versions the cloud offers
    Groups,       \* thing groups of the device, as the cloud lists them
    Docs,         \* deployment -> [group, roots, recipes, add]
    Dashed,       \* components whose name has a "-"
    MaxArns,      \* entries of configArn
    MaxDequeues,  \* bound: deployments dequeued
    MaxFaults,    \* bound: faults that happen
    Faults,       \* what may go wrong: "step", "crash", "answer", "broken"
    None, Inactive, Torn

Ids == DOMAIN Docs
Files == Components \X Versions

ASSUME HandlerAssumption ==
    /\ Versions \subseteq Nat /\ Dashed \subseteq Components
    /\ MaxArns \in Nat /\ MaxDequeues \in Nat /\ MaxFaults \in Nat
    /\ Faults \subseteq {"step", "crash", "answer", "broken"}
    /\ {None, Inactive, Torn} \cap (Versions \cup Components) = {}
    /\ \A f \in Files : Recipe[f].artifact \in {"none", "s3", "greengrass"}

\* An empty requirement that is joined to another leaves a blank at the end,
\* and reading such a range is undefined: dependencies have a requirement.
ASSUME RangesAssumption ==
    /\ \A f \in Files : \A i \in DOMAIN Recipe[f].deps :
          Recipe[f].deps[i].range # <<>> /\ ~EndsInBlank(Recipe[f].deps[i].range)
    /\ \A d \in DOMAIN Docs : \A i \in DOMAIN Docs[d].roots :
          ~EndsInBlank(Docs[d].roots[i].range)

VARIABLES
    config,       \* [version, arn, configArn, configuration: per component;
                  \*  roots: per group]
    recipes,      \* packages/recipes: <<c, v>> -> None, Torn or "whole"
    artifacts,    \* packages/artifacts: <<c, v>> -> None, Torn or the version
                  \* of what was downloaded
    units,        \* component -> [run, install]: the versions of its unit files
    linked, enabled,
    loaded,       \* component -> version of the unit systemd has read
    proc,         \* component -> [state, version]: what systemd tells of it
    h,            \* the thread: [pc, id, todo, resolved, k, fresh, updated,
                  \*  installs, files, file, ok, why]
    job,          \* deployment -> the last status reported
    dequeued,     \* count
    faults,       \* count
    clean,        \* history: no fault since this deployment was dequeued
    seen          \* history: the faults that happened

store == <<recipes, artifacts>>
systemd == <<linked, enabled, loaded, proc>>
history == <<dequeued, faults, clean, seen>>
vars == <<config, recipes, artifacts, units, linked, enabled, loaded, proc, h,
          job, dequeued, faults, clean, seen>>

HasArtifact(f) == Recipe[f].artifact # "none"
Stopped == [state |-> "none", version |-> None]
Resting == [pc |-> "idle", id |-> None, todo |-> <<>>, resolved |-> <<>>, k |-> 1,
            fresh |-> FALSE, updated |-> <<>>, installs |-> FALSE, files |-> {},
            file |-> None, ok |-> FALSE, why |-> ""]

Init ==
    /\ config = [version |-> [c \in Components |-> None],
                 arn |-> [c \in Components |-> None],
                 configArn |-> [c \in Components |-> <<>>],
                 configuration |-> [c \in Components |-> None],
                 roots |-> [g \in Range(Groups) |-> <<>>]]
    /\ recipes = [f \in Files |-> None] /\ artifacts = [f \in Files |-> None]
    /\ units = [c \in Components |-> [run |-> None, install |-> None]]
    /\ linked = {} /\ enabled = {}
    /\ loaded = [c \in Components |-> None]
    /\ proc = [c \in Components |-> Stopped]
    /\ h = Resting
    /\ job = [d \in Ids |-> None]
    /\ dequeued = 0 /\ faults = 0 /\ clean = TRUE /\ seen = {}

At(place) == h.pc = place
Go(place) == h' = [h EXCEPT !.pc = place]
Doc == Docs[h.id]

\* The version of a component in a vector of resolved components.
VersionOf(resolved) ==
    [c \in Names(resolved) |-> resolved[IndexOf(resolved, c)].version]

\* Where a deployment was cut short matters for what it leaves.
CleanupPlaces == {"cleanup", "superseded", "removed", "disable", "delete"}
Cut(place) ==
    CASE place \in CleanupPlaces -> "cut_cleanup"
      [] place = "copy_recipe" -> "cut_copy"
      [] place = "local_enable" -> "cut_enable"
      [] OTHER -> "cut"

Fault(kind, tag) ==
    /\ kind \in Faults /\ faults < MaxFaults
    /\ faults' = faults + 1 /\ clean' = FALSE /\ seen' = seen \cup {tag}
    /\ UNCHANGED dequeued

-----------------------------------------------------------------------------
(* ggl_deployment_listen *)

Dequeue(d) ==
    /\ At("idle") /\ dequeued < MaxDequeues
    /\ h' = [Resting EXCEPT !.pc = "merge_recipes", !.id = d, !.files = Docs[d].recipes]
    /\ job' = [job EXCEPT ![d] = "IN_PROGRESS"]
    /\ dequeued' = dequeued + 1 /\ clean' = TRUE
    /\ UNCHANGED <<config, store, units, systemd, faults, seen>>

Report ==
    /\ At("report")
    /\ job' = [job EXCEPT ![h.id] = IF h.ok THEN "SUCCEEDED" ELSE "FAILED"]
    /\ h' = Resting
    /\ UNCHANGED <<config, store, units, systemd, history>>

\* The early returns of handle_deployment.
Fail == h' = [h EXCEPT !.pc = "report", !.ok = FALSE, !.why = h.pc]

-----------------------------------------------------------------------------
(* merge_dir_to, for the recipes and then the artifacts of a local deployment *)

\* cp truncates each file and then writes it.
OpenCopy(f, place) ==
    /\ f \in h.files
    /\ h' = [h EXCEPT !.pc = place, !.file = f, !.files = @ \ {f}]
    /\ UNCHANGED <<config, units, systemd, job, history>>

OpenRecipeCopy(f) ==
    /\ At("merge_recipes") /\ OpenCopy(f, "copy_recipe")
    /\ recipes' = [recipes EXCEPT ![f] = Torn] /\ UNCHANGED artifacts

OpenArtifactCopy(f) ==
    /\ At("merge_artifacts") /\ OpenCopy(f, "copy_artifact")
    /\ artifacts' = [artifacts EXCEPT ![f] = Torn] /\ UNCHANGED recipes

WriteCopy ==
    /\ \/ /\ At("copy_recipe") /\ Go("merge_recipes")
          /\ recipes' = [recipes EXCEPT ![h.file] = "whole"] /\ UNCHANGED artifacts
       \/ /\ At("copy_artifact") /\ Go("merge_artifacts")
          /\ artifacts' = [artifacts EXCEPT ![h.file] = h.file[2]] /\ UNCHANGED recipes
    /\ UNCHANGED <<config, units, systemd, job, history>>

MergeDirs ==
    /\ h.files = {}
    /\ \/ /\ At("merge_recipes")
          /\ h' = [h EXCEPT !.pc = "merge_artifacts", !.file = None,
                            !.files = {f \in Doc.recipes : HasArtifact(f)}]
       \/ /\ At("merge_artifacts")
          /\ h' = [h EXCEPT !.pc = IF Doc.roots # <<>> THEN "roots" ELSE "local",
                            !.file = None]
    /\ UNCHANGED <<config, store, units, systemd, job, history>>

-----------------------------------------------------------------------------
(* resolve_dependencies *)

\* A map is merged into the one in the config: a root that an earlier deployment
\* of the group had, and this one has not, stays (process_map of ggconfigd).
MergeRoot(old, root) ==
    IF root.name \in Names(old) THEN [old EXCEPT ![IndexOf(old, root.name)] = root]
    ELSE Append(old, root)

RootsMerged(roots) ==
    [config EXCEPT !.roots[Doc.group] = FoldLeft(MergeRoot, @, roots)]

\* The group's roots are in the config before anything is resolved.
WriteRoots ==
    /\ At("roots")
    /\ config' = RootsMerged(Doc.roots)
    /\ h' = [h EXCEPT !.pc = "groups", !.todo = Doc.roots]
    /\ UNCHANGED <<store, units, systemd, job, history>>

\* get_device_thing_groups
ThingGroups ==
    LET at == AddGroups(h.todo, Doc.group, Groups, config.roots)
    IN  /\ At("groups")
        /\ IF at.ok THEN h' = [h EXCEPT !.pc = "resolve", !.todo = at.todo] ELSE Fail
        /\ UNCHANGED <<config, store, units, systemd, job, history>>

\* An answer that is JSON but has no list of groups ends the resolution
\* without an error, and with nothing resolved.
BadAnswer ==
    /\ At("groups") /\ Fault("answer", "answer")
    /\ Go("component")
    /\ UNCHANGED <<config, store, units, systemd, job>>

Pending == h.todo[h.k]
More == h.k <= Len(h.todo)

find_active_version(p) ==
    LET v == config.version[p.name]
    IN  {w \in {v} \cap Versions : is_in_range(w, p.range)}

\* iterate_over_components takes the name up to the first "-".
ListedAs(c) == IF c \in Dashed THEN None ELSE c

\* The first file, in the order of the directory, that is in range.
find_available_component(p) ==
    {f[2] : f \in {g \in Files : /\ recipes[g] # None /\ ListedAs(g[1]) = p.name
                                 /\ is_in_range(g[2], p.range)}}

\* Mutant of resolve_component_version: whatever is active will do
AnyActive(p) ==
    LET active == {config.version[p.name]} \cap Versions
    IN  IF active # {} THEN active ELSE find_available_component(p)

resolve_component_version(p) ==
    LET active == find_active_version(p)
    IN  IF active # {} THEN active ELSE find_available_component(p)

Resolve(name, v) == Append(h.resolved, [name |-> name, version |-> v])

ResolveLocally ==
    /\ At("resolve") /\ More
    /\ \E v \in resolve_component_version(Pending) :
         h' = [h EXCEPT !.pc = "depend", !.resolved = Resolve(Pending.name, v)]
    /\ UNCHANGED <<config, store, units, systemd, job, history>>

\* The cloud is asked with the requirements as they stand, and answers with one
\* version that satisfies them, or with "{}".
resolve_component_with_cloud(p) == {v \in Catalog[p.name] : Satisfies(v, p.range)}

\* parse_dataplane_response_and_save_recipe truncates the file, then writes it.
OpenRecipe ==
    /\ At("resolve") /\ More /\ resolve_component_version(Pending) = {}
    /\ \E v \in resolve_component_with_cloud(Pending) :
         /\ recipes' = [recipes EXCEPT ![Pending.name, v] = Torn]
         /\ h' = [h EXCEPT !.pc = "save", !.resolved = Resolve(Pending.name, v)]
    /\ UNCHANGED <<config, artifacts, units, systemd, job, history>>

NotOffered ==
    /\ At("resolve") /\ More /\ resolve_component_version(Pending) = {}
    /\ resolve_component_with_cloud(Pending) = {}
    /\ Fail
    /\ UNCHANGED <<config, store, units, systemd, job, history>>

Current == h.resolved[Len(h.resolved)]

SaveRecipe ==
    /\ At("save")
    /\ recipes' = [recipes EXCEPT ![Current.name, Current.version] = "whole"]
    /\ Go("arn")
    /\ UNCHANGED <<config, artifacts, units, systemd, job, history>>

WriteArn ==
    /\ At("arn")
    /\ config' = [config EXCEPT !.arn[Current.name] = Current.version]
    /\ Go("depend")
    /\ UNCHANGED <<store, units, systemd, job, history>>

\* The dependencies in the recipe, if it can be read.
Depend ==
    LET f == <<Current.name, Current.version>>
        at == AddDependencies(h.todo, Recipe[f].deps, VersionOf(h.resolved))
    IN  /\ At("depend")
        /\ IF recipes[f] = "whole" /\ at.ok
             THEN h' = [h EXCEPT !.pc = "resolve", !.todo = at.todo, !.k = @ + 1]
             ELSE Fail
        /\ UNCHANGED <<config, store, units, systemd, job, history>>

\* Region, credentials, the store's directories and the digest context.
Prepare ==
    /\ At("resolve") /\ ~More
    /\ h' = [h EXCEPT !.pc = "component", !.k = 1]
    /\ UNCHANGED <<config, store, units, systemd, job, history>>

-----------------------------------------------------------------------------
(* Each resolved component: artifacts, unit files, config *)

Item == h.resolved[h.k]
Artifact == <<Item.name, Item.version>>
Left == h.k <= Len(h.resolved)

\* find_artifacts_list; without an arn in the config the artifacts are taken to
\* be there.
Wanted == config.arn[Item.name] # None /\ HasArtifact(Artifact)

\* The file is truncated before it is downloaded, also for a component that
\* has not changed.
Artifacts ==
    /\ At("component") /\ Left
    /\ IF recipes[Artifact] # "whole" THEN Fail /\ UNCHANGED artifacts
       ELSE IF Wanted THEN /\ artifacts' = [artifacts EXCEPT ![Artifact] = Torn]
                           /\ Go("download")
       ELSE Go("unit") /\ UNCHANGED artifacts
    /\ UNCHANGED <<config, recipes, units, systemd, job, history>>

\* An artifact of the Greengrass service is that of the arn; one in S3 has its
\* own URI.
Downloaded ==
    IF Recipe[Artifact].artifact = "greengrass" THEN config.arn[Item.name]
    ELSE Item.version

\* Mutant of DigestOk: the digest is not verified
NoDigest == TRUE

DigestOk == Recipe[Artifact].digest => Downloaded = Item.version

\* get_recipe_artifacts
Download ==
    /\ At("download")
    /\ artifacts' = [artifacts EXCEPT ![Artifact] = Downloaded]
    /\ IF DigestOk THEN Go("unit") ELSE Fail
    /\ UNCHANGED <<config, recipes, units, systemd, job, history>>

\* convert_to_unit: a recipe without an install phase, or without a script to
\* start or run, leaves the unit that is there.
Converted(c, v) ==
    [units EXCEPT ![c].run = IF Recipe[c, v].run THEN v ELSE @,
                  ![c].install = IF Recipe[c, v].install THEN v ELSE @]

GenerateUnit ==
    /\ At("unit")
    /\ units' = Converted(Item.name, Item.version)
    /\ Go("version")
    /\ UNCHANGED <<config, store, systemd, job, history>>

Fresh(c, v) == config.version[c] # v

WriteVersion ==
    /\ At("version")
    /\ config' = [config EXCEPT !.version[Item.name] = Item.version]
    /\ h' = [h EXCEPT !.pc = "configArn", !.fresh = Fresh(Item.name, Item.version)]
    /\ UNCHANGED <<store, units, systemd, job, history>>

\* add_arn_list_to_config: beyond its length, an assertion fails.
ArnFits(c) == h.id \in Range(config.configArn[c]) \/ Len(config.configArn[c]) < MaxArns

ArnAdded(c) ==
    IF h.id \in Range(config.configArn[c]) THEN config
    ELSE [config EXCEPT !.configArn[c] = Append(@, h.id)]

ConfigArn ==
    /\ At("configArn") /\ ArnFits(Item.name)
    /\ config' = ArnAdded(Item.name)
    /\ Go("configuration")
    /\ UNCHANGED <<store, units, systemd, job, history>>

DefaultConfiguration ==
    /\ At("configuration")
    /\ config' = [config EXCEPT !.configuration[Item.name] = Item.version]
    /\ h' = [h EXCEPT !.pc = "component", !.k = @ + 1,
                      !.updated = IF h.fresh THEN Append(@, Item.name) ELSE @]
    /\ UNCHANGED <<store, units, systemd, job, history>>

Configured ==
    /\ At("component") /\ ~Left
    /\ h' = [h EXCEPT !.pc = IF h.updated = <<>> THEN "target" ELSE "install", !.k = 1]
    /\ UNCHANGED <<config, store, units, systemd, job, history>>

-----------------------------------------------------------------------------
(* Install scripts, then the services of the updated components *)

Updated == h.updated[h.k]
MoreUpdated == h.k <= Len(h.updated)
\* Mutant of After: the loop does not advance
Again(place) == Go(place)

After(place) == h' = [h EXCEPT !.pc = place, !.k = @ + 1]

\* systemctl link, enable and daemon-reload all have systemd read the units.
Reads(links) == [c \in Components |-> IF c \in links THEN units[c].run ELSE loaded[c]]

\* An install unit is linked and started if its file is there.
Install ==
    /\ At("install") /\ MoreUpdated
    /\ h' = [h EXCEPT !.k = @ + 1,
                      !.installs = @ \/ units[Updated].install # None]
    /\ UNCHANGED <<config, store, units, systemd, job, history>>

\* Where gghealthd listens, and where wait_for_install_status looks for it.
Listening == {"gg_health"}
InstallInterface == "/aws/ggl/gghealthd"

wait_for_install_status ==
    /\ At("install") /\ ~MoreUpdated
    /\ IF h.installs /\ InstallInterface \notin Listening THEN Fail
       ELSE h' = [h EXCEPT !.pc = "link", !.k = 1]
    /\ UNCHANGED <<config, store, units, systemd, job, history>>

\* systemctl fails to link a file that is not there.
Link ==
    /\ At("link") /\ MoreUpdated
    /\ IF units[Updated].run # None
         THEN linked' = linked \cup {Updated} /\ loaded' = Reads(linked') /\ Go("enable")
         ELSE Fail /\ UNCHANGED <<linked, loaded>>
    /\ UNCHANGED <<config, store, units, enabled, proc, job, history>>

Enable ==
    /\ At("enable")
    /\ enabled' = enabled \cup {Updated}
    /\ loaded' = Reads(linked)
    /\ After("link")
    /\ UNCHANGED <<config, store, units, linked, proc, job, history>>

DaemonReload ==
    /\ At("link") /\ ~MoreUpdated
    /\ loaded' = Reads(linked)
    /\ Go("target")
    /\ UNCHANGED <<config, store, units, linked, enabled, proc, job, history>>

Started(c) == [state |-> "running", version |-> loaded[c]]


\* reset-failed and start greengrass-lite.target: what runs is not restarted, and
\* what has finished runs again.
Starts(c) == c \in enabled /\ proc[c].state # "running"

StartTarget ==
    /\ At("target")
    /\ proc' = [c \in Components |-> IF Starts(c) THEN Started(c) ELSE proc[c]]
    /\ h' = [h EXCEPT !.pc = "wait", !.k = 1]
    /\ UNCHANGED <<config, store, units, linked, enabled, loaded, job, history>>

deployment_status_callback(status) == status \in {"running", "finished"}

\* gghealthd answers RUNNING, FINISHED or BROKEN.  Of a unit that was never
\* started it tells nothing, and the time limit of ggl_sub_response does not end
\* the wait.
Answered == proc[Item.name].state # "none"

wait_for_deployment_status ==
    /\ At("wait") /\ Left /\ Answered
    /\ IF deployment_status_callback(proc[Item.name].state) THEN After("wait") ELSE Fail
    /\ UNCHANGED <<config, store, units, systemd, job, history>>

-----------------------------------------------------------------------------
(* cleanup_stale_versions *)

StartCleanup ==
    /\ At("wait") /\ ~Left
    /\ h' = [h EXCEPT !.pc = "cleanup", !.files = {f \in Files : recipes[f] # None}]
    /\ UNCHANGED <<config, store, units, systemd, job, history>>

Latest == VersionOf(h.resolved)

Keep(f) == ListedAs(f[1]) \in DOMAIN Latest /\ Latest[f[1]] = f[2]

\* Mutant of Superseded: an old version counts as an old component
NeverSuperseded(f) == FALSE

Superseded(f) == ListedAs(f[1]) \in DOMAIN Latest /\ Latest[f[1]] # f[2]

KeepFile(f) ==
    /\ At("cleanup") /\ f \in h.files /\ Keep(f)
    /\ h' = [h EXCEPT !.files = @ \ {f}]
    /\ UNCHANGED <<config, store, units, systemd, job, history>>

\* delete_component_artifact, of one or of all versions, under the name as
\* listed, and delete_component_recipe, which finds the file in any case.
DeletedArtifacts(f) ==
    {g \in Files : /\ ListedAs(f[1]) = g[1]
                   /\ Superseded(f) => g = f}

DeleteFile(f) ==
    /\ At("cleanup") /\ f \in h.files /\ ~Keep(f)
    /\ artifacts' = [g \in Files |-> IF g \in DeletedArtifacts(f) THEN None ELSE artifacts[g]]
    /\ recipes' = [recipes EXCEPT ![f] = None]
    /\ h' = [h EXCEPT !.pc = IF Superseded(f) THEN "superseded" ELSE "removed",
                      !.files = @ \ {f}, !.file = f]
    /\ UNCHANGED <<config, units, systemd, job, history>>

\* Mutant of Deactivated: the config is left
StillActive(c) == config

\* The version in the config becomes "inactive", whichever version was deleted.
Deactivated(c) ==
    IF c = None THEN config ELSE [config EXCEPT !.version[c] = Inactive]

DeactivateSuperseded ==
    /\ At("superseded")
    /\ config' = Deactivated(ListedAs(h.file[1]))
    /\ Go("cleanup")
    /\ UNCHANGED <<store, units, systemd, job, history>>

DeactivateRemoved ==
    /\ At("removed")
    /\ config' = Deactivated(ListedAs(h.file[1]))
    /\ Go("disable")
    /\ UNCHANGED <<store, units, systemd, job, history>>

\* disable_and_unlink_service: stop, disable, and remove the links.
DisableAndUnlink ==
    LET c == ListedAs(h.file[1])
    IN  /\ At("disable")
        /\ proc' = [x \in Components |-> IF x = c THEN Stopped ELSE proc[x]]
        /\ enabled' = enabled \ {c} /\ linked' = linked \ {c}
        /\ Go("delete")
        /\ UNCHANGED <<config, store, units, loaded, job, history>>

\* delete_recipe_script_and_service_files removes the run unit's file only.
DeleteServiceFiles ==
    LET c == ListedAs(h.file[1])
    IN  /\ At("delete")
        /\ units' = [x \in Components |-> IF x = c THEN [units[x] EXCEPT !.run = None]
                                          ELSE units[x]]
        /\ Go("cleanup")
        /\ UNCHANGED <<config, store, systemd, job, history>>

EndCleanup == h' = [h EXCEPT !.pc = "local", !.k = 1, !.files = {}, !.file = None]

\* send_fss_update reads only; its error is logged.
CleanedUp ==
    /\ At("cleanup") /\ h.files = {}
    /\ EndCleanup
    /\ UNCHANGED <<config, store, units, systemd, job, history>>

-----------------------------------------------------------------------------
(* root_component_versions_to_add: the components of a local deployment *)

Added == Doc.add[h.k]
MoreAdded == h.k <= Len(Doc.add)

LocalUnit ==
    /\ At("local") /\ MoreAdded
    /\ IF recipes[Added.name, Added.version] = "whole"
         THEN units' = Converted(Added.name, Added.version) /\ Go("local_version")
         ELSE Fail /\ UNCHANGED units
    /\ UNCHANGED <<config, store, systemd, job, history>>

LocalVersion ==
    /\ At("local_version")
    /\ config' = [config EXCEPT !.version[Added.name] = Added.version]
    /\ Go("local_arn")
    /\ UNCHANGED <<store, units, systemd, job, history>>

LocalArn ==
    /\ At("local_arn") /\ ArnFits(Added.name)
    /\ config' = ArnAdded(Added.name)
    /\ Go("local_config")
    /\ UNCHANGED <<store, units, systemd, job, history>>

LocalConfiguration ==
    /\ At("local_config")
    /\ config' = [config EXCEPT !.configuration[Added.name] = Added.version]
    /\ Go("local_link")
    /\ UNCHANGED <<store, units, systemd, job, history>>

LocalLink ==
    /\ At("local_link")
    /\ IF units[Added.name].run # None
         THEN /\ linked' = linked \cup {Added.name} /\ loaded' = Reads(linked')
              /\ Go("local_start")
         ELSE Fail /\ UNCHANGED <<linked, loaded>>
    /\ UNCHANGED <<config, store, units, enabled, proc, job, history>>

LocalStart ==
    /\ At("local_start")
    /\ proc' = [proc EXCEPT ![Added.name] = IF @.state = "running" THEN @
                                             ELSE Started(Added.name)]
    /\ Go("local_enable")
    /\ UNCHANGED <<config, store, units, linked, enabled, loaded, job, history>>

LocalEnable ==
    /\ At("local_enable")
    /\ enabled' = enabled \cup {Added.name}
    /\ loaded' = Reads(linked)
    /\ After("local")
    /\ UNCHANGED <<config, store, units, linked, proc, job, history>>

Succeed ==
    /\ At("local") /\ ~MoreAdded
    /\ h' = [h EXCEPT !.pc = "report", !.ok = TRUE]
    /\ UNCHANGED <<config, store, units, systemd, job, history>>

-----------------------------------------------------------------------------
(* Failing steps and crashes *)

\* Failures whose return code ends the deployment, before the step's effect.
Fallible ==
    {"merge_recipes", "copy_recipe", "merge_artifacts", "copy_artifact", "groups",
     "resolve", "save", "arn", "depend", "component", "download", "unit", "version",
     "configArn", "configuration", "install", "link", "enable", "wait", "local",
     "local_version", "local_arn", "local_config", "local_link", "local_start",
     "local_enable"}

StepFails ==
    /\ h.pc \in Fallible /\ Fault("step", Cut(h.pc))
    /\ h.pc \in {"component", "wait"} => Left
    /\ At("local") => MoreAdded
    /\ Fail
    /\ UNCHANGED <<config, store, units, systemd, job>>

\* A write of several roots may fail after some of them.
RootsFail ==
    /\ At("roots") /\ Fault("step", Cut(h.pc))
    /\ \E n \in 0 .. Len(Doc.roots) - 1 : config' = RootsMerged(SubSeq(Doc.roots, 1, n))
    /\ Fail
    /\ UNCHANGED <<store, units, systemd, job>>

\* The return code of starting the target is not looked at.
TargetFails ==
    /\ At("target") /\ Fault("step", "cut")
    /\ h' = [h EXCEPT !.pc = "wait", !.k = 1]
    /\ UNCHANGED <<config, store, units, systemd, job>>

\* Nor are those of the cleanup: the recipe directory cannot be opened or read on,
\* or one of the steps for a file fails.
CleanupStepFails ==
    /\ Fault("step", "cut_cleanup")
    /\ \/ (At("wait") /\ ~Left) /\ EndCleanup
       \/ (At("cleanup") /\ h.files # {}) /\ EndCleanup
       \/ /\ At("cleanup")
          /\ \E f \in h.files :
               ~Keep(f) /\ h' = [h EXCEPT !.pc = IF Superseded(f) THEN "cleanup" ELSE "disable",
                                          !.files = @ \ {f}, !.file = f]
       \/ h.pc \in {"superseded", "delete"} /\ Go("cleanup")
       \/ At("removed") /\ Go("disable")
       \/ At("disable") /\ Go("delete")
    /\ UNCHANGED <<config, store, units, systemd, job>>

\* The daemon crashes; its jobs are still in progress for the cloud.
Crash ==
    /\ ~At("idle") /\ Fault("crash", Cut(h.pc))
    /\ h' = Resting
    /\ UNCHANGED <<config, store, units, systemd, job>>

\* The assertion on the length of configArn.
Abort ==
    LET c == IF At("local_arn") THEN Added.name ELSE Item.name
    IN  /\ h.pc \in {"configArn", "local_arn"} /\ ~ArnFits(c)
        /\ h' = Resting
        /\ clean' = FALSE /\ seen' = seen \cup {"abort"}
        /\ UNCHANGED <<config, store, units, systemd, job, dequeued, faults>>

\* A component fails after all of its restarts.
Breaks(c) ==
    /\ proc[c].state = "running" /\ Fault("broken", "broken")
    /\ proc' = [proc EXCEPT ![c].state = "broken"]
    /\ UNCHANGED <<config, store, units, linked, enabled, loaded, h, job>>

\* A script of a component that is done.
Finishes(c) ==
    /\ proc[c].state = "running" /\ proc[c].version # None
    /\ Recipe[c, proc[c].version].ends
    /\ proc' = [proc EXCEPT ![c].state = "finished"]
    /\ UNCHANGED <<config, store, units, linked, enabled, loaded, h, job, history>>

-----------------------------------------------------------------------------

ResolutionStep ==
    \/ MergeDirs \/ WriteCopy \/ (\E f \in Files : OpenRecipeCopy(f) \/ OpenArtifactCopy(f))
    \/ WriteRoots \/ ThingGroups \/ ResolveLocally \/ OpenRecipe
    \/ NotOffered \/ SaveRecipe \/ WriteArn \/ Depend \/ Prepare
ComponentStep ==
    \/ Artifacts \/ Download \/ GenerateUnit \/ WriteVersion \/ ConfigArn
    \/ DefaultConfiguration \/ Configured
ServiceStep ==
    \/ Install \/ wait_for_install_status \/ Link \/ Enable \/ DaemonReload
    \/ StartTarget \/ wait_for_deployment_status
CleanupStep ==
    \/ StartCleanup \/ DeactivateSuperseded \/ DeactivateRemoved \/ DisableAndUnlink
    \/ DeleteServiceFiles \/ CleanedUp
    \/ \E f \in Files : KeepFile(f) \/ DeleteFile(f)
LocalStep ==
    \/ LocalUnit \/ LocalVersion \/ LocalArn \/ LocalConfiguration \/ LocalLink
    \/ LocalStart \/ LocalEnable \/ Succeed
HandlerStep ==
    \/ ResolutionStep \/ ComponentStep \/ ServiceStep \/ CleanupStep \/ LocalStep
    \/ Report \/ Abort

FaultStep ==
    \/ StepFails \/ RootsFail \/ TargetFails \/ CleanupStepFails \/ Crash \/ BadAnswer
    \/ \E c \in Components : Breaks(c)

Next ==
    \/ HandlerStep \/ FaultStep
    \/ \E d \in Ids : Dequeue(d)
    \/ \E c \in Components : Finishes(c)

Spec == Init /\ [][Next]_vars

\* The thread is not stopped, and the calls it makes return, the one in
\* wait_for_deployment_status only when there is an answer.
FairSpec == Spec /\ WF_vars(HandlerStep)

-----------------------------------------------------------------------------
(* Properties *)

\* The type invariant.
TypeOK ==
    /\ config.version \in [Components -> Versions \cup {None, Inactive}]
    /\ config.arn \in [Components -> Versions \cup {None}]
    /\ \A c \in Components : /\ Range(config.configArn[c]) \subseteq Ids
                             /\ Len(config.configArn[c]) <= MaxArns
    /\ recipes \in [Files -> {None, Torn, "whole"}]
    /\ artifacts \in [Files -> Versions \cup {None, Torn}]
    /\ enabled \subseteq linked /\ linked \subseteq Components
    /\ loaded \in [Components -> Versions \cup {None}]
    /\ h.id \in Ids \cup {None} /\ h.ok \in BOOLEAN
    /\ Names(h.resolved) \subseteq Components

Resolved == At("component") \/ (At("report") /\ h.ok)

\* The requirements a resolution has to meet.
Required ==
    Range(Doc.roots)
      \cup UNION {Range(config.roots[g]) : g \in Range(Groups) \ {Doc.group}}
      \cup UNION {Range(Recipe[r.name, r.version].deps) : r \in Range(h.resolved)}

\* Although components are resolved one after the other and requirements keep
\* coming in, a resolution that ends has one version of each component, every
\* component a root or a recipe asks for is in it, and its version satisfies
\* everybody who asks, later dependents included, and the other thing groups with
\* all that deployments of theirs have ever asked for.
ResolvedIsConsistent ==
    /\ TypeOK
    /\ Resolved /\ h.resolved # <<>> =>
      /\ Cardinality(Names(h.resolved)) = Len(h.resolved)
      /\ \A r \in Required : /\ r.name \in DOMAIN Latest
                             /\ Satisfies(Latest[r.name], r.range)

Succeeded == At("report") /\ h.ok

\* A deployment is reported as succeeded only if each of its components has
\* been started and has not failed, has its recipe in the store and a unit file of
\* the resolved version, and is enabled, so that it also runs after a reboot.
\* The exceptions: a version without a script leaves the unit file of another
\* version, which is then what runs; a component with "-" in its name loses its
\* recipe; and one started by a local deployment that was cut short just before
\* "systemctl enable" passes for deployed.
SucceededIsDeployed ==
    Succeeded => \A r \in Range(h.resolved) :
      /\ proc[r.name].state \in {"running", "finished"} \/ "broken" \in seen
      /\ IF Recipe[r.name, r.version].run THEN units[r.name].run = r.version
         ELSE units[r.name].run # None
      /\ r.name \in enabled \/ "cut_enable" \in seen
      /\ recipes[r.name, r.version] = "whole" \/ r.name \in Dashed

\* The artifacts of a component that came from the cloud and whose recipe has
\* digests are there and are those of its version, whatever earlier
\* deployments have left half done.
ArtifactsAreRight ==
    Succeeded => \A r \in Range(h.resolved) :
      LET f == <<r.name, r.version>>
      IN  config.arn[r.name] # None /\ Recipe[f].digest /\ Recipe[f].artifact # "none"
            => artifacts[f] = r.version

\* After a deployment from the cloud nothing else is in the store or runs,
\* unless a cleanup was cut short.
StaleIsGone ==
    Succeeded /\ Doc.add = <<>> /\ "cut_cleanup" \notin seen =>
      /\ \A f \in Files : recipes[f] # None => <<f[1], f[2]>> \in
                           {<<r.name, r.version>> : r \in Range(h.resolved)}
      /\ \A c \in Components : proc[c].state # "none" => c \in Names(h.resolved) \cup Dashed

\* What the report of a success means for the device.
SuccessIsTrue == SucceededIsDeployed /\ ArtifactsAreRight /\ StaleIsGone

\* The version in the config is what the next resolution takes without looking
\* at the store: its recipe is there, unless a cleanup was cut short between
\* the recipe and the config.  It is whole, but for the time when a local
\* deployment copies it again, and for ever when that copy is cut short.
ActiveHasRecipe ==
    h.pc \notin CleanupPlaces /\ "cut_cleanup" \notin seen =>
      \A c \in Components \ Dashed : config.version[c] \in Versions =>
        LET f == <<c, config.version[c]>>
        IN  /\ recipes[f] # None
            /\ recipes[f] = Torn => "cut_copy" \in seen \/ (At("copy_recipe") /\ h.file = f)

\* The handler waits for a component that was never started.
Stalled == At("wait") /\ Left /\ ~Answered


\* A deployment never stops a component it asks for, unless the list of thing
\* groups was not a list: then it resolves nothing and removes everything.
NeverStopsItsOwn ==
    [][\A c \in Components :
         proc[c].state # "none" /\ proc'[c].state = "none" =>
           c \notin Names(Doc.roots) \/ "answer" \in seen]_vars

\* Every deployment that is taken from the queue is reported in the end, unless
\* the daemon crashes or the handler waits for a component that was never started.
EveryDeploymentIsReported ==
    \A d \in Ids :
      job[d] = "IN_PROGRESS" ~> (job[d] # "IN_PROGRESS" \/ At("idle") \/ Stalled)

-----------------------------------------------------------------------------
(* Promises that do not hold: the first once a component is deployed by more *)
(* groups than configArn has room for, the second once it is deployed in a   *)
(* new version, the third after a deployment with an install script, and the *)
(* fourth once a group has dropped a root.                                   *)

\* configArn never grows beyond what the code has room for.
AssertsHold == "abort" \notin seen

\* The version in the config is that of the component a deployment has just
\* brought up: it is the source of truth for what is active.
VersionIsActive ==
    Succeeded /\ seen = {} => \A r \in Range(h.resolved) :
      config.version[r.name] = r.version

\* The wait for a component ends, after 300 s at the latest.
WaitEnds == Stalled ~> ~Stalled

\* What the config has as the roots of a group is what its deployment asked for.
RootsAreLatest ==
    Succeeded /\ seen = {} /\ Doc.roots # <<>> =>
      Names(config.roots[Doc.group]) = Names(Doc.roots)

=============================================================================
