------------------------ MODULE DependencyResolution ------------------------
(***************************************************************************)
(* The steps of resolve_dependencies (deployment_handler.c) that work on   *)
(* the vector components_to_resolve: the roots of the deployment, the      *)
(* roots of the device's other thing groups, the dependencies of a recipe. *)
(*                                                                         *)
(* A vector is a sequence of [name, range]; ranges are those of Semver.    *)
(***************************************************************************)
EXTENDS Semver

LOCAL INSTANCE SequencesExt

CONSTANT Capacity    \* of components_to_resolve: 64

\* What a step leaves: it fails, or the vector goes on.
Bad == [ok |-> FALSE, todo |-> <<>>]
Good(todo) == [ok |-> TRUE, todo |-> todo]

Names(pairs) == {pairs[i].name : i \in DOMAIN pairs}
IndexOf(pairs, name) == CHOOSE i \in DOMAIN pairs : pairs[i].name = name

\* A root of another group must ask for the same range as the one already in
\* the vector, or the groups are in conflict.  That the vector is full goes
\* unnoticed.
AddRoot(at, root) ==
    IF ~at.ok THEN Bad
    ELSE IF root.name \notin Names(at.todo)
      THEN IF Len(at.todo) < Capacity THEN Good(Append(at.todo, root)) ELSE at
    ELSE IF at.todo[IndexOf(at.todo, root.name)].range = root.range THEN at
    ELSE Bad

\* The groups are those the cloud lists, in its order; one without roots in the
\* config adds nothing.
AddGroups(todo, own, list, roots) ==
    LET others == SelectSeq(list, LAMBDA g : g # own)
    IN  FoldLeft(LAMBDA at, g : FoldLeft(AddRoot, at, roots[g]), Good(todo), others)

\* The requirements of several dependents are joined with a blank, also when
\* the first of them is empty.
Joined(old, new) == old \o <<Blank>> \o new

\* A dependency that is resolved must be in range, one that waits gets the
\* requirement appended, and any other is added.
AddDependency(at, dependency, resolved) ==
    LET name == dependency.name
        i == IndexOf(at.todo, name)
    IN  IF ~at.ok THEN Bad
        ELSE IF name \in DOMAIN resolved
          THEN IF is_in_range(resolved[name], dependency.range) THEN at ELSE Bad
        ELSE IF name \in Names(at.todo)
          THEN [at EXCEPT !.todo[i].range = Joined(@, dependency.range)]
        ELSE IF Len(at.todo) < Capacity THEN Good(Append(at.todo, dependency))
        ELSE Bad

\* resolved: name -> version, with the component whose recipe this is.
AddDependencies(todo, dependencies, resolved) ==
    FoldLeft(LAMBDA at, d : AddDependency(at, d, resolved), Good(todo), dependencies)

=============================================================================
