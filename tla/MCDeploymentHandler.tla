-------------------- MODULE MCDeploymentHandler --------------------
(***************************************************************************)
(* An application a that needs a library b, whose first version has a      *)
(* script that ends and whose second has none, a component d with a dash   *)
(* in its name, and one, e, with an install script.                        *)
(***************************************************************************)
EXTENDS DeploymentHandler

CONSTANTS a, b, d, e, m1, m2, m3, m4, m5, g1, g2

Root(c, range) == [name |-> c, range |-> range]
Plain == [deps |-> <<>>, install |-> FALSE, run |-> TRUE, ends |-> FALSE,
          artifact |-> "none", digest |-> FALSE]

MCVersions == 1 .. 2
MCComponents == {a, b, d, e}
MCRecipe ==
    [f \in MCComponents \X MCVersions |->
       CASE f = <<a, 1>> -> [Plain EXCEPT !.deps = <<Root(b, <<Cmp(">=", 1)>>)>>,
                                          !.artifact = "greengrass", !.digest = TRUE]
         [] f = <<a, 2>> -> [Plain EXCEPT !.deps = <<Root(b, <<Cmp("=", 2)>>)>>,
                                          !.artifact = "greengrass", !.digest = TRUE]
         [] f = <<b, 1>> -> [Plain EXCEPT !.artifact = "s3", !.ends = TRUE]
         [] f = <<b, 2>> -> [Plain EXCEPT !.artifact = "s3", !.digest = TRUE, !.run = FALSE]
         [] f = <<e, 1>> -> [Plain EXCEPT !.install = TRUE]
         [] OTHER -> Plain]
MCCatalog == [c \in MCComponents |-> IF c \in {d, e} THEN {1} ELSE {1, 2}]
MCGroups == <<g1, g2>>
MCDocs ==
    [i \in {m1, m2, m3, m4, m5} |->
       CASE i = m1 -> [group |-> g1, roots |-> <<Root(a, <<Cmp("", 1)>>)>>,
                       recipes |-> {}, add |-> <<>>]
         [] i = m2 -> [group |-> g1, roots |-> <<Root(a, <<Cmp("", 2)>>)>>,
                       recipes |-> {}, add |-> <<>>]
         [] i = m3 -> [group |-> g2, roots |-> <<Root(d, <<>>), Root(b, <<Cmp("<=", 1)>>)>>,
                       recipes |-> {}, add |-> <<>>]
         [] i = m5 -> [group |-> g2, roots |-> <<Root(e, <<>>)>>,
                       recipes |-> {}, add |-> <<>>]
         [] OTHER  -> [group |-> None, roots |-> <<>>, recipes |-> {<<b, 1>>},
                       add |-> <<[name |-> b, version |-> 1]>>]]

-----------------------------------------------------------------------------
(* The scan of a range against its meaning.                                  *)

One == {<<Cmp(op, n)>> : op \in Ops, n \in 1 .. 2}
Two == {Joined(x, y) : x, y \in One}

\* However many requirements have been joined, the scan accepts a version when
\* each of them does; nothing is in range once a requirement was joined to an
\* empty one, since the range then starts with a blank (is_in_range,
\* resolve_dependencies).
ASSUME RangeAgrees ==
    \A version \in 0 .. 3 :
      /\ \A range \in {<<>>} \cup One \cup Two \cup {Joined(x, y) : x \in Two, y \in One} :
           is_in_range(version, range) = Satisfies(version, range)
      /\ \A range \in One : ~is_in_range(version, Joined(<<>>, range))

=============================================================================
