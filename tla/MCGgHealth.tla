----------------------------- MODULE MCGgHealth -----------------------------
(* GgHealth on a small instance. *)
EXTENDS GgHealth

CONSTANTS c1, c2

AllFaults == {"hangup", "write", "dbus", "torn"}

\* Two clients of one component, or of two: as nothing tells c1 from c2, the
\* first client may as well be the one of c1.
FirstAsksC1 == [h \in Handles |-> IF h = 1 THEN {c1} ELSE Components]

=============================================================================
