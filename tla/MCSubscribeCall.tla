-------------------------- MODULE MCSubscribeCall --------------------------
(***************************************************************************)
(* Instances of SubscribeCall for TLC.                                     *)
(***************************************************************************)
EXTENDS SubscribeCall

CONSTANTS c1, c2

OneCaller == {c1}
TwoCallers == {c1, c2}
=============================================================================
