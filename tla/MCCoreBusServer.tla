-------------------------- MODULE MCCoreBusServer --------------------------
(***************************************************************************)
(* Instances of CoreBusServer for TLC.                                     *)
(***************************************************************************)
EXTENDS CoreBusServer, TLC

CONSTANTS h1, h2, server, r1

TwoHandles == {h1, h2}
OneResponder == {r1}
AllRequests == {"call", "notify", "subscribe", "malformed", "truncated"}
=============================================================================
