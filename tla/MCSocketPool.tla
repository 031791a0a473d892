---------------------------- MODULE MCSocketPool ----------------------------
(* SocketPool on small instances.  Threads are interchangeable: no action   *)
(* and no property tells one from another.                                  *)
EXTENDS SocketPool, TLC

CONSTANTS t1, t2

MCThreads == {t1, t2}
Symmetry == Permutations(MCThreads)
=============================================================================
