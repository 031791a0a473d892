--------------------------- MODULE MCJobsListener ---------------------------
(* Small instances of JobsListener for TLC. *)
EXTENDS JobsListener

TwoJobs == {1, 2}
NoJobs == {}
NoOverlap == {"cancel", "offline", "local", "payload"}

=============================================================================
