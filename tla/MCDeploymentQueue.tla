------------------------- MODULE MCDeploymentQueue --------------------------
(* DeploymentQueue on a small instance. *)
EXTENDS DeploymentQueue

CONSTANTS bus, jobs, i1, i2, i3, d1, d2

TwoEnqueuers == {bus, jobs}
ThreeIds == {i1, i2, i3}
TwoDocs == {d1, d2}
=============================================================================
