--------------------------- MODULE MCInstallRelease ---------------------------
(* An instance of InstallRelease for TLC: two runs at once, and a third. *)
EXTENDS InstallRelease, TLC

CONSTANTS r1, r2, r3

AnyRun == Permutations({r1, r2, r3})
==============================================================================
