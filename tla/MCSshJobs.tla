------------------------------ MODULE MCSshJobs ------------------------------
(* Instances of SshJobs for TLC. *)
EXTENDS SshJobs, TLC

CONSTANTS c1, c2, unit

MCClient1 == {c1}
MCClient2 == {c1, c2}
ClientSymmetry == Permutations(MCClient2)

(* A crash or an answer that expires; nobody reads a receipt. *)
OneFault == "receipt" \notin expired /\ (crashes = 0 \/ expired = {})
==============================================================================
