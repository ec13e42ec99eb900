--------------------------- MODULE MCProvisioning ---------------------------
(* Small instances of Provisioning. *)
EXTENDS ProvisioningLife, TLC

CONSTANTS k1, k2, w1, w2, s1, s2, s3

Symmetry == Permutations({k1, k2}) \cup Permutations({w1, w2}) \cup Permutations({s1, s2, s3})
=============================================================================
