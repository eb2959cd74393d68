--------------------------- MODULE MCProvisioning ---------------------------
(* A small instance of Provisioning for TLC.                               *)
EXTENDS Provisioning, TLC

CONSTANTS s1, s2

MCRootOf == [s \in {s1, s2} |-> IF s = s1 THEN "root1" ELSE "root2"]
=============================================================================
