----------------------------- MODULE MCBootstrap ----------------------------
(* A small instance of Bootstrap for TLC.                                  *)
EXTENDS Bootstrap, TLC

CONSTANTS s1, s2

MCRootOf == [s \in {s1, s2} |-> IF s = s1 THEN "root1" ELSE "root2"]
=============================================================================
