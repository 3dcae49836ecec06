------------------------------- MODULE MCTPC -------------------------------
(* TLC instances of TPCMaster. *)
EXTENDS TPCMaster, TLC

CONSTANTS s1, s2, k1, k2, v1, v2, big

MCReplicas == (k1 :> <<s1, s2>>) @@ (k2 :> <<s2, s1>>)
MCCacheSet == [k \in {k1, k2} |-> 0]
MCReplicas1 == (k1 :> <<s1, s2>>)
MCCacheSet1 == [k \in {k1} |-> 0]
=============================================================================
