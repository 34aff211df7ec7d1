--------------------------- MODULE MCProvisioning ---------------------------
(* An instance of Provisioning for TLC *)
EXTENDS Provisioning

CONSTANTS h1, h2, r1, w1, w2

(* The second worker is on a host of its own *)
TwoHosts == [p \in Requests \cup Workers |-> IF p = w2 THEN h2 ELSE h1]
=============================================================================
