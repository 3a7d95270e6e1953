---------------------------- MODULE MCCertRenewal ----------------------------
(* Values of CertRenewal's constants for TLC. *)
EXTENDS CertRenewal, TLC

CONSTANTS n1, n2

OwnIdentity == [n \in Nodes |-> n]          \* POD_NAME unset: one holder per node

Symmetry == Permutations(Nodes)
=============================================================================
