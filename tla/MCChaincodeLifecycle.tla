------------------------- MODULE MCChaincodeLifecycle -------------------------
(* Values of ChaincodeLifecycle's constants for TLC. *)
EXTENDS ChaincodeLifecycle, TLC

CONSTANTS o1, o2, p1, p2, v1, v2

Version(s) == IF s = 1 THEN v1 ELSE v2

\* Users first ask for the first definition and may then go on to the second, approve
\* another package or too high a number, or install on another peer.
Initial == [k \in Keys |-> CASE Kind(k) = "install" -> {p1}
                             [] Kind(k) = "approve" -> [seq |-> 1, def |-> v1, pkg |-> 0]
                             [] Kind(k) = "commit" -> [seq |-> 1, def |-> v1]]

Changes == [k \in Keys |->
    CASE Kind(k) = "install" -> {{p2}}
      [] Kind(k) = "approve" -> {[seq |-> s, def |-> Version(s), pkg |-> 0] : s \in 1..MaxSeq}
                                \cup {[seq |-> 1, def |-> v1, pkg |-> Seconds - 1]}
      [] Kind(k) = "commit" -> {[seq |-> s, def |-> Version(s)] : s \in 1..2}]

Resources == {"install", "approve", "commit"} \X {o1}
Install == {<<"install", o1>>}
Separately == {Install, Resources \ Install}
===============================================================================
