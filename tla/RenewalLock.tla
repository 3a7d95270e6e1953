----------------------------- MODULE RenewalLock -----------------------------
(***************************************************************************)
(* What the lease promises to the reconcilers of one kind of node: new     *)
(* certificates are wanted for some nodes, one node at a time works on     *)
(* them, only because it wanted them, and only the node at work can take   *)
(* its own name off the list.  Work may be given up (an error, a crash)    *)
(* with the node still on the list.                                        *)
(***************************************************************************)
CONSTANT Nodes

VARIABLES
    wanted,     \* nodes whose certificates are to be renewed
    working     \* the node at work: at most one

Init == wanted = {} /\ working = {}

\* New certificates are asked for, or some are near their end.
Ask(n) == wanted' = wanted \cup {n} /\ UNCHANGED working

\* A node starts on its certificates while no other is at work.
Enter(n) == /\ n \in wanted /\ working = {}
            /\ working' = {n} /\ UNCHANGED wanted

\* The node at work has what it wanted, and may stop.
Serve(n) == /\ n \in working /\ wanted' = wanted \ {n}
            /\ working' \in {working, {}}

\* It stops, done or not.
Leave == working' = {} /\ UNCHANGED wanted

Next == Leave \/ \E n \in Nodes : Ask(n) \/ Enter(n) \/ Serve(n)

Spec == Init /\ [][Next]_<<wanted, working>>
=============================================================================
