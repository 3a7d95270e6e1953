------------------------------- MODULE MCChannel -------------------------------
(* Values of Channel's constants for TLC. *)
EXTENDS Channel, TLC

CONSTANTS o1, o2, a, b, g1, g2, g3, x, y

Base == [orgs |-> {a}, caps |-> "V2_0", state |-> "normal", join |-> Orderers]

\* The user adds organization b with newer capabilities and takes both back, goes into
\* maintenance mode and leaves it ...
Changing == {Base, [Base EXCEPT !.orgs = {a, b}, !.caps = "V2_5"],
             [Base EXCEPT !.state = "maintenance"]}

\* ... or adds b, has o1 join alone, or goes into maintenance mode.
Mixed == {[Base EXCEPT !.orgs = {a, b}], [Base EXCEPT !.join = {o1}],
          [Base EXCEPT !.state = "maintenance"]}

GenSymmetry == Permutations(Gens)
=============================================================================
