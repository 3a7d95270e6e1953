----------------------------- MODULE ChannelLedger -----------------------------
(***************************************************************************)
(* What the channel controllers promise about one Fabric channel: it is    *)
(* created once, with no anchor peers; its configuration is changed by     *)
(* the main channel, which leaves the anchor peers of the organizations    *)
(* that stay alone, and by each organization, which changes its own.       *)
(***************************************************************************)
CONSTANTS Orgs, None

VARIABLES
    created,    \* the genesis block, in a set: empty before there is one
    conf        \* the configuration: orgs, anchors, caps, state

Init == created = {} /\ conf.orgs = {}

Create == /\ created = {} /\ \E g \in created' : created' = {g}
          /\ \A k \in Orgs : conf'.anchors[k] = None

\* The organizations, the capabilities or the consensus state change.
Administer == /\ created # {} /\ UNCHANGED created
              /\ \A k \in conf.orgs \cap conf'.orgs : conf'.anchors[k] = conf.anchors[k]

\* An organization of the channel sets its anchor peers.
SetAnchors(k) == /\ k \in conf.orgs /\ UNCHANGED created
                 /\ conf' = [conf EXCEPT !.anchors[k] = conf'.anchors[k]]

Next == Create \/ Administer \/ \E k \in Orgs : SetAnchors(k)

Spec == Init /\ [][Next]_<<created, conf>>
=============================================================================
