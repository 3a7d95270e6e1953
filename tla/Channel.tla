-------------------------------- MODULE Channel --------------------------------
(***************************************************************************)
(* One Fabric channel and the two kinds of custom resources that manage it: *)
(* the main channel (controllers/mainchannel/mainchannel_controller.go),    *)
(* which creates it, joins orderers and updates its configuration, and the  *)
(* follower channel of each organization (controllers/followerchannel/      *)
(* followerchannel_controller.go), which joins the organization's peers and *)
(* sets its anchor peers.                                                   *)
(*                                                                          *)
(* The orderers are external: ledger[o] is the genesis block orderer o has  *)
(* joined with, chain[g] the configuration of the channel that starts with  *)
(* g.  A configuration update says which elements it changes and which it   *)
(* relies on; it is accepted if none of those changed since it was          *)
(* computed (current[k]: what has not changed since worker k read).         *)
(***************************************************************************)
EXTENDS Integers, FiniteSets

CONSTANTS
    Orgs,          \* peer organizations
    Orderers,      \* orderers the main channel may be asked to join
    Gens,          \* genesis blocks
    Anchors,       \* lists of anchor peers, none of them empty
    None,          \* no genesis block, no anchor peers
    Main,          \* the main channel's custom resource
    Followers,     \* the organizations that have a follower channel
    First,         \* the spec the main channel is created with
    Choices,       \* the specs users may change it to
    ReadQuorum,    \* orderers of one genesis block before they answer queries
    WriteQuorum,   \* and before they accept updates
    BFT,           \* the orderer type is BFT ...
    Consenters,    \* ... with that many entries in consenterMapping
    MayDelete,     \* users may delete custom resources
    Faulty,        \* the calls that may fail
    MaxEdits,      \* bound: updates and deletions of custom resources
    MaxFaults,     \* bound: failed or unanswered calls
    MaxCrashes,    \* bound: restarts of the operator
    MaxTotal       \* bound: all of these together

States == {"normal", "maintenance"}
Capabilities == {"V2_0", "V2_5"}

\* What a main channel's spec says that the channel has: application
\* organizations, capabilities, consensus state; and the orderers to be joined.
ChannelSpec == [orgs : SUBSET Orgs, caps : Capabilities, state : States,
                join : SUBSET Orderers]

Keys == {Main} \cup Followers

ASSUME KeyAssumption == Main \notin Orgs /\ Followers \subseteq Orgs
ASSUME NoneAssumption == None \notin Gens \cup Anchors
ASSUME ChoiceAssumption == {First} \cup Choices \subseteq ChannelSpec
ASSUME QuorumAssumption == /\ {ReadQuorum, WriteQuorum} \subseteq Nat \ {0}
                           /\ Consenters \in Nat
ASSUME FlagAssumption == {BFT, MayDelete} \subseteq BOOLEAN
ASSUME LimitAssumption == {MaxEdits, MaxFaults, MaxCrashes, MaxTotal} \subseteq Nat
ASSUME OrderersFinite == IsFiniteSet(Orderers)

VARIABLES
    cr,                                \* API server: the custom resources
    cache, synced, queue,              \* informer cache and work queues
    ledger, chain, peer,               \* orderers, channel, an organization's peers
    pc, obj, objFresh,                 \* the worker of each resource
    block, todo,                       \* main: new genesis block, orderers to join
    seen, current,                     \* configuration read, what of it still holds
    edits, faults, crashes             \* what the bounds bound

cacheVars == <<cache, synced, queue>>
fabricVars == <<ledger, chain, peer>>
workVars == <<pc, obj, objFresh, block, todo, seen, current>>
envVars == <<edits, faults, crashes>>
vars == <<cr, cacheVars, fabricVars, workVars, envVars>>

Specs(k) == IF k = Main THEN {First} \cup Choices ELSE Anchors \cup {None}

AnySpec == ChannelSpec \cup Anchors \cup {None}

Object(specs) == [spec : specs, status : {"", "Running", "Failed"},
                  phase : {"new", "managed", "deleting", "gone"}]

\* The empty object a reconcile starts with.
Blank == [spec |-> None, status |-> "", phase |-> "new"]

Configuration == [orgs : SUBSET Orgs, anchors : [Orgs -> Anchors \cup {None}],
                  caps : Capabilities, state : States]

\* mapToConfigTX and NewApplicationChannelGenesisBlock: no organization has anchor
\* peers yet.  The block carries a nonce: no two genesis blocks are equal.
Genesis(s) == [orgs |-> s.orgs, anchors |-> [g \in Orgs |-> None],
               caps |-> s.caps, state |-> s.state]

Empty == [orgs |-> {}, anchors |-> [g \in Orgs |-> None],
          caps |-> "V2_0", state |-> "normal"]

Labels == {"idle", "panic", "adopt", "finalize", "query", "create", "join", "requery",
           "fetch", "joinPeer", "submit", "finish", "fail"}

Init ==
    /\ \E a \in [Followers -> Anchors] :
          cr = [k \in Keys |-> [spec |-> IF k = Main THEN First ELSE a[k],
                                status |-> "", phase |-> "new"]]
    /\ cache = cr /\ synced = Keys /\ queue = Keys
    /\ ledger = [o \in Orderers |-> None]
    /\ chain = [g \in Gens |-> Empty]
    /\ peer = [k \in Followers |-> None]
    /\ pc = [k \in Keys |-> "idle"] /\ obj = [k \in Keys |-> Blank] /\ objFresh = {}
    /\ block = None /\ todo = {}
    /\ seen = [k \in Keys |-> [gen |-> None, conf |-> Empty]]
    /\ current = [k \in Keys |-> {}]
    /\ edits = 0 /\ faults = 0 /\ crashes = 0

-----------------------------------------------------------------------------
(* Elements of a configuration and their versions.                         *)

\* The Application group, the channel's capabilities, the orderer group, and of an
\* organization its group and the value that lists its anchor peers.
Elements == {<<"app">>, <<"caps">>, <<"orderer">>}
            \cup ({"group", "anchors"} \X Orgs)

Kept(old, new) == old.orgs \cap new.orgs
Touched(old, new) == {g \in Kept(old, new) : old.anchors[g] # new.anchors[g]}

\* Elements whose version an update from old to new raises.  A group's own version
\* is raised when it gains or loses a member.
Changed(old, new) ==
    LET moved == (old.orgs \cup new.orgs) \ Kept(old, new)
        regrouped == {g \in Touched(old, new) : None \in {old.anchors[g], new.anchors[g]}}
    IN  (IF moved # {} THEN {<<"app">>} ELSE {})
        \cup (IF old.caps # new.caps THEN {<<"caps">>} ELSE {})
        \cup (IF old.state # new.state THEN {<<"orderer">>} ELSE {})
        \cup ({"group"} \X (moved \cup regrouped))
        \cup ({"anchors"} \X (moved \cup Touched(old, new)))

\* Elements whose version the update is computed from and checked against: what it
\* changes, the groups around it, and the members of a group that gains or loses one.
Reads(old, new) ==
    (IF old.orgs # new.orgs THEN {<<"app">>} \cup ({"group"} \X Kept(old, new)) ELSE {})
    \cup (IF Touched(old, new) # {} THEN {<<"app">>} ELSE {})
    \cup ({"group", "anchors"} \X Touched(old, new))
    \cup (IF old.caps # new.caps THEN {<<"caps">>} ELSE {})
    \cup (IF old.state # new.state THEN {<<"orderer">>} ELSE {})

\* Mutant: the update replaces the configuration, whoever changed it meanwhile.
UpdatedWhole(conf, old, new) == new

\* The configuration conf with the update from old to new applied.
Updated(conf, old, new) ==
    LET orgs == IF old.orgs # new.orgs THEN new.orgs ELSE conf.orgs
    IN  [orgs |-> orgs,
         anchors |-> [g \in Orgs |->
                         IF g \in Touched(old, new) THEN new.anchors[g]
                         ELSE IF g \in orgs \cap conf.orgs THEN conf.anchors[g]
                         ELSE None],
         caps |-> IF old.caps # new.caps THEN new.caps ELSE conf.caps,
         state |-> IF old.state # new.state THEN new.state ELSE conf.state]

-----------------------------------------------------------------------------
(* Users, the informer, the operator's process.                            *)

WithinTotal == edits + faults + crashes < MaxTotal

\* The API server stores a new version of k's object: other copies are stale.
Store(k, o) == /\ cr' = [cr EXCEPT ![k] = o]
               /\ synced' = IF o = cr[k] THEN synced ELSE synced \ {k}

\* A user changes the spec.
Edit(k) ==
    /\ WithinTotal /\ edits < MaxEdits /\ edits' = edits + 1
    /\ cr[k].phase \in {"new", "managed"}
    /\ \E s \in (IF k = Main THEN Choices ELSE Specs(k)) \ {cr[k].spec} :
          Store(k, [cr[k] EXCEPT !.spec = s])
    /\ objFresh' = objFresh \ {k}
    /\ UNCHANGED <<cache, queue, fabricVars, pc, obj, block, todo, seen, current,
                   faults, crashes>>

\* A user deletes the object: it goes at once if it has no finalizer.
Delete(k) ==
    /\ MayDelete
    /\ WithinTotal /\ edits < MaxEdits /\ edits' = edits + 1
    /\ cr[k].phase \in {"new", "managed"}
    /\ Store(k, [cr[k] EXCEPT !.phase = IF @ = "new" THEN "gone" ELSE "deleting"])
    /\ objFresh' = objFresh \ {k}
    /\ UNCHANGED <<cache, queue, fabricVars, pc, obj, block, todo, seen, current,
                   faults, crashes>>

\* The informer delivers the last version: an event for the work queue.
CacheSync(k) ==
    /\ k \notin synced
    /\ cache' = [cache EXCEPT ![k] = cr[k]]
    /\ synced' = synced \cup {k} /\ queue' = queue \cup {k}
    /\ UNCHANGED <<cr, fabricVars, workVars, envVars>>

\* The operator dies and starts again: every resource there is is listed and queued.
Crash ==
    /\ WithinTotal /\ crashes < MaxCrashes /\ crashes' = crashes + 1
    /\ cache' = cr /\ synced' = Keys
    /\ queue' = {k \in Keys : cr[k].phase # "gone"}
    /\ pc' = [k \in Keys |-> "idle"] /\ obj' = [k \in Keys |-> Blank] /\ objFresh' = {}
    /\ block' = None /\ todo' = {}
    /\ seen' = [k \in Keys |-> [gen |-> None, conf |-> Empty]]
    /\ current' = [k \in Keys |-> {}]
    /\ UNCHANGED <<cr, fabricVars, edits, faults>>

-----------------------------------------------------------------------------
(* What every reconcile does.                                              *)

At(k, l) == pc[k] = l
Goto(k, l) == /\ pc' = [pc EXCEPT ![k] = l]
              /\ UNCHANGED <<queue, obj, objFresh, block, todo, seen, current>>

\* A call that fails, or whose answer is lost.
Fault(call) == /\ call \in Faulty /\ WithinTotal
               /\ faults < MaxFaults /\ faults' = faults + 1
               /\ UNCHANGED <<edits, crashes>>
NoFault == UNCHANGED envVars

\* Reconcile returns; the key is added again after a delay or with an error.
Return(k, requeue) ==
    /\ pc' = [pc EXCEPT ![k] = "idle"]
    /\ queue' = IF requeue THEN queue \cup {k} ELSE queue
    /\ obj' = [obj EXCEPT ![k] = Blank] /\ objFresh' = objFresh \ {k}
    /\ IF k = Main THEN block' = None /\ todo' = {} ELSE UNCHANGED <<block, todo>>
    /\ seen' = [seen EXCEPT ![k] = [gen |-> None, conf |-> Empty]]
    /\ current' = [current EXCEPT ![k] = {}]

\* r.Get from the cache.  A follower channel that is not found is left alone; for
\* a main channel that is not found the reconcile goes on with an empty object and
\* panics at AdminOrdererOrganizations[0].
Begin(k) ==
    /\ At(k, "idle") /\ k \in queue
    /\ queue' = queue \ {k}
    /\ obj' = [obj EXCEPT ![k] = cache[k]]
    /\ objFresh' = IF k \in synced THEN objFresh \cup {k} ELSE objFresh \ {k}
    /\ pc' = [pc EXCEPT ![k] =
                 CASE cache[k].phase = "gone" -> IF k = Main THEN "panic" ELSE "idle"
                   [] cache[k].phase = "deleting" -> "finalize"
                   [] cache[k].phase = "new" -> "adopt"
                   [] cache[k].phase = "managed" -> IF k = Main THEN "query" ELSE "joinPeer"]
    /\ NoFault
    /\ UNCHANGED <<cr, cache, synced, fabricVars, block, todo, seen, current>>

\* The panic is recovered and returned as an error.
Panic(k) == /\ At(k, "panic") /\ Return(k, TRUE) /\ NoFault
            /\ UNCHANGED <<cr, cache, synced, fabricVars>>

\* An Update of the object itself, which its resourceVersion may refuse.  Only the
\* main channel records a failure of it.
Adopt(k) ==
    /\ At(k, "adopt")
    /\ \/ /\ k \in objFresh /\ NoFault
          /\ Store(k, [cr[k] EXCEPT !.phase = "managed"])
          /\ obj' = [obj EXCEPT ![k].phase = "managed"]
          /\ pc' = [pc EXCEPT ![k] = IF k = Main THEN "query" ELSE "joinPeer"]
          /\ UNCHANGED <<queue, objFresh, block, todo, seen, current>>
       \/ /\ (k \notin objFresh /\ NoFault) \/ Fault("status")
          /\ IF k = Main THEN Goto(k, "fail") ELSE Return(k, TRUE)
          /\ UNCHANGED <<cr, synced>>
    /\ UNCHANGED <<cache, fabricVars>>

\* The finalizer is removed and the object goes; the main channel's reconcile goes
\* on nevertheless.
Finalize(k) ==
    /\ At(k, "finalize")
    /\ \/ /\ k \in objFresh /\ NoFault
          /\ Store(k, [cr[k] EXCEPT !.phase = "gone"])
          /\ IF k = Main
             THEN /\ pc' = [pc EXCEPT ![k] = "query"] /\ objFresh' = objFresh \ {k}
                  /\ UNCHANGED <<queue, obj, block, todo, seen, current>>
             ELSE Return(k, FALSE)
       \/ /\ (k \notin objFresh /\ NoFault) \/ Fault("status")
          /\ IF k = Main THEN Goto(k, "fail") ELSE Return(k, TRUE)
          /\ UNCHANGED <<cr, synced>>
    /\ UNCHANGED <<cache, fabricVars>>

\* Mutant: the error's text is taken for the status.
FailStoresError(k) ==
    /\ At(k, "fail") /\ NoFault
    /\ IF cr[k].phase # "gone" THEN Store(k, [cr[k] EXCEPT !.status = "error"])
       ELSE UNCHANGED <<cr, synced>>
    /\ Return(k, TRUE)
    /\ UNCHANGED <<cache, fabricVars>>

\* Mutant: the failure is neither recorded nor tried again.
FailForgotten(k) ==
    /\ At(k, "fail") /\ NoFault
    /\ Return(k, FALSE)
    /\ UNCHANGED <<cr, synced, cache, fabricVars>>

\* setConditionStatus(Failed): a merge patch when the copy does not say so already;
\* then Status().Update.  Whatever becomes of them the key is queued again.
Fail(k) ==
    /\ At(k, "fail")
    /\ \/ /\ NoFault
          /\ IF obj[k].status # "Failed" /\ cr[k].phase # "gone"
             THEN Store(k, [cr[k] EXCEPT !.status = "Failed"])
             ELSE UNCHANGED <<cr, synced>>
       \/ Fault("status") /\ UNCHANGED <<cr, synced>>
    /\ Return(k, TRUE)
    /\ UNCHANGED <<cache, fabricVars>>

-----------------------------------------------------------------------------
(* The orderers.                                                           *)

Joined(g) == {o \in Orderers : ledger[o] = g}

\* An orderer delivers its channel's configuration; those with genesis block g accept
\* an update.
Serves(o) == ledger[o] # None /\ Cardinality(Joined(ledger[o])) >= ReadQuorum
Accepts(g) == Cardinality(Joined(g)) >= WriteQuorum

\* Some orderer answers; each of them does.
SomeServe == \E o \in Orderers : Serves(o)
AllServe == \A o \in Orderers : Serves(o)

\* Genesis blocks somebody has: a new one is none of them.
Used == {ledger[o] : o \in Orderers} \cup {peer[k] : k \in Followers}

-----------------------------------------------------------------------------
(* The main channel.                                                       *)

\* Mutant: only one endpoint is asked.
QueryFirst ==
    /\ At(Main, "query") /\ NoFault
    /\ Goto(Main, IF AllServe THEN "fetch" ELSE "create")
    /\ UNCHANGED <<cr, cache, synced, fabricVars>>

\* The clients are set up; then queryConfigBlockFromOrdererWithRoundRobin: each
\* endpoint in turn until one answers.  Any failure of it means that the channel
\* does not exist.
Query ==
    /\ At(Main, "query")
    /\ \/ NoFault /\ SomeServe /\ Goto(Main, "fetch")
       \/ /\ IF SomeServe THEN Fault("query") ELSE NoFault
          /\ Goto(Main, "create")
       \/ Fault("setup") /\ Goto(Main, "fail")
    /\ UNCHANGED <<cr, cache, synced, fabricVars>>

\* mapToConfigTX refuses a BFT channel of four consenters or fewer.
Mappable == BFT => Consenters > 4

Create ==
    /\ At(Main, "create")
    /\ \/ /\ Mappable /\ NoFault
          /\ \E g \in Gens \ Used :
                /\ block' = g
                /\ chain' = [chain EXCEPT ![g] = Genesis(obj[Main].spec)]
          /\ todo' = obj[Main].spec.join
          /\ pc' = [pc EXCEPT ![Main] = "join"]
          /\ UNCHANGED <<queue, obj, objFresh, seen, current>>
       \/ /\ IF Mappable THEN Fault("map") ELSE NoFault
          /\ Goto(Main, "fail") /\ UNCHANGED chain
    /\ UNCHANGED <<cr, cache, synced, ledger, peer>>

\* joinOrderers: one after the other.  An orderer that has the channel, with
\* whatever genesis block, answers 405 and is passed over.
Join(o) ==
    /\ At(Main, "join") /\ o \in todo
    /\ \/ /\ NoFault
          /\ ledger' = IF ledger[o] = None THEN [ledger EXCEPT ![o] = block] ELSE ledger
          /\ todo' = todo \ {o}
          /\ UNCHANGED <<queue, pc, obj, objFresh, block, seen, current>>
       \/ /\ Fault("join")
          /\ ledger' \in {ledger, [ledger EXCEPT ![o] = IF @ = None THEN block ELSE @]}
          /\ Goto(Main, "fail")
    /\ UNCHANGED <<cr, cache, synced, chain, peer>>

JoinDone == /\ At(Main, "join") /\ todo = {} /\ NoFault
            /\ Goto(Main, "requery")
            /\ UNCHANGED <<cr, cache, synced, fabricVars>>

\* After creating the channel it has to answer.
Requery ==
    /\ At(Main, "requery")
    /\ \/ NoFault /\ SomeServe /\ Goto(Main, "fetch")
       \/ /\ IF SomeServe THEN Fault("fetch") ELSE NoFault
          /\ Goto(Main, "fail")
    /\ UNCHANGED <<cr, cache, synced, fabricVars>>

\* Mutant: every organization of the spec is set anew.
MainDraftResets(s, conf) == [orgs |-> s.orgs, anchors |-> [g \in Orgs |-> None],
                             caps |-> s.caps, state |-> s.state]

\* updateChannelConfig: the configuration to have, given the spec s and the one
\* there is.  In maintenance mode the application part is left alone; on the way
\* into it nothing but the orderer part changes.  Organizations that stay keep
\* what they have.
MainDraft(s, conf) ==
    LET maintenance == conf.state = "maintenance"
        switching == ~maintenance /\ s.state = "maintenance"
        orgs == IF maintenance \/ switching THEN conf.orgs ELSE s.orgs
    IN  [orgs |-> orgs,
         anchors |-> [g \in Orgs |-> IF g \in orgs THEN conf.anchors[g] ELSE None],
         caps |-> IF switching THEN conf.caps ELSE s.caps,
         state |-> s.state]

-----------------------------------------------------------------------------
(* A follower channel.                                                     *)

\* JoinChannel fetches the genesis block from one orderer, which may not have the
\* channel yet, and hands it to the peer; a peer that has the channel says that it
\* already exists.
JoinPeer(k) ==
    /\ At(k, "joinPeer")
    /\ \/ /\ NoFault
          /\ \E o \in Orderers :
                /\ Serves(o)
                /\ peer' = IF peer[k] = None THEN [peer EXCEPT ![k] = ledger[o]] ELSE peer
          /\ Goto(k, "fetch")
       \/ /\ IF AllServe THEN Fault("join") ELSE NoFault
          /\ Goto(k, "fail") /\ UNCHANGED peer
    /\ UNCHANGED <<cr, cache, synced, ledger, chain>>

\* The organization's anchor peers are replaced, everything else is left alone.
FollowerDraft(k, s, conf) == [conf EXCEPT !.anchors[k] = s]

-----------------------------------------------------------------------------
(* Read, modify and update, the same for both.                             *)

Draft(k, conf) == IF k = Main THEN MainDraft(obj[k].spec, conf)
                  ELSE FollowerDraft(k, obj[k].spec, conf)

\* A follower channel fails in maintenance mode, and panics if the channel does not
\* have its organization.
AfterFetch(k, conf) ==
    IF k # Main /\ conf.state = "maintenance" THEN "fail"
    ELSE IF k # Main /\ k \notin conf.orgs THEN "panic"
    ELSE IF Draft(k, conf) = conf THEN "finish" ELSE "submit"

\* The last configuration block, of any orderer that answers or, for a follower
\* channel, of one orderer; and the difference to what is wanted.
Fetch(k) ==
    /\ At(k, "fetch")
    /\ \/ /\ NoFault
          /\ \E o \in Orderers :
                /\ Serves(o)
                /\ seen' = [seen EXCEPT ![k] = [gen |-> ledger[o], conf |-> chain[ledger[o]]]]
                /\ pc' = [pc EXCEPT ![k] = AfterFetch(k, chain[ledger[o]])]
          /\ current' = [current EXCEPT ![k] = Elements]
          /\ UNCHANGED <<queue, obj, objFresh, block, todo>>
       \/ /\ IF k = Main \/ AllServe THEN Fault("fetch") ELSE NoFault
          /\ Goto(k, "fail")
    /\ UNCHANGED <<cr, cache, synced, fabricVars>>

\* SaveChannel: the orderers accept the update if it is based on what they have.
Applies(k) == /\ Accepts(seen[k].gen)
              /\ Reads(seen[k].conf, Draft(k, seen[k].conf)) \subseteq current[k]

\* The update is in force; who has read what it changes has read something old.
Commit(k) ==
    LET old == seen[k].conf
        new == Draft(k, old)
    IN  /\ chain' = [chain EXCEPT ![seen[k].gen] = Updated(@, old, new)]
        /\ current' = [j \in Keys |-> IF seen[j].gen = seen[k].gen
                                      THEN current[j] \ Changed(old, new) ELSE current[j]]

Submit(k) ==
    /\ At(k, "submit") /\ Applies(k)
    /\ Commit(k) /\ NoFault
    /\ pc' = [pc EXCEPT ![k] = "finish"]
    /\ UNCHANGED <<cr, cacheVars, ledger, peer, obj, objFresh, block, todo, seen>>

\* It is refused, or its answer is lost.
SubmitFails(k) ==
    /\ At(k, "submit")
    /\ \/ /\ Applies(k) /\ Commit(k) /\ Fault("submit")
       \/ /\ IF Applies(k) THEN Fault("submit") ELSE NoFault
          /\ UNCHANGED <<chain, current>>
    /\ pc' = [pc EXCEPT ![k] = "fail"]
    /\ UNCHANGED <<cr, cacheVars, ledger, peer, obj, objFresh, block, todo, seen>>

\* The configuration is kept in a ConfigMap, then Status().Update says Running.
Finish(k) ==
    /\ At(k, "finish") /\ k \in objFresh
    /\ \/ NoFault /\ Return(k, FALSE)
       \/ Fault("status") /\ Return(k, TRUE)
    /\ Store(k, [cr[k] EXCEPT !.status = "Running"])
    /\ UNCHANGED <<cache, fabricVars>>

\* The ConfigMap cannot be written; or the status update conflicts or fails, which
\* only a follower channel records.
FinishFails(k) ==
    /\ At(k, "finish")
    /\ \/ Fault("save") /\ Goto(k, "fail")
       \/ /\ (k \notin objFresh /\ NoFault) \/ Fault("status")
          /\ IF k = Main THEN Return(k, TRUE)
             ELSE /\ obj' = [obj EXCEPT ![k].status = "Running"]
                  /\ pc' = [pc EXCEPT ![k] = "fail"]
                  /\ UNCHANGED <<queue, objFresh, block, todo, seen, current>>
    /\ UNCHANGED <<cr, cache, synced, fabricVars>>

-----------------------------------------------------------------------------
Resource(k) == Begin(k) \/ Panic(k) \/ Adopt(k) \/ Finalize(k) \/ Fail(k)
Update(k) == Fetch(k) \/ Submit(k) \/ SubmitFails(k) \/ Finish(k) \/ FinishFails(k)
Channel == Query \/ Create \/ (\E o \in Orderers : Join(o)) \/ JoinDone \/ Requery

\* The worker that reconciles k.
Reconcile(k) == \/ Resource(k) \/ Update(k)
                \/ k = Main /\ Channel
                \/ k \in Followers /\ JoinPeer(k)

Next == \/ \E k \in Keys : Edit(k) \/ Delete(k) \/ CacheSync(k) \/ Reconcile(k)
        \/ Crash

Spec == Init /\ [][Next]_vars

\* Workers run and the informer delivers.
Fairness == \A k \in Keys : WF_vars(Reconcile(k)) /\ WF_vars(CacheSync(k))

FairSpec == Spec /\ Fairness

-----------------------------------------------------------------------------
TypeOK ==
    /\ {cr, cache, obj} \subseteq [Keys -> Object(AnySpec)]
    /\ \A k \in Keys : /\ {cr[k].spec, cache[k].spec} \subseteq Specs(k)
                       /\ pc[k] \notin {"idle", "panic"} => obj[k].spec \in Specs(k)
    /\ pc \in [Keys -> Labels]
    /\ seen \in [Keys -> [gen : Gens \cup {None}, conf : Configuration]]
    /\ current \in [Keys -> SUBSET Elements]
    /\ synced \subseteq Keys /\ queue \subseteq Keys /\ objFresh \subseteq Keys
    /\ ledger \in [Orderers -> Gens \cup {None}]
    /\ chain \in [Gens -> Configuration]
    /\ peer \in [Followers -> Gens \cup {None}]
    /\ block \in Gens \cup {None} /\ todo \subseteq Orderers
    /\ edits \in 0..MaxEdits /\ faults \in 0..MaxFaults /\ crashes \in 0..MaxCrashes

\* All orderers and peers that have the channel have the same one.
OneGenesis ==
    /\ \A o, p \in Orderers : ledger[o] = ledger[p] \/ None \in {ledger[o], ledger[p]}
    /\ \A k \in Followers : peer[k] # None => \E o \in Orderers : ledger[o] = peer[k]

\* The configuration of the channel, whichever orderer is asked.
InForce(P(_)) == /\ \E o \in Orderers : ledger[o] # None
                 /\ \A o \in Orderers : ledger[o] # None => P(chain[ledger[o]])

\* Nothing is going on about k and nothing is going to happen.
Settled(k) == /\ pc[k] = "idle" /\ k \notin queue /\ k \in synced
              /\ cr[k].phase = "managed" /\ cr[k].status = "Running"

\* When the main channel is reported Running and nothing is pending, its channel
\* has the organizations, capabilities and consensus state of the spec.
RunningMeansApplied ==
    LET s == cr[Main].spec
        AsWanted(conf) == /\ conf.orgs = s.orgs /\ conf.caps = s.caps
                          /\ conf.state = s.state
    IN  Settled(Main) => InForce(AsWanted)

\* When a follower channel is reported Running and nothing is pending, its peers
\* have the channel and the organization has the anchor peers of the spec.
FollowerApplied ==
    \A k \in Followers :
        LET HasAnchors(conf) == conf.anchors[k] = cr[k].spec
        IN  Settled(k) => peer[k] # None /\ InForce(HasAnchors)

\* The anchor peers of an organization that stays in the channel are only changed
\* by its own follower channel.
AnchorsSurvive ==
    [][\A g \in Gens, k \in Orgs :
          /\ ledger' = ledger /\ k \in chain[g].orgs \cap chain'[g].orgs
          /\ chain'[g].anchors[k] # chain[g].anchors[k]
          => /\ k \in Followers /\ pc[k] = "submit"
             /\ chain'[g].anchors[k] = obj[k].spec]_vars

\* An update that the orderers accept makes of the channel what its resource would
\* make of it as it is then, not as it was when the update was computed: of what
\* others have changed in between nothing is lost and nothing is relied on.
UpdatesSerial ==
    [][\A k \in Keys :
          LET g == seen[k].gen
          IN  pc[k] = "submit" /\ pc'[k] # "submit" /\ chain' # chain
              => /\ chain'[g] = Draft(k, chain[g])
                 /\ k = Main \/ k \in chain[g].orgs]_vars

\* The channel, seen from outside: the genesis blocks in use and the configuration.
Created == {ledger[o] : o \in Orderers} \ {None}

Ledger == INSTANCE ChannelLedger WITH
              created <- Created,
              conf <- IF Created = {} THEN Empty ELSE chain[CHOOSE g \in Created : TRUE]

\* Creating, joining and updating implement the ledger of ChannelLedger.
ImplementsLedger == Ledger!Spec

\* In and around maintenance mode users ask for nothing but the mode: what else they ask
\* for is dropped by updateChannelConfig, and the resource reported Running.
ModeByItself ==
    LET s == cr[Main].spec
    IN  \A g \in Created : "maintenance" \in {s.state, chain[g].state}
                           => chain[g].orgs = s.orgs /\ chain[g].caps = s.caps

\* Once users, failures and restarts have stopped, the channel is and stays what the main
\* channel says and, when that is not maintenance mode, what the follower channels say;
\* their statuses are Running.  Not so a channel that came to have two genesis blocks,
\* because a pass ended between two joins or the query failed: its orderers are beyond the
\* code's reach (OneGenesis); nor what was asked for besides the mode (ModeByItself).
Converges ==
    LET s == cr[Main].spec
        active == IF s.state = "normal" THEN Keys ELSE {Main}
        AsWanted(conf) ==
            /\ conf.orgs = s.orgs /\ conf.caps = s.caps /\ conf.state = s.state
            /\ \A k \in active \ {Main} : conf.anchors[k] = cr[k].spec
    IN  []ModeByItself
        => <>[](OneGenesis => /\ InForce(AsWanted)
                              /\ \A k \in active : cr[k].status = "Running")
=============================================================================
