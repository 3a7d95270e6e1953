---------------------------- MODULE ChannelProofs ----------------------------
(* Theorems about Channel, for every set of organizations and orderers and     *)
(* every bound.                                                              *)
EXTENDS Channel, FiniteSetTheorems, TLAPS

USE DEF At, NoFault, vars, cacheVars, fabricVars, workVars, envVars

-----------------------------------------------------------------------------
(* Type correctness, in four parts.                                          *)

ApiOK ==
    /\ cr \in [Keys -> Object(AnySpec)] /\ cache \in [Keys -> Object(AnySpec)]
    /\ \A k \in Keys : cr[k].spec \in Specs(k) /\ cache[k].spec \in Specs(k)
    /\ synced \subseteq Keys

WorkOK ==
    /\ queue \subseteq Keys
    /\ pc \in [Keys -> Labels]
    /\ obj \in [Keys -> Object(AnySpec)]
    /\ \A k \in Keys : pc[k] \notin {"idle", "panic"} => obj[k].spec \in Specs(k)
    /\ objFresh \subseteq Keys
    /\ block \in Gens \cup {None} /\ todo \subseteq Orderers
    /\ seen \in [Keys -> [gen : Gens \cup {None}, conf : Configuration]]
    /\ current \in [Keys -> SUBSET Elements]

FabricOK ==
    /\ ledger \in [Orderers -> Gens \cup {None}]
    /\ chain \in [Gens -> Configuration]
    /\ peer \in [Followers -> Gens \cup {None}]

EnvOK == edits \in 0..MaxEdits /\ faults \in 0..MaxFaults /\ crashes \in 0..MaxCrashes

LEMMA TypeParts ==
    /\ TypeOK <=> ApiOK /\ WorkOK /\ FabricOK /\ EnvOK
    /\ TypeOK' <=> ApiOK' /\ WorkOK' /\ FabricOK' /\ EnvOK'
BY DEF TypeOK, ApiOK, WorkOK, FabricOK, EnvOK

Statuses == {"", "Running", "Failed"}
Phases == {"new", "managed", "deleting", "gone"}

\* What is written into a field of an object keeps it an object.
LEMMA ObjectTypes ==
    /\ Blank \in Object(AnySpec)
    /\ \A k \in Keys : Specs(k) \subseteq AnySpec
    /\ \A o \in Object(AnySpec) :
          /\ \A s \in AnySpec : LET u == [o EXCEPT !.spec = s]
                                IN  u \in Object(AnySpec) /\ u.spec = s
          /\ \A s \in Statuses : LET u == [o EXCEPT !.status = s]
                                 IN  u \in Object(AnySpec) /\ u.spec = o.spec
          /\ \A p \in Phases : LET u == [o EXCEPT !.phase = p]
                               IN  u \in Object(AnySpec) /\ u.spec = o.spec
<1>1. Blank \in Object(AnySpec)
  BY DEF Blank, Object, AnySpec
<1>2. \A k \in Keys : Specs(k) \subseteq AnySpec
  BY ChoiceAssumption DEF Specs, AnySpec
<1> QED BY <1>1, <1>2 DEF Object, Statuses, Phases

LEMMA EmptyType == Empty \in Configuration
BY DEF Empty, Configuration, Capabilities, States

LEMMA StoreType ==
    ASSUME ApiOK, NEW k \in Keys, NEW o \in Object(AnySpec), o.spec \in Specs(k),
           Store(k, o), UNCHANGED cache
    PROVE  ApiOK'
BY DEF ApiOK, Store

LEMMA ReturnType ==
    ASSUME WorkOK, NEW k \in Keys, NEW requeue \in BOOLEAN, Return(k, requeue)
    PROVE  WorkOK'
<1>1. [gen |-> None, conf |-> Empty] \in [gen : Gens \cup {None}, conf : Configuration]
  BY EmptyType
<1> QED BY <1>1, ObjectTypes DEF WorkOK, Return, Labels

LEMMA GotoType ==
    ASSUME WorkOK, NEW k \in Keys, NEW l \in Labels, Goto(k, l),
           pc[k] \notin {"idle", "panic"}
    PROVE  WorkOK'
BY DEF WorkOK, Goto

LEMMA FaultType ==
    ASSUME EnvOK, NEW call, NoFault \/ Fault(call)
    PROVE  EnvOK'
BY LimitAssumption DEF EnvOK, Fault

\* What an update makes of a configuration is a configuration.
LEMMA UpdatedType ==
    ASSUME NEW conf \in Configuration, NEW old \in Configuration,
           NEW new \in Configuration
    PROVE  Updated(conf, old, new) \in Configuration
<1> DEFINE orgs == IF old.orgs # new.orgs THEN new.orgs ELSE conf.orgs
           anchor(g) == IF g \in Touched(old, new) THEN new.anchors[g]
                        ELSE IF g \in orgs \cap conf.orgs THEN conf.anchors[g]
                        ELSE None
<1>1. orgs \in SUBSET Orgs
  BY DEF Configuration
<1>2. [g \in Orgs |-> anchor(g)] \in [Orgs -> Anchors \cup {None}]
  BY DEF Configuration
<1>3. /\ (IF old.caps # new.caps THEN new.caps ELSE conf.caps) \in Capabilities
      /\ (IF old.state # new.state THEN new.state ELSE conf.state) \in States
  BY DEF Configuration
<1> QED BY <1>1, <1>2, <1>3 DEF Updated, Configuration

\* So is what either kind of resource wants.
LEMMA DraftType ==
    ASSUME WorkOK, NEW k \in Keys, NEW conf \in Configuration, obj[k].spec \in Specs(k)
    PROVE  Draft(k, conf) \in Configuration
<1>1. CASE k = Main
  <2>1. obj[k].spec \in ChannelSpec
    BY <1>1, ChoiceAssumption DEF Specs
  <2>2. \A orgs \in SUBSET Orgs :
           [g \in Orgs |-> IF g \in orgs THEN conf.anchors[g] ELSE None]
              \in [Orgs -> Anchors \cup {None}]
    BY DEF Configuration
  <2> QED BY <1>1, <2>1, <2>2 DEF Draft, MainDraft, Configuration, ChannelSpec
<1>2. CASE k # Main
  <2>1. obj[k].spec \in Anchors \cup {None}
    BY <1>2 DEF Specs
  <2>2. [conf.anchors EXCEPT ![k] = obj[k].spec] \in [Orgs -> Anchors \cup {None}]
    BY <2>1 DEF Configuration
  <2> QED BY <1>2, <2>2 DEF Draft, FollowerDraft, Configuration
<1> QED BY <1>1, <1>2

LEMMA CommitType ==
    ASSUME WorkOK, FabricOK, NEW k \in Keys, obj[k].spec \in Specs(k), Commit(k)
    PROVE  chain' \in [Gens -> Configuration] /\ current' \in [Keys -> SUBSET Elements]
<1>1. seen[k].conf \in Configuration
  BY DEF WorkOK
<1>2. \A conf \in Configuration :
         Updated(conf, seen[k].conf, Draft(k, seen[k].conf)) \in Configuration
  BY <1>1, DraftType, UpdatedType
<1> QED BY <1>2 DEF Commit, WorkOK, FabricOK

\* What users, the informer and a crash do.
LEMMA OutsideType ==
    ASSUME TypeOK, NEW k \in Keys, Edit(k) \/ Delete(k) \/ CacheSync(k) \/ Crash
    PROVE  TypeOK'
<1> USE TypeParts
<1>1. CASE Edit(k)
  <2>1. PICK s \in (IF k = Main THEN Choices ELSE Specs(k)) :
           Store(k, [cr[k] EXCEPT !.spec = s])
    BY <1>1 DEF Edit
  <2>2. s \in Specs(k)
    BY <2>1 DEF Specs
  <2>3. ApiOK'
    <3>1. cr[k] \in Object(AnySpec) /\ s \in AnySpec
      BY <2>2, ObjectTypes DEF ApiOK
    <3>2. /\ [cr[k] EXCEPT !.spec = s] \in Object(AnySpec)
          /\ [cr[k] EXCEPT !.spec = s].spec = s
      BY <3>1, ObjectTypes
    <3> QED BY <1>1, <2>1, <2>2, <3>2, StoreType DEF Edit
  <2>4. WorkOK' /\ FabricOK'
    BY <1>1 DEF Edit, WorkOK, FabricOK
  <2>5. EnvOK'
    BY <1>1, LimitAssumption DEF Edit, EnvOK
  <2> QED BY <2>3, <2>4, <2>5
<1>2. CASE Delete(k)
  <2>1. PICK p \in Phases : Store(k, [cr[k] EXCEPT !.phase = p])
    BY <1>2 DEF Delete, Phases
  <2>2. ApiOK'
    BY <1>2, <2>1, ObjectTypes, StoreType DEF Delete, ApiOK
  <2>3. WorkOK' /\ FabricOK'
    BY <1>2 DEF Delete, WorkOK, FabricOK
  <2>4. EnvOK'
    BY <1>2, LimitAssumption DEF Delete, EnvOK
  <2> QED BY <2>2, <2>3, <2>4
<1>3. CASE CacheSync(k)
  BY <1>3 DEF CacheSync, ApiOK, WorkOK, FabricOK, EnvOK
<1>4. CASE Crash
  <2>1. [gen |-> None, conf |-> Empty] \in [gen : Gens \cup {None}, conf : Configuration]
    BY EmptyType
  <2>2. ApiOK' /\ FabricOK'
    BY <1>4 DEF Crash, ApiOK, FabricOK
  <2>3. WorkOK'
    BY <1>4, <2>1, ObjectTypes DEF Crash, WorkOK, Labels
  <2>4. EnvOK'
    BY <1>4, LimitAssumption DEF Crash, EnvOK
  <2> QED BY <2>2, <2>3, <2>4
<1> QED BY <1>1, <1>2, <1>3, <1>4

\* What every reconcile does.
LEMMA ResourceType ==
    ASSUME TypeOK, NEW k \in Keys, Resource(k)
    PROVE  TypeOK'
<1> USE TypeParts
<1>1. CASE Begin(k)
  <2>1. cache[k] \in Object(AnySpec) /\ cache[k].spec \in Specs(k)
    BY DEF ApiOK
  <2>2. WorkOK'
    BY <1>1, <2>1 DEF Begin, WorkOK, Labels, Object
  <2> QED BY <1>1, <2>2 DEF Begin, ApiOK, FabricOK, EnvOK
<1>2. CASE Panic(k)
  <2>1. WorkOK'
    BY <1>2, ReturnType DEF Panic
  <2> QED BY <1>2, <2>1 DEF Panic, ApiOK, FabricOK, EnvOK, Return
<1>3. CASE Adopt(k)
  <2>1. FabricOK'
    BY <1>3 DEF Adopt, FabricOK
  <2>2. EnvOK'
    BY <1>3, FaultType DEF Adopt
  <2>3. CASE k \in objFresh /\ Store(k, [cr[k] EXCEPT !.phase = "managed"])
             /\ obj' = [obj EXCEPT ![k].phase = "managed"]
             /\ pc' = [pc EXCEPT ![k] = IF k = Main THEN "query" ELSE "joinPeer"]
             /\ UNCHANGED <<queue, objFresh, block, todo, seen, current>>
    <3>1. ApiOK'
      BY <1>3, <2>3, ObjectTypes, StoreType DEF Adopt, ApiOK, Phases
    <3>2. /\ obj[k] \in Object(AnySpec) /\ obj[k].spec \in Specs(k)
          /\ [obj[k] EXCEPT !.phase = "managed"] \in Object(AnySpec)
          /\ [obj[k] EXCEPT !.phase = "managed"].spec = obj[k].spec
      BY <1>3, ObjectTypes DEF Adopt, WorkOK, Phases
    <3>3. WorkOK'
      BY <2>3, <3>2 DEF WorkOK, Labels
    <3> QED BY <2>1, <2>2, <3>1, <3>3
  <2>4. CASE (Goto(k, "fail") \/ Return(k, TRUE)) /\ UNCHANGED <<cr, cache, synced>>
    BY <1>3, <2>1, <2>2, <2>4, GotoType, ReturnType DEF Adopt, ApiOK, Labels
  <2> QED BY <1>3, <2>3, <2>4 DEF Adopt
<1>4. CASE Finalize(k)
  <2>1. FabricOK'
    BY <1>4 DEF Finalize, FabricOK
  <2>2. EnvOK'
    BY <1>4, FaultType DEF Finalize
  <2>3. CASE Store(k, [cr[k] EXCEPT !.phase = "gone"])
    <3>1. ApiOK'
      BY <1>4, <2>3, ObjectTypes, StoreType DEF Finalize, ApiOK, Phases
    <3>2. WorkOK'
      <4>1. CASE Return(k, FALSE)
        BY <4>1, ReturnType
      <4>2. CASE Return(k, TRUE)
        BY <4>2, ReturnType
      <4>3. CASE ~Return(k, FALSE) /\ ~Return(k, TRUE)
        BY <1>4, <4>3 DEF Finalize, WorkOK, Labels, Goto
      <4> QED BY <4>1, <4>2, <4>3
    <3> QED BY <2>1, <2>2, <3>1, <3>2
  <2>4. CASE (Goto(k, "fail") \/ Return(k, TRUE)) /\ UNCHANGED <<cr, cache, synced>>
    BY <1>4, <2>1, <2>2, <2>4, GotoType, ReturnType DEF Finalize, ApiOK, Labels
  <2> QED BY <1>4, <2>3, <2>4 DEF Finalize
<1>5. CASE Fail(k)
  <2>1. WorkOK' /\ FabricOK' /\ EnvOK'
    BY <1>5, ReturnType, FaultType DEF Fail, FabricOK
  <2>2. ApiOK'
    <3>1. CASE UNCHANGED <<cr, synced>>
      BY <1>5, <3>1 DEF Fail, ApiOK
    <3>2. CASE Store(k, [cr[k] EXCEPT !.status = "Failed"])
      BY <1>5, <3>2, ObjectTypes, StoreType DEF Fail, ApiOK, Statuses
    <3> QED BY <1>5, <3>1, <3>2 DEF Fail
  <2> QED BY <2>1, <2>2
<1> QED BY <1>1, <1>2, <1>3, <1>4, <1>5 DEF Resource

\* Creating the channel and joining it.
LEMMA JoiningType ==
    ASSUME TypeOK, Channel \/ \E k \in Followers : JoinPeer(k)
    PROVE  TypeOK'
<1> USE TypeParts
<1>0. Main \in Keys /\ Followers \subseteq Keys
  BY DEF Keys
<1>1. CASE Query \/ JoinDone \/ Requery
  <2>1. WorkOK'
    BY <1>0, <1>1, GotoType DEF Query, JoinDone, Requery, Labels
  <2>2. EnvOK'
    BY <1>1, FaultType DEF Query, JoinDone, Requery
  <2> QED BY <1>1, <2>1, <2>2 DEF Query, JoinDone, Requery, ApiOK, FabricOK, Goto
<1>2. CASE Create
  <2>1. EnvOK'
    BY <1>2, FaultType DEF Create
  <2>2. ApiOK'
    BY <1>2 DEF Create, ApiOK
  <2>3. CASE Goto(Main, "fail") /\ UNCHANGED chain
    BY <1>0, <1>2, <2>1, <2>2, <2>3, GotoType DEF Create, Labels, FabricOK
  <2>4. CASE /\ \E g \in Gens \ Used :
                   /\ block' = g
                   /\ chain' = [chain EXCEPT ![g] = Genesis(obj[Main].spec)]
             /\ todo' = obj[Main].spec.join
             /\ pc' = [pc EXCEPT ![Main] = "join"]
             /\ UNCHANGED <<queue, obj, objFresh, seen, current>>
    <3>1. obj[Main].spec \in ChannelSpec
      BY <1>0, <1>2, ChoiceAssumption DEF Create, WorkOK, Specs
    <3>2. Genesis(obj[Main].spec) \in Configuration
      BY <3>1 DEF Genesis, Configuration, ChannelSpec
    <3>3. WorkOK'
      BY <1>0, <1>2, <2>4, <3>1 DEF Create, WorkOK, ChannelSpec, Labels
    <3> QED BY <1>2, <2>1, <2>2, <2>4, <3>2, <3>3 DEF Create, FabricOK
  <2> QED BY <1>2, <2>3, <2>4 DEF Create
<1>3. ASSUME NEW o \in Orderers, Join(o)
      PROVE  TypeOK'
  <2>1. EnvOK'
    BY <1>3, FaultType DEF Join
  <2>2. WorkOK'
    <3>1. CASE Goto(Main, "fail")
      BY <1>0, <1>3, <3>1, GotoType DEF Join, Labels
    <3>2. CASE ~Goto(Main, "fail")
      BY <1>3, <3>2 DEF Join, WorkOK
    <3> QED BY <3>1, <3>2
  <2> QED BY <1>3, <2>1, <2>2 DEF Join, ApiOK, FabricOK, WorkOK
<1>4. ASSUME NEW k \in Followers, JoinPeer(k)
      PROVE  TypeOK'
  <2>1. WorkOK' /\ EnvOK'
    BY <1>0, <1>4, GotoType, FaultType DEF JoinPeer, Labels
  <2> QED BY <1>4, <2>1 DEF JoinPeer, ApiOK, FabricOK
<1> QED BY <1>1, <1>2, <1>3, <1>4 DEF Channel

\* Reading, modifying and updating the configuration.
LEMMA UpdateType ==
    ASSUME TypeOK, NEW k \in Keys, Update(k)
    PROVE  TypeOK'
<1> USE TypeParts
<1>1. CASE Fetch(k)
  <2>1. EnvOK'
    BY <1>1, FaultType DEF Fetch
  <2>2. WorkOK'
    <3>1. CASE Goto(k, "fail")
      BY <1>1, <3>1, GotoType DEF Fetch, Labels
    <3>2. CASE ~Goto(k, "fail")
      <4>1. PICK o \in Orderers :
               /\ Serves(o)
               /\ seen' = [seen EXCEPT ![k] = [gen |-> ledger[o], conf |-> chain[ledger[o]]]]
               /\ pc' = [pc EXCEPT ![k] = AfterFetch(k, chain[ledger[o]])]
        BY <1>1, <3>2 DEF Fetch
      <4>2. ledger[o] \in Gens /\ chain[ledger[o]] \in Configuration
        BY <4>1 DEF Serves, FabricOK
      <4>3. AfterFetch(k, chain[ledger[o]]) \in Labels
        BY DEF AfterFetch, Labels
      <4>4. /\ current' = [current EXCEPT ![k] = Elements]
            /\ UNCHANGED <<queue, obj, objFresh, block, todo>>
        BY <1>1, <3>2 DEF Fetch
      <4>5. pc' \in [Keys -> Labels] /\ seen' \in [Keys -> [gen : Gens \cup {None}, conf : Configuration]]
        BY <4>1, <4>2, <4>3 DEF WorkOK
      <4>6. \A j \in Keys : pc'[j] \notin {"idle", "panic"} => obj'[j].spec \in Specs(j)
        BY <1>1, <4>1, <4>4 DEF WorkOK, Fetch
      <4> QED BY <4>4, <4>5, <4>6 DEF WorkOK
    <3> QED BY <3>1, <3>2
  <2> QED BY <1>1, <2>1, <2>2 DEF Fetch, ApiOK, FabricOK
<1>2. CASE Submit(k) \/ SubmitFails(k)
  <2>1. EnvOK'
    BY <1>2, FaultType DEF Submit, SubmitFails
  <2>2. obj[k].spec \in Specs(k)
    BY <1>2 DEF Submit, SubmitFails, WorkOK
  <2>3. chain' \in [Gens -> Configuration] /\ current' \in [Keys -> SUBSET Elements]
    <3>1. CASE Commit(k)
      BY <2>2, <3>1, CommitType
    <3>2. CASE UNCHANGED <<chain, current>>
      BY <3>2 DEF WorkOK, FabricOK
    <3> QED BY <1>2, <3>1, <3>2 DEF Submit, SubmitFails
  <2> QED BY <1>2, <2>1, <2>3 DEF Submit, SubmitFails, ApiOK, WorkOK, FabricOK, Labels
<1>3. CASE Finish(k)
  <2>1. WorkOK' /\ EnvOK'
    BY <1>3, ReturnType, FaultType DEF Finish
  <2>2. ApiOK'
    BY <1>3, ObjectTypes, StoreType DEF Finish, ApiOK, Statuses
  <2> QED BY <1>3, <2>1, <2>2 DEF Finish, FabricOK
<1>4. CASE FinishFails(k)
  <2>1. EnvOK'
    BY <1>4, FaultType DEF FinishFails
  <2>2. WorkOK'
    <3>1. CASE Goto(k, "fail") \/ Return(k, TRUE)
      BY <1>4, <3>1, GotoType, ReturnType DEF FinishFails, Labels
    <3>2. CASE /\ obj' = [obj EXCEPT ![k].status = "Running"]
               /\ pc' = [pc EXCEPT ![k] = "fail"]
               /\ UNCHANGED <<queue, objFresh, block, todo, seen, current>>
      <4>1. /\ obj[k] \in Object(AnySpec) /\ obj[k].spec \in Specs(k)
            /\ [obj[k] EXCEPT !.status = "Running"] \in Object(AnySpec)
            /\ [obj[k] EXCEPT !.status = "Running"].spec = obj[k].spec
        BY <1>4, ObjectTypes DEF FinishFails, WorkOK, Statuses
      <4> QED BY <3>2, <4>1 DEF WorkOK, Labels
    <3> QED BY <1>4, <3>1, <3>2 DEF FinishFails
  <2> QED BY <1>4, <2>1, <2>2 DEF FinishFails, ApiOK, FabricOK
<1> QED BY <1>1, <1>2, <1>3, <1>4 DEF Update

LEMMA InitType == Init => TypeOK
<1> SUFFICES ASSUME Init PROVE TypeOK
  OBVIOUS
<1>1. [gen |-> None, conf |-> Empty] \in [gen : Gens \cup {None}, conf : Configuration]
  BY EmptyType
<1>2. PICK a \in [Followers -> Anchors] :
         cr = [k \in Keys |-> [spec |-> IF k = Main THEN First ELSE a[k],
                               status |-> "", phase |-> "new"]]
  BY DEF Init
<1>3. \A k \in Keys : cr[k].spec \in Specs(k) /\ cr[k] \in Object(AnySpec)
  BY <1>2, ChoiceAssumption DEF Specs, Object, AnySpec, Keys
<1>4. cr \in [Keys -> Object(AnySpec)]
  BY <1>2, <1>3
<1>5. ApiOK
  BY <1>3, <1>4 DEF Init, ApiOK
<1>6. WorkOK
  BY <1>1, ObjectTypes DEF Init, WorkOK, Labels
<1>7. FabricOK
  BY EmptyType DEF Init, FabricOK
<1>8. EnvOK
  <2>1. MaxEdits \in Nat /\ MaxFaults \in Nat /\ MaxCrashes \in Nat
    BY LimitAssumption
  <2>2. edits = 0 /\ faults = 0 /\ crashes = 0
    BY DEF Init
  <2> QED BY <2>1, <2>2 DEF EnvOK
<1> QED BY <1>5, <1>6, <1>7, <1>8, TypeParts

LEMMA NextType == TypeOK /\ [Next]_vars => TypeOK'
<1> SUFFICES ASSUME TypeOK, [Next]_vars PROVE TypeOK'
  OBVIOUS
<1>1. ASSUME NEW k \in Keys, Edit(k) \/ Delete(k) \/ CacheSync(k)
      PROVE  TypeOK'
  BY <1>1, OutsideType
<1>2. CASE Crash
  <2>1. Main \in Keys
    BY DEF Keys
  <2> QED BY <1>2, <2>1, OutsideType
<1>3. ASSUME NEW k \in Keys, Reconcile(k)
      PROVE  TypeOK'
  BY <1>3, ResourceType, JoiningType, UpdateType DEF Reconcile
<1>4. CASE UNCHANGED vars
  BY <1>4, TypeParts DEF ApiOK, WorkOK, FabricOK, EnvOK
<1> QED BY <1>1, <1>2, <1>3, <1>4 DEF Next

\* Whatever users, faults and crashes do, every variable keeps to its type: the
\* status of a channel is always one of those the controllers set, what is
\* submitted is a configuration, and a worker past its first read has a spec.
THEOREM TypeCorrect == Spec => []TypeOK
BY InitType, NextType, PTL DEF Spec

-----------------------------------------------------------------------------
(* An organization's anchor peers.                                           *)

Ledgers == {ledger[o] : o \in Orderers}

\* A genesis block nobody has joined with has no anchor peers, and a worker only
\* submits an update to a channel that some orderer has.
AnchorInv ==
    /\ \A g \in Gens \ Ledgers : \A j \in Orgs : chain[g].anchors[j] = None
    /\ \A k \in Keys : pc[k] = "submit" => seen[k].gen \in Ledgers \ {None}

\* Only Fetch leads to "submit", and none takes an orderer out of its channel.
LEMMA SubmitLabel ==
    ASSUME TypeOK, [Next]_vars, NEW k \in Keys, ~Fetch(k), pc'[k] = "submit"
    PROVE  pc[k] = "submit" /\ seen'[k] = seen[k]
<1> USE DEF TypeOK, Labels
<1>1. ASSUME NEW j \in Keys, Edit(j) \/ Delete(j) \/ CacheSync(j)
      PROVE  pc[k] = "submit" /\ seen'[k] = seen[k]
  BY <1>1 DEF Edit, Delete, CacheSync
<1>2. CASE Crash
  BY <1>2 DEF Crash
<1>3. ASSUME NEW j \in Keys, Resource(j)
      PROVE  pc[k] = "submit" /\ seen'[k] = seen[k]
  <2>1. CASE Begin(j)
    <3>1. cache[j].phase \in {"new", "managed", "deleting", "gone"}
      BY DEF Object
    <3> QED BY <2>1, <3>1 DEF Begin
  <2>5. CASE Panic(j)
    BY <2>5 DEF Panic, Return
  <2>2. CASE Adopt(j)
    BY <2>2 DEF Adopt, Return, Goto
  <2>3. CASE Finalize(j)
    BY <2>3 DEF Finalize, Return, Goto
  <2>4. CASE Fail(j)
    BY <2>4 DEF Fail, Return
  <2> QED BY <1>3, <2>1, <2>2, <2>3, <2>4, <2>5 DEF Resource
<1>4. ASSUME NEW j \in Keys, Update(j)
      PROVE  pc[k] = "submit" /\ seen'[k] = seen[k]
  <2>1. CASE Fetch(j)
    <3>1. j # k
      BY <2>1
    <3> QED BY <2>1, <3>1 DEF Fetch, Goto
  <2>2. CASE Submit(j) \/ SubmitFails(j) \/ Finish(j) \/ FinishFails(j)
    BY <2>2 DEF Submit, SubmitFails, Finish, FinishFails, Return, Goto
  <2> QED BY <1>4, <2>1, <2>2 DEF Update
<1>5. CASE Channel
  BY <1>5 DEF Channel, Query, Create, Join, JoinDone, Requery, Goto
<1>6. ASSUME NEW j \in Followers, JoinPeer(j)
      PROVE  pc[k] = "submit" /\ seen'[k] = seen[k]
  BY <1>6 DEF JoinPeer, Goto
<1>7. CASE UNCHANGED vars
  BY <1>7
<1> QED BY <1>1, <1>2, <1>3, <1>4, <1>5, <1>6, <1>7 DEF Next, Reconcile

LEMMA LedgerGrows ==
    ASSUME TypeOK, [Next]_vars
    PROVE  \A o \in Orderers : ledger[o] # None => ledger'[o] = ledger[o]
<1>1. ASSUME NEW o \in Orderers, Join(o)
      PROVE  \A p \in Orderers : ledger[p] # None => ledger'[p] = ledger[p]
  BY <1>1 DEF Join, TypeOK
<1>2. CASE ~\E o \in Orderers : Join(o)
  BY <1>2 DEF Next, Edit, Delete, CacheSync, Crash, Reconcile, Resource, Begin, Panic,
     Adopt, Finalize, Fail, Update, Fetch, Submit, SubmitFails, Finish, FinishFails,
     Channel, Query, Create, JoinDone, Requery, JoinPeer
<1> QED BY <1>1, <1>2

\* What changes a configuration: creating a channel nobody has, or an update.
LEMMA ChainStep ==
    ASSUME TypeOK, [Next]_vars, chain' # chain
    PROVE  \/ \E g \in Gens \ Used :
                 /\ pc[Main] = "create"
                 /\ chain' = [chain EXCEPT ![g] = Genesis(obj[Main].spec)]
           \/ \E k \in Keys : /\ pc[k] = "submit" /\ pc'[k] # "submit"
                            /\ Commit(k) /\ Applies(k)
<1>1. CASE Create
  BY <1>1 DEF Create
<1>2. ASSUME NEW k \in Keys, Submit(k) \/ SubmitFails(k)
      PROVE  pc[k] = "submit" /\ pc'[k] # "submit" /\ Commit(k) /\ Applies(k)
  BY <1>2 DEF Submit, SubmitFails, TypeOK
<1>3. CASE ~Create /\ \A k \in Keys : ~Submit(k) /\ ~SubmitFails(k)
  BY <1>3 DEF Next, Edit, Delete, CacheSync, Crash, Reconcile, Resource, Begin, Panic,
     Adopt, Finalize, Fail, Update, Fetch, Finish, FinishFails,
     Channel, Query, Join, JoinDone, Requery, JoinPeer
<1> QED BY <1>1, <1>2, <1>3

\* The update is that of the worker whose step it is.
LEMMA CommitsItself ==
    ASSUME TypeOK, [Next]_vars, chain' # chain, NEW k \in Keys,
           pc[k] = "submit", pc'[k] # "submit"
    PROVE  Commit(k) /\ Applies(k)
<1> USE DEF TypeOK, Labels
<1>1. ASSUME NEW j \in Keys, Submit(j) \/ SubmitFails(j)
      PROVE  j = k /\ Commit(j) /\ Applies(j)
  BY <1>1 DEF Submit, SubmitFails
<1>2. CASE Create
  <2>1. pc'[k] = pc[k]
    BY <1>2 DEF Create, Goto
  <2> QED BY <2>1
<1>3. CASE ~Create /\ \A j \in Keys : ~Submit(j) /\ ~SubmitFails(j)
  BY <1>3 DEF Next, Edit, Delete, CacheSync, Crash, Reconcile, Resource, Begin, Panic,
     Adopt, Finalize, Fail, Update, Fetch, Finish, FinishFails,
     Channel, Query, Join, JoinDone, Requery, JoinPeer
<1> QED BY <1>1, <1>2, <1>3

LEMMA AnchorStep == TypeOK /\ AnchorInv /\ [Next]_vars => AnchorInv'
<1> SUFFICES ASSUME TypeOK, AnchorInv, [Next]_vars PROVE AnchorInv'
  OBVIOUS
<1>1. Ledgers \ {None} \subseteq Ledgers'
  BY LedgerGrows DEF Ledgers
<1>2. ASSUME NEW g \in Gens \ Ledgers', NEW j \in Orgs
      PROVE  chain'[g].anchors[j] = None
  <2>1. g \notin Ledgers /\ g # None
    BY <1>1, <1>2, NoneAssumption
  <2>2. CASE chain' = chain
    BY <2>1, <2>2 DEF AnchorInv
  <2>3. ASSUME NEW h \in Gens \ Used,
               chain' = [chain EXCEPT ![h] = Genesis(obj[Main].spec)]
        PROVE  chain'[g].anchors[j] = None
    BY <2>1, <2>3 DEF AnchorInv, Genesis, TypeOK
  <2>4. ASSUME NEW k \in Keys, pc[k] = "submit", Commit(k)
        PROVE  chain'[g].anchors[j] = None
    <3>1. seen[k].gen # g
      BY <2>1, <2>4 DEF AnchorInv
    <3> QED BY <2>1, <2>4, <3>1 DEF AnchorInv, Commit, TypeOK
  <2> QED BY <2>2, <2>3, <2>4, ChainStep
<1>3. ASSUME NEW k \in Keys, pc'[k] = "submit"
      PROVE  seen'[k].gen \in Ledgers' \ {None}
  <2>1. CASE Fetch(k)
    <3>1. PICK o \in Orderers : Serves(o) /\ seen'[k].gen = ledger[o]
      BY <1>3, <2>1 DEF Fetch, Goto, TypeOK
    <3> QED BY <2>1, <3>1 DEF Fetch, Serves, Ledgers
  <2>2. CASE ~Fetch(k)
    BY <1>1, <1>3, <2>2, SubmitLabel DEF AnchorInv
  <2> QED BY <2>1, <2>2
<1> QED BY <1>2, <1>3 DEF AnchorInv

\* An update by the main channel leaves the anchor peers of the organizations that
\* stay as they are; one by a follower channel sets those of its organization.
LEMMA UpdatedAnchors ==
    ASSUME NEW k \in Keys, NEW conf \in Configuration, NEW old \in Configuration,
           NEW j \in conf.orgs \cap Updated(conf, old, Draft(k, old)).orgs,
           Updated(conf, old, Draft(k, old)).anchors[j] # conf.anchors[j]
    PROVE  /\ k # Main /\ j = k
           /\ Updated(conf, old, Draft(k, old)).anchors[j] = obj[k].spec
<1> DEFINE new == Draft(k, old)
<1>0. j \in Orgs
  BY DEF Configuration
<1>1. j \in Touched(old, new) /\ Updated(conf, old, new).anchors[j] = new.anchors[j]
  BY <1>0 DEF Updated
<1>2. j \in old.orgs \cap new.orgs /\ old.anchors[j] # new.anchors[j]
  BY <1>1 DEF Touched, Kept
<1>3. k # Main
  <2> SUFFICES ASSUME k = Main PROVE new.anchors[j] = old.anchors[j]
    BY <1>2
  <2> QED BY <1>0, <1>2 DEF Draft, MainDraft
<1>4. new = [old EXCEPT !.anchors[k] = obj[k].spec]
  BY <1>3 DEF Draft, FollowerDraft
<1>5. j = k /\ new.anchors[j] = obj[k].spec
  BY <1>0, <1>2, <1>4 DEF Configuration
<1> QED BY <1>1, <1>3, <1>5

\* Whatever the main channel and the follower channels of all organizations do at
\* the same time, the anchor peers of an organization that stays in the channel are
\* changed by its own follower channel only, to what that one's spec says.
THEOREM AnchorsAreTheOrganizations == Spec => AnchorsSurvive
<1>1. Init => AnchorInv
  <2> SUFFICES ASSUME Init PROVE AnchorInv
    OBVIOUS
  <2>1. \A g \in Gens : chain[g] = Empty
    BY DEF Init
  <2>2. \A j \in Orgs : Empty.anchors[j] = None
    BY DEF Empty
  <2>3. \A k \in Keys : pc[k] = "idle"
    BY DEF Init
  <2> QED BY <2>1, <2>2, <2>3 DEF AnchorInv
<1>2. TypeOK /\ AnchorInv /\ [Next]_vars
      => [\A g \in Gens, k \in Orgs :
             /\ ledger' = ledger /\ k \in chain[g].orgs \cap chain'[g].orgs
             /\ chain'[g].anchors[k] # chain[g].anchors[k]
             => /\ k \in Followers /\ pc[k] = "submit"
                /\ chain'[g].anchors[k] = obj[k].spec]_vars
  <2> SUFFICES ASSUME TypeOK, AnchorInv, [Next]_vars, NEW g \in Gens, NEW j \in Orgs,
                      j \in chain[g].orgs \cap chain'[g].orgs,
                      chain'[g].anchors[j] # chain[g].anchors[j]
               PROVE  /\ j \in Followers /\ pc[j] = "submit"
                      /\ chain'[g].anchors[j] = obj[j].spec
    OBVIOUS
  <2>1. ASSUME NEW h \in Gens \ Used,
               chain' = [chain EXCEPT ![h] = Genesis(obj[Main].spec)]
        PROVE  FALSE
    <3>1. h \notin Ledgers
      BY <2>1 DEF Used, Ledgers
    <3> QED BY <2>1, <3>1 DEF AnchorInv, Genesis, TypeOK
  <2>2. ASSUME NEW k \in Keys, pc[k] = "submit", Commit(k)
        PROVE  /\ j \in Followers /\ pc[j] = "submit"
               /\ chain'[g].anchors[j] = obj[j].spec
    <3>1. g = seen[k].gen
      BY <2>2 DEF Commit, TypeOK
    <3>2. chain'[g] = Updated(chain[g], seen[k].conf, Draft(k, seen[k].conf))
      BY <2>2, <3>1 DEF Commit, TypeOK
    <3>3. chain[g] \in Configuration /\ seen[k].conf \in Configuration
      BY DEF TypeOK
    <3>4. k # Main /\ j = k /\ chain'[g].anchors[j] = obj[k].spec
      BY <3>2, <3>3, UpdatedAnchors
    <3> QED BY <2>2, <3>4 DEF Keys
  <2> QED BY <2>1, <2>2, ChainStep
<1> QED BY <1>1, <1>2, AnchorStep, TypeCorrect, PTL DEF Spec, AnchorsSurvive

-----------------------------------------------------------------------------
(* One genesis block, where an orderer that has the channel answers.         *)

\* The main channel only creates a channel that no orderer has, and while it has
\* orderers join no orderer has another one.
GenesisInv ==
    /\ OneGenesis
    /\ pc[Main] = "create" => \A o \in Orderers : ledger[o] = None
    /\ pc[Main] = "join" => \A o \in Orderers : ledger[o] \in {None, block}

LEMMA ServesAlone ==
    ASSUME ReadQuorum = 1, NEW o \in Orderers, ledger[o] # None
    PROVE  Serves(o)
<1> DEFINE J == Joined(ledger[o])
<1>1. J \subseteq Orderers /\ o \in J
  BY DEF Joined
<1>2. IsFiniteSet(J)
  BY <1>1, OrderersFinite, FS_Subset
<1>3. Cardinality(J) \in Nat /\ Cardinality(J) # 0
  BY <1>1, <1>2, FS_CardinalityType, FS_EmptySet
<1> QED BY <1>3 DEF Serves

\* Every other step leaves orderers and peers alone and does not lead into creation.
LEMMA GenesisLabels ==
    ASSUME TypeOK, NEW k \in Keys,
           \/ Edit(k) \/ Delete(k) \/ CacheSync(k) \/ Crash
           \/ Resource(k) \/ Update(k) \/ JoinDone \/ Requery
    PROVE  /\ UNCHANGED <<ledger, peer>>
           /\ pc'[Main] \in {"create", "join"} => pc'[Main] = pc[Main] /\ block' = block
<1> USE DEF TypeOK, Labels, Keys
<1>1. CASE Edit(k) \/ Delete(k) \/ CacheSync(k) \/ Crash
  BY <1>1 DEF Edit, Delete, CacheSync, Crash
<1>2. CASE Resource(k)
  <2>1. CASE Begin(k)
    <3>1. cache[k].phase \in {"new", "managed", "deleting", "gone"}
      BY DEF Object
    <3> QED BY <2>1, <3>1 DEF Begin
  <2>2. CASE Panic(k)
    BY <2>2 DEF Panic, Return
  <2>3. CASE Adopt(k)
    BY <2>3 DEF Adopt, Return, Goto
  <2>4. CASE Finalize(k)
    BY <2>4 DEF Finalize, Return, Goto
  <2>5. CASE Fail(k)
    BY <2>5 DEF Fail, Return
  <2> QED BY <1>2, <2>1, <2>2, <2>3, <2>4, <2>5 DEF Resource
<1>3. CASE Update(k)
  <2>1. CASE Fetch(k)
    BY <2>1 DEF Fetch, AfterFetch, Goto
  <2>2. CASE Submit(k) \/ SubmitFails(k)
    BY <2>2 DEF Submit, SubmitFails
  <2>3. CASE Finish(k)
    BY <2>3 DEF Finish, Return
  <2>4. CASE FinishFails(k)
    BY <2>4 DEF FinishFails, Return, Goto
  <2> QED BY <1>3, <2>1, <2>2, <2>3, <2>4 DEF Update
<1>4. CASE JoinDone \/ Requery
  BY <1>4 DEF JoinDone, Requery, Goto
<1> QED BY <1>1, <1>2, <1>3, <1>4

LEMMA GenesisStep ==
    ASSUME ReadQuorum = 1, "query" \notin Faulty, TypeOK, GenesisInv, [Next]_vars
    PROVE  GenesisInv'
<1>0. Main \in Keys /\ Main \notin Followers /\ Followers \subseteq Keys
  BY KeyAssumption DEF Keys
<1>1. ASSUME NEW k \in Keys,
             \/ Edit(k) \/ Delete(k) \/ CacheSync(k) \/ Crash
             \/ Resource(k) \/ Update(k) \/ JoinDone \/ Requery
      PROVE  GenesisInv'
  BY <1>1, GenesisLabels DEF GenesisInv, OneGenesis
<1>2. CASE Query
  <2>1. UNCHANGED <<ledger, peer>> /\ pc'[Main] # "join"
    BY <1>0, <1>2 DEF Query, Goto, TypeOK
  <2>2. pc'[Main] = "create" => ~SomeServe
    BY <1>0, <1>2 DEF Query, Goto, Fault, TypeOK
  <2>3. pc'[Main] = "create" => \A o \in Orderers : ledger[o] = None
    BY <2>2, ServesAlone DEF SomeServe
  <2> QED BY <2>1, <2>3 DEF GenesisInv, OneGenesis
<1>3. CASE Create
  <2>1. UNCHANGED <<ledger, peer>> /\ \A o \in Orderers : ledger[o] = None
    BY <1>3 DEF Create, GenesisInv
  <2>2. pc'[Main] # "create"
    BY <1>0, <1>3 DEF Create, Goto, TypeOK
  <2> QED BY <2>1, <2>2 DEF GenesisInv, OneGenesis
<1>4. ASSUME NEW o \in Orderers, Join(o)
      PROVE  GenesisInv'
  <2>1. \A p \in Orderers : ledger[p] \in {None, block}
    BY <1>4 DEF Join, GenesisInv
  <2>2. /\ \A p \in Orderers : ledger'[p] \in {None, block}
        /\ \A p \in Orderers : ledger[p] # None => ledger'[p] = ledger[p]
    BY <1>4, <2>1 DEF Join, TypeOK
  <2>3. peer' = peer /\ block' = block
    BY <1>4 DEF Join, Goto
  <2>4. pc'[Main] # "create"
    BY <1>0, <1>4 DEF Join, Goto, TypeOK
  <2> QED BY <2>2, <2>3, <2>4 DEF GenesisInv, OneGenesis
<1>5. ASSUME NEW k \in Followers, JoinPeer(k)
      PROVE  GenesisInv'
  <2>1. UNCHANGED <<ledger, block>> /\ pc'[Main] = pc[Main]
    BY <1>0, <1>5 DEF JoinPeer, Goto, TypeOK
  <2>2. \A j \in Followers : peer'[j] # None => \E o \in Orderers : ledger[o] = peer'[j]
    BY <1>5 DEF JoinPeer, GenesisInv, OneGenesis, TypeOK
  <2> QED BY <2>1, <2>2 DEF GenesisInv, OneGenesis
<1>6. CASE UNCHANGED vars
  BY <1>6 DEF GenesisInv, OneGenesis
<1> QED BY <1>0, <1>1, <1>2, <1>3, <1>4, <1>5, <1>6 DEF Next, Reconcile, Channel

\* If an orderer that has the channel delivers it by itself (a BFT channel, or one
\* consenter) and no query is lost, then orderers that join one by one, some of them
\* before a failure or a restart, never get different genesis blocks, and a peer has
\* one only if an orderer has.
THEOREM ChannelIsCreatedOnce ==
    ASSUME ReadQuorum = 1, "query" \notin Faulty
    PROVE  Spec => []OneGenesis
<1>1. Init => GenesisInv
  BY KeyAssumption DEF Init, GenesisInv, OneGenesis, Keys
<1>2. TypeOK /\ GenesisInv /\ [Next]_vars => GenesisInv'
  BY GenesisStep
<1>3. GenesisInv => OneGenesis
  BY DEF GenesisInv
<1> QED BY <1>1, <1>2, <1>3, TypeCorrect, PTL DEF Spec

-----------------------------------------------------------------------------
(* What a settled resource says is so.  What makes it inductive: a worker     *)
(* whose pass no other will follow works on the last spec, and the channel is *)
(* what a worker has read, or has made it, as far as no one else changes it.  *)

\* There is a pass to come.
Awaited(k) == k \in queue \/ k \notin synced

CopyLinked(k) ==
    /\ k \in synced => cache[k] = cr[k]
    /\ cache[k].phase = "gone" => cr[k].phase = "gone"
    /\ pc[k] = "adopt" /\ k \in objFresh => cr[k].phase # "gone"
    /\ pc[k] # "idle" /\ ~Awaited(k) => obj[k].spec = cr[k].spec

\* What the others do to k's part: nothing.
Apart(k) ==
    /\ cr'[k] = cr[k] /\ cache'[k] = cache[k] /\ pc'[k] = pc[k] /\ obj'[k] = obj[k]
    /\ seen'[k] = seen[k]
    /\ k \in synced' <=> k \in synced
    /\ k \in queue' <=> k \in queue
    /\ k \in objFresh' <=> k \in objFresh

LEMMA ApartStep ==
    ASSUME TypeOK, NEW k \in Keys, NEW j \in Keys, j # k,
           Edit(j) \/ Delete(j) \/ CacheSync(j) \/ Reconcile(j)
    PROVE  Apart(k)
<1> USE DEF Apart
<1>0. ApiOK /\ WorkOK
  BY TypeParts
<1> USE DEF ApiOK, WorkOK
<1>1. CASE Edit(j) \/ Delete(j) \/ CacheSync(j)
  BY <1>0, <1>1 DEF Edit, Delete, CacheSync, Store
<1>2. CASE Begin(j) \/ Panic(j) \/ Adopt(j)
  BY <1>0, <1>2 DEF Begin, Panic, Adopt, Store, Return, Goto
<1>3. CASE Finalize(j) \/ Fail(j)
  BY <1>0, <1>3 DEF Finalize, Fail, Store, Return, Goto
<1>4. CASE Fetch(j) \/ Submit(j) \/ SubmitFails(j)
  BY <1>0, <1>4 DEF Fetch, Submit, SubmitFails, Goto
<1>5. CASE Finish(j) \/ FinishFails(j)
  BY <1>0, <1>5 DEF Finish, FinishFails, Store, Return, Goto
<1>6. CASE j = Main /\ Channel
  BY <1>0, <1>6 DEF Channel, Query, Create, Join, JoinDone, Requery, Goto
<1>7. CASE JoinPeer(j)
  BY <1>0, <1>7 DEF JoinPeer, Goto
<1> QED BY <1>1, <1>2, <1>3, <1>4, <1>5, <1>6, <1>7 DEF Reconcile, Resource, Update

\* The spec, phase and status of a changed object.
LEMMA FieldsOf ==
    ASSUME NEW o \in Object(AnySpec)
    PROVE  /\ \A x : /\ [o EXCEPT !.spec = x].phase = o.phase
                    /\ [o EXCEPT !.spec = x].status = o.status
           /\ \A x : /\ [o EXCEPT !.phase = x].spec = o.spec
                    /\ [o EXCEPT !.phase = x].phase = x
                    /\ [o EXCEPT !.phase = x].status = o.status
           /\ \A x : /\ [o EXCEPT !.status = x].spec = o.spec
                    /\ [o EXCEPT !.status = x].phase = o.phase
                    /\ [o EXCEPT !.status = x].status = x
BY DEF Object

\* A new version of k's object, and the end of a pass.
LEMMA StoreStep ==
    ASSUME ApiOK, NEW k \in Keys, NEW o, Store(k, o)
    PROVE  cr'[k] = o /\ (k \in synced' => k \in synced /\ cr'[k] = cr[k])
BY DEF ApiOK, Store

LEMMA ReturnStep ==
    ASSUME WorkOK, NEW k \in Keys, NEW requeue, Return(k, requeue)
    PROVE  /\ pc'[k] = "idle" /\ (k \in queue => k \in queue')
           /\ requeue = TRUE => k \in queue'
BY DEF WorkOK, Return

\* A worker's own steps other than the first.
LEMMA WorkerStep ==
    ASSUME TypeOK, NEW k \in Keys, Reconcile(k), ~Begin(k)
    PROVE  /\ pc[k] # "idle" /\ cache' = cache
           /\ cr'[k].spec = cr[k].spec
           /\ cr[k].phase = "gone" => \/ cr'[k].phase = "gone"
                                      \/ pc[k] = "adopt" /\ k \in objFresh
           /\ pc'[k] # "adopt"
           /\ k \in synced' => k \in synced /\ cr'[k] = cr[k]
           /\ k \in queue => k \in queue'
           /\ pc'[k] # "idle" => obj'[k].spec = obj[k].spec
           /\ pc'[k] = "idle" => \/ k \in queue' \/ Finish(k)
                                 \/ cr'[k].phase = "gone"
<1>0. ApiOK /\ WorkOK /\ cr[k] \in Object(AnySpec) /\ obj[k] \in Object(AnySpec)
  BY TypeParts DEF ApiOK, WorkOK
<1> USE DEF ApiOK, WorkOK
<1>2. CASE Panic(k)
  BY <1>0, <1>2 DEF Panic, Return
<1>3. CASE Adopt(k)
  <2>1. pc[k] = "adopt" /\ cache' = cache
    BY <1>3 DEF Adopt
  <2>2. CASE /\ k \in objFresh /\ Store(k, [cr[k] EXCEPT !.phase = "managed"])
             /\ obj' = [obj EXCEPT ![k].phase = "managed"]
             /\ pc' = [pc EXCEPT ![k] = IF k = Main THEN "query" ELSE "joinPeer"]
             /\ queue' = queue
    <3>1. obj'[k] = [obj[k] EXCEPT !.phase = "managed"] /\ pc'[k] # "idle"
      BY <1>0, <2>2
    <3> QED BY <1>0, <2>1, <2>2, <3>1 DEF Store, Object
  <2>3. CASE UNCHANGED <<cr, synced>> /\ Goto(k, "fail")
    BY <1>0, <2>1, <2>3 DEF Goto
  <2>4. CASE UNCHANGED <<cr, synced>> /\ Return(k, TRUE)
    BY <1>0, <2>1, <2>4, ReturnStep
  <2> QED BY <1>3, <2>2, <2>3, <2>4 DEF Adopt
<1>4. CASE Finalize(k)
  <2>1. pc[k] = "finalize" /\ cache' = cache
    BY <1>4 DEF Finalize
  <2>2. CASE Store(k, [cr[k] EXCEPT !.phase = "gone"])
    <3>1. /\ cr'[k].spec = cr[k].spec /\ cr'[k].phase = "gone"
          /\ k \in synced' => k \in synced /\ cr'[k] = cr[k]
      BY <1>0, <2>2 DEF Store, Object
    <3>2. CASE Return(k, FALSE)
      BY <1>0, <2>1, <3>1, <3>2, ReturnStep
    <3>3. CASE UNCHANGED <<queue, obj>> /\ pc' = [pc EXCEPT ![k] = "query"]
      BY <1>0, <2>1, <3>1, <3>3
    <3>4. CASE Return(k, TRUE)
      BY <1>0, <2>1, <3>1, <3>4, ReturnStep
    <3>5. CASE Goto(k, "fail")
      BY <1>0, <2>1, <3>1, <3>5 DEF Goto
    <3> QED BY <1>4, <3>2, <3>3, <3>4, <3>5 DEF Finalize
  <2>3. CASE UNCHANGED <<cr, synced>> /\ Goto(k, "fail")
    BY <1>0, <2>1, <2>3 DEF Goto
  <2>4. CASE UNCHANGED <<cr, synced>> /\ Return(k, TRUE)
    BY <1>0, <2>1, <2>4, ReturnStep
  <2> QED BY <1>4, <2>2, <2>3, <2>4 DEF Finalize
<1>5. CASE Fail(k)
  <2>1. pc[k] = "fail" /\ cache' = cache /\ Return(k, TRUE)
    BY <1>5 DEF Fail
  <2>2. /\ cr'[k].spec = cr[k].spec /\ cr'[k].phase = cr[k].phase
        /\ k \in synced' => k \in synced /\ cr'[k] = cr[k]
    <3>1. CASE Store(k, [cr[k] EXCEPT !.status = "Failed"])
      BY <1>0, <3>1 DEF Store, Object
    <3> QED BY <1>5, <3>1 DEF Fail
  <2> QED BY <1>0, <2>1, <2>2, ReturnStep
<1>6. CASE Fetch(k)
  BY <1>0, <1>6 DEF Fetch, Goto, AfterFetch
<1>7. CASE Submit(k) \/ SubmitFails(k)
  BY <1>0, <1>7 DEF Submit, SubmitFails
<1>8. CASE Finish(k)
  BY <1>0, <1>8, FieldsOf DEF Finish, Store, Return
<1>9. CASE FinishFails(k)
  <2>1. pc[k] = "finish" /\ UNCHANGED <<cr, cache, synced>>
    BY <1>9 DEF FinishFails
  <2>2. CASE Goto(k, "fail")
    BY <1>0, <2>1, <2>2 DEF Goto
  <2>3. CASE Return(k, TRUE)
    BY <1>0, <2>1, <2>3, ReturnStep
  <2>4. CASE obj' = [obj EXCEPT ![k].status = "Running"] /\ pc' = [pc EXCEPT ![k] = "fail"]
             /\ queue' = queue
    <3>1. obj'[k] = [obj[k] EXCEPT !.status = "Running"]
      BY <1>0, <2>4
    <3> QED BY <1>0, <2>1, <2>4, <3>1, FieldsOf
  <2> QED BY <1>9, <2>2, <2>3, <2>4 DEF FinishFails
<1>10. CASE k = Main /\ Channel
  BY <1>0, <1>10 DEF Channel, Query, Create, Join, JoinDone, Requery, Goto
<1>11. CASE JoinPeer(k)
  BY <1>0, <1>11 DEF JoinPeer, Goto
<1> QED BY <1>2, <1>3, <1>4, <1>5, <1>6, <1>7, <1>8, <1>9, <1>10, <1>11
        DEF Reconcile, Resource, Update

\* The copies of a resource go on as they did.
LEMMA CopyStep ==
    ASSUME TypeOK, NEW k \in Keys, CopyLinked(k), [Next]_vars
    PROVE  CopyLinked(k)'
<1>0. ApiOK /\ WorkOK
  BY TypeParts
<1>1. ASSUME NEW j \in Keys \ {k}, Edit(j) \/ Delete(j) \/ CacheSync(j) \/ Reconcile(j)
      PROVE  CopyLinked(k)'
  BY <1>1, ApartStep DEF Apart, CopyLinked, Awaited
<1>2. CASE Edit(k) \/ Delete(k)
  <2>1. UNCHANGED <<cache, queue, pc, obj>>
    BY <1>2 DEF Edit, Delete
  <2>2. cr[k].phase # "gone" /\ k \notin objFresh'
    BY <1>2 DEF Edit, Delete
  <2>3. k \in synced' => k \in synced /\ cr'[k] = cr[k]
    BY <1>0, <1>2 DEF Edit, Delete, Store, ApiOK
  <2> QED BY <2>1, <2>2, <2>3 DEF CopyLinked, Awaited
<1>3. CASE CacheSync(k)
  BY <1>0, <1>3 DEF CacheSync, CopyLinked, Awaited, ApiOK
<1>4. CASE Begin(k)
  BY <1>0, <1>4 DEF Begin, CopyLinked, Awaited, ApiOK, WorkOK
<1>5. CASE Reconcile(k) /\ ~Begin(k)
  BY <1>5, WorkerStep DEF CopyLinked, Awaited
<1>6. CASE Crash
  BY <1>0, <1>6 DEF Crash, CopyLinked
<1>7. CASE UNCHANGED vars
  BY <1>7 DEF CopyLinked, Awaited
<1> QED BY <1>1, <1>2, <1>3, <1>4, <1>5, <1>6, <1>7 DEF Next

\* A resource is settled by a last pass that found and left it so.
LEMMA SettledStep ==
    ASSUME TypeOK, NEW k \in Keys, CopyLinked(k), [Next]_vars, Settled(k)'
    PROVE  /\ cr'[k] = cr[k]
           /\ Settled(k) \/ (Finish(k) /\ obj[k].spec = cr[k].spec)
<1>0. ApiOK /\ WorkOK
  BY TypeParts
<1>1. ASSUME NEW j \in Keys \ {k}, Edit(j) \/ Delete(j) \/ CacheSync(j) \/ Reconcile(j)
      PROVE  cr'[k] = cr[k] /\ Settled(k)
  BY <1>1, ApartStep DEF Apart, Settled
<1>2. CASE Edit(k) \/ Delete(k)
  <2>1. UNCHANGED <<queue, pc>>
    BY <1>2 DEF Edit, Delete
  <2>2. k \in synced' => k \in synced /\ cr'[k] = cr[k]
    BY <1>0, <1>2 DEF Edit, Delete, Store, ApiOK
  <2> QED BY <2>1, <2>2 DEF Settled
<1>3. CASE CacheSync(k)
  BY <1>3 DEF CacheSync, Settled
<1>4. CASE Begin(k)
  <2>1. pc'[k] = "idle" => cache[k].phase = "gone"
    BY <1>0, <1>4 DEF Begin, ApiOK, WorkOK, Object
  <2>2. cr' = cr
    BY <1>4 DEF Begin
  <2> QED BY <2>1, <2>2 DEF Settled, CopyLinked
<1>5. CASE Reconcile(k) /\ ~Begin(k)
  BY <1>5, WorkerStep DEF CopyLinked, Awaited, Settled
<1>6. CASE Crash
  BY <1>6 DEF Crash, Settled
<1>7. CASE UNCHANGED vars
  BY <1>7 DEF Settled
<1> QED BY <1>1, <1>2, <1>3, <1>4, <1>5, <1>6, <1>7 DEF Next

-----------------------------------------------------------------------------
(* No resource is forgotten.                                                  *)

\* Nothing is at work on k and nothing is going to be.
AtRest(k) == pc[k] = "idle" /\ k \notin queue /\ k \in synced

\* A resource that nothing will look at again is gone or reported Running.
NoneForgotten == \A k \in Keys : AtRest(k) => cr[k].phase = "gone" \/ Settled(k)

\* A worker past the finalizer whose copy is the last version works on a managed one.
RestInv(k) ==
    /\ pc[k] \notin {"idle", "panic", "adopt", "finalize", "fail"} /\ k \in objFresh
          => cr[k].phase = "managed"
    /\ AtRest(k) => cr[k].phase = "gone" \/ Settled(k)

LEMMA ManagedStep ==
    ASSUME TypeOK, NEW k \in Keys, CopyLinked(k), RestInv(k), [Next]_vars,
           pc'[k] \notin {"idle", "panic", "adopt", "finalize", "fail"}, k \in objFresh'
    PROVE  cr'[k].phase = "managed"
<1>0. /\ ApiOK /\ WorkOK
      /\ cr[k] \in Object(AnySpec) /\ cache[k] \in Object(AnySpec)
  BY TypeParts DEF ApiOK
<1> USE DEF ApiOK, WorkOK
<1>1. ASSUME NEW j \in Keys \ {k}, Edit(j) \/ Delete(j) \/ CacheSync(j) \/ Reconcile(j)
      PROVE  cr'[k].phase = "managed"
  BY <1>1, ApartStep DEF Apart, RestInv
<1>2. CASE Edit(k) \/ Delete(k) \/ Crash
  BY <1>2 DEF Edit, Delete, Crash
<1>3. CASE CacheSync(k)
  BY <1>3 DEF CacheSync, RestInv
<1>4. CASE Begin(k)
  <2>1. k \in synced /\ cache[k].phase = "managed" /\ cr' = cr
    BY <1>0, <1>4 DEF Begin, Object
  <2> QED BY <2>1 DEF CopyLinked
<1>5. CASE Adopt(k)
  <2>1. Store(k, [cr[k] EXCEPT !.phase = "managed"])
    BY <1>0, <1>5 DEF Adopt, Goto, Return
  <2>2. cr'[k] = [cr[k] EXCEPT !.phase = "managed"]
    BY <1>0, <2>1, StoreStep
  <2> QED BY <1>0, <2>2, FieldsOf
<1>6. CASE Panic(k) \/ Finalize(k) \/ Fail(k)
  BY <1>0, <1>6 DEF Panic, Finalize, Fail, Return, Goto
<1>7. CASE \/ Fetch(k) \/ Submit(k) \/ SubmitFails(k) \/ Finish(k) \/ FinishFails(k)
           \/ (k = Main /\ Channel) \/ JoinPeer(k)
  <2>1. /\ pc[k] \notin {"idle", "panic", "adopt", "finalize", "fail"}
        /\ k \in objFresh /\ cr' = cr
    BY <1>0, <1>7 DEF Fetch, Submit, SubmitFails, Finish, FinishFails, Channel, Query,
       Create, Join, JoinDone, Requery, JoinPeer, Return, Goto
  <2> QED BY <2>1 DEF RestInv
<1>8. CASE UNCHANGED vars
  BY <1>8 DEF RestInv
<1> QED BY <1>1, <1>2, <1>3, <1>4, <1>5, <1>6, <1>7, <1>8
        DEF Next, Reconcile, Resource, Update

LEMMA RestStep ==
    ASSUME TypeOK, NEW k \in Keys, CopyLinked(k), RestInv(k), [Next]_vars
    PROVE  RestInv(k)'
<1>0. /\ ApiOK /\ WorkOK
      /\ cr[k] \in Object(AnySpec) /\ cache[k] \in Object(AnySpec)
  BY TypeParts DEF ApiOK
<1> SUFFICES ASSUME AtRest(k)' PROVE cr'[k].phase = "gone" \/ Settled(k)'
  BY ManagedStep DEF RestInv
<1>1. ASSUME NEW j \in Keys \ {k}, Edit(j) \/ Delete(j) \/ CacheSync(j) \/ Reconcile(j)
      PROVE  cr'[k].phase = "gone" \/ Settled(k)'
  BY <1>1, ApartStep DEF Apart, RestInv, AtRest, Settled
<1>2. CASE Edit(k) \/ Delete(k)
  <2>1. PICK o : Store(k, o) /\ o # cr[k]
    <3>1. CASE Edit(k)
      <4>1. PICK s : s # cr[k].spec /\ Store(k, [cr[k] EXCEPT !.spec = s])
        BY <3>1 DEF Edit
      <4>2. [cr[k] EXCEPT !.spec = s].spec = s
        BY <1>0 DEF Object
      <4> QED BY <4>1, <4>2
    <3>2. CASE Delete(k)
      <4>1. PICK p \in {"gone", "deleting"} :
               p # cr[k].phase /\ Store(k, [cr[k] EXCEPT !.phase = p])
        BY <3>2 DEF Delete
      <4>2. [cr[k] EXCEPT !.phase = p].phase = p
        BY <1>0, FieldsOf
      <4> QED BY <4>1, <4>2
    <3> QED BY <1>2, <3>1, <3>2
  <2> QED BY <2>1 DEF Store, AtRest
<1>3. CASE CacheSync(k)
  BY <1>3 DEF CacheSync, AtRest
<1>4. CASE Begin(k)
  <2>1. cache[k].phase = "gone" /\ cr' = cr
    BY <1>0, <1>4 DEF Begin, AtRest, ApiOK, WorkOK, Object
  <2> QED BY <2>1 DEF CopyLinked
<1>5. CASE Reconcile(k) /\ ~Begin(k)
  <2>1. Finish(k) \/ cr'[k].phase = "gone"
    BY <1>5, WorkerStep DEF AtRest
  <2>2. CASE Finish(k)
    <3>1. cr[k].phase = "managed" /\ Store(k, [cr[k] EXCEPT !.status = "Running"])
      BY <2>2 DEF Finish, RestInv
    <3>2. cr'[k] = [cr[k] EXCEPT !.status = "Running"]
      BY <1>0, <3>1, StoreStep
    <3>3. cr'[k].phase = "managed" /\ cr'[k].status = "Running"
      BY <1>0, <3>1, <3>2, FieldsOf
    <3> QED BY <3>3 DEF AtRest, Settled
  <2> QED BY <2>1, <2>2
<1>6. CASE Crash
  BY <1>6 DEF Crash, AtRest
<1>7. CASE UNCHANGED vars
  BY <1>7 DEF RestInv, AtRest, Settled
<1> QED BY <1>1, <1>2, <1>3, <1>4, <1>5, <1>6, <1>7 DEF Next

\* Whatever fails, conflicts, panics or restarts, a resource is never left alone before it
\* is Running or gone: no pass ends without another to come unless it has reported
\* success on the last version.
THEOREM Remembered == Spec => []NoneForgotten
<1> DEFINE All == \A k \in Keys : CopyLinked(k) /\ RestInv(k)
<1>1. Init => All
  BY DEF Init, CopyLinked, RestInv, AtRest
<1>2. TypeOK /\ All /\ [Next]_vars => All'
  BY CopyStep, RestStep
<1>3. All => NoneForgotten
  BY DEF RestInv, NoneForgotten
<1> QED BY <1>1, <1>2, <1>3, TypeCorrect, PTL DEF Spec

-----------------------------------------------------------------------------
(* A follower channel that is settled, where the main channel keeps the       *)
(* organizations of the follower channels.                                    *)

\* The labels at which a worker is about to change or to report something.
LEMMA WorkLabels ==
    ASSUME TypeOK, [Next]_vars, NEW k \in Keys
    PROVE  /\ pc'[k] = "finish" => \/ Fetch(k) \/ Submit(k)
                                   \/ pc[k] = "finish" /\ seen'[k] = seen[k]
           /\ pc'[k] \in {"fetch", "submit", "finish"} =>
                 \/ pc[k] \in {"fetch", "submit", "finish"} \/ k = Main \/ JoinPeer(k)
           /\ pc'[k] \in {"submit", "finish"} => obj'[k].spec = obj[k].spec
<1> USE DEF Labels
<1>0. ApiOK /\ WorkOK
  BY TypeParts
<1>1. ASSUME NEW j \in Keys \ {k}, Edit(j) \/ Delete(j) \/ CacheSync(j) \/ Reconcile(j)
      PROVE  pc'[k] = pc[k] /\ seen'[k] = seen[k] /\ obj'[k] = obj[k]
  BY <1>1, ApartStep DEF Apart
<1>2. CASE Edit(k) \/ Delete(k) \/ CacheSync(k)
  BY <1>2 DEF Edit, Delete, CacheSync
<1>3. CASE Crash
  BY <1>3 DEF Crash
<1>4. CASE Begin(k)
  <2>1. cache[k].phase \in {"new", "managed", "deleting", "gone"}
    BY <1>0 DEF Object, ApiOK
  <2> QED BY <1>0, <1>4, <2>1 DEF Begin, WorkOK
<1>5. CASE Panic(k) \/ Adopt(k)
  BY <1>0, <1>5 DEF Panic, Adopt, Return, Goto, WorkOK
<1>6. CASE Finalize(k) \/ Fail(k)
  BY <1>0, <1>6 DEF Finalize, Fail, Return, Goto, WorkOK
<1>7. CASE Fetch(k)
  BY <1>0, <1>7 DEF Fetch, Goto, WorkOK
<1>8. CASE Submit(k) \/ SubmitFails(k)
  BY <1>0, <1>8 DEF Submit, SubmitFails, WorkOK
<1>9. CASE Finish(k) \/ FinishFails(k)
  BY <1>0, <1>9 DEF Finish, FinishFails, Return, Goto, WorkOK
<1>10. CASE k = Main /\ Channel
  BY <1>0, <1>10 DEF Channel, Query, Create, Join, JoinDone, Requery, Goto, WorkOK
<1>11. CASE JoinPeer(k)
  BY <1>0, <1>11 DEF JoinPeer, Goto, WorkOK
<1>12. CASE UNCHANGED vars
  BY <1>12
<1> QED BY <1>1, <1>2, <1>3, <1>4, <1>5, <1>6, <1>7, <1>8, <1>9, <1>10, <1>11, <1>12
        DEF Next, Reconcile, Resource, Update

\* An orderer joins with the block that is being joined, a peer with one there is.
LEMMA JoinStep ==
    ASSUME TypeOK, [Next]_vars
    PROVE  /\ \A o \in Orderers : \/ ledger'[o] = ledger[o]
                                  \/ pc[Main] = "join" /\ ledger'[o] = block
           /\ \A k \in Followers : peer[k] # None => peer'[k] = peer[k]
           /\ pc'[Main] = "join" => Create \/ (pc[Main] = "join" /\ block' = block)
<1> USE DEF Labels
<1>0. Main \in Keys /\ Main \notin Followers /\ Followers \subseteq Keys
  BY KeyAssumption DEF Keys
<1>1. CASE \E o \in Orderers : Join(o)
  BY <1>1 DEF Join, Goto, TypeOK
<1>2. ASSUME NEW k \in Followers, JoinPeer(k)
      PROVE  /\ ledger' = ledger /\ pc'[Main] = pc[Main] /\ block' = block
             /\ \A j \in Followers : peer[j] # None => peer'[j] = peer[j]
  BY <1>0, <1>2 DEF JoinPeer, Goto, TypeOK
<1>3. ASSUME NEW k \in Keys,
             \/ Edit(k) \/ Delete(k) \/ CacheSync(k) \/ Crash
             \/ Resource(k) \/ Update(k) \/ JoinDone \/ Requery
      PROVE  /\ UNCHANGED <<ledger, peer>>
             /\ pc'[Main] = "join" => pc[Main] = "join" /\ block' = block
  BY <1>3, GenesisLabels
<1>4. CASE Query
  <2>1. UNCHANGED <<ledger, peer>> /\ pc'[Main] # "join"
    BY <1>0, <1>4 DEF Query, Goto, TypeOK
  <2> QED BY <2>1
<1>5. CASE Create
  <2>1. UNCHANGED <<ledger, peer>>
    BY <1>5 DEF Create
  <2> QED BY <1>5, <2>1
<1>6. CASE UNCHANGED vars
  <2>1. UNCHANGED <<ledger, peer, pc, block>>
    BY <1>6
  <2> QED BY <2>1
<1>7. CASE \E k \in Followers : JoinPeer(k)
  <2>1. UNCHANGED <<ledger, block>> /\ pc'[Main] = pc[Main]
    BY <1>2, <1>7
  <2>2. \A j \in Followers : peer[j] # None => peer'[j] = peer[j]
    BY <1>2, <1>7
  <2> QED BY <2>1, <2>2
<1>8. CASE \E k \in Keys : \/ Edit(k) \/ Delete(k) \/ CacheSync(k) \/ Crash
                           \/ Resource(k) \/ Update(k) \/ JoinDone \/ Requery
  <2>1. /\ UNCHANGED <<ledger, peer>>
        /\ pc'[Main] = "join" => pc[Main] = "join" /\ block' = block
    BY <1>3, <1>8
  <2> QED BY <2>1
<1> QED BY <1>0, <1>1, <1>4, <1>5, <1>6, <1>7, <1>8 DEF Next, Reconcile, Channel

LEMMA PeerJoins ==
    ASSUME TypeOK, NEW k \in Followers, JoinPeer(k), pc'[k] \in {"fetch", "submit", "finish"}
    PROVE  peer'[k] # None
<1>1. k \in Keys
  BY DEF Keys
<1> QED BY <1>1 DEF JoinPeer, Goto, Serves, TypeOK

\* Every spec of the main channel lists the organizations of the follower channels.
AllListed == \A s \in {First} \cup Choices : Followers \subseteq s.orgs

\* Then every channel that is being joined or has been joined has them, and so has
\* the configuration that an update is computed from.
ListedInv ==
    /\ \A g \in Ledgers \ {None} : Followers \subseteq chain[g].orgs
    /\ pc[Main] = "join" => block \in Gens /\ Followers \subseteq chain[block].orgs
    /\ \A k \in Keys : pc[k] = "submit" => Followers \subseteq seen[k].conf.orgs

\* Neither an update nor the creation of a channel takes a follower's organization out.
LEMMA OrgsKept ==
    ASSUME AllListed, TypeOK, ListedInv, [Next]_vars, NEW g \in Gens,
           Followers \subseteq chain[g].orgs
    PROVE  Followers \subseteq chain'[g].orgs
<1>0. Main \in Keys
  BY DEF Keys
<1>1. ASSUME NEW h \in Gens \ Used, pc[Main] = "create",
             chain' = [chain EXCEPT ![h] = Genesis(obj[Main].spec)]
      PROVE  Followers \subseteq chain'[g].orgs
  <2>1. obj[Main].spec \in {First} \cup Choices
    BY <1>0, <1>1 DEF TypeOK, Specs
  <2>2. Followers \subseteq Genesis(obj[Main].spec).orgs
    BY <2>1 DEF AllListed, Genesis
  <2> QED BY <1>1, <2>2 DEF TypeOK
<1>2. ASSUME NEW k \in Keys, pc[k] = "submit", Commit(k)
      PROVE  Followers \subseteq chain'[g].orgs
  <2> DEFINE old == seen[k].conf
             new == Draft(k, old)
  <2>1. Followers \subseteq old.orgs
    BY <1>2 DEF ListedInv
  <2>2. Followers \subseteq new.orgs
    <3>1. CASE k = Main
      <4>1. obj[Main].spec \in {First} \cup Choices
        BY <1>0, <1>2, <3>1 DEF TypeOK, Specs
      <4>2. Followers \subseteq obj[Main].spec.orgs
        BY <4>1 DEF AllListed
      <4> QED BY <2>1, <3>1, <4>2 DEF Draft, MainDraft
    <3>2. CASE k # Main
      <4>1. new.orgs = old.orgs
        BY <3>2 DEF Draft, FollowerDraft, TypeOK, Configuration
      <4> QED BY <2>1, <4>1
    <3> QED BY <3>1, <3>2
  <2>3. Followers \subseteq Updated(chain[g], old, new).orgs
    BY <2>2 DEF Updated
  <2>4. chain'[g] = chain[g] \/ chain'[g] = Updated(chain[g], old, new)
    BY <1>2 DEF Commit, TypeOK
  <2> QED BY <2>3, <2>4
<1>3. CASE chain' = chain
  BY <1>3
<1> QED BY <1>1, <1>2, <1>3, ChainStep

LEMMA ListedStep ==
    ASSUME AllListed, TypeOK, ListedInv, [Next]_vars
    PROVE  ListedInv'
<1>0. Main \in Keys
  BY DEF Keys
<1>1. ASSUME NEW o \in Orderers, ledger'[o] # None
      PROVE  Followers \subseteq chain'[ledger'[o]].orgs
  <2>1. CASE ledger'[o] = ledger[o]
    <3>1. ledger[o] \in Gens /\ Followers \subseteq chain[ledger[o]].orgs
      BY <1>1, <2>1 DEF ListedInv, Ledgers, TypeOK
    <3> QED BY <2>1, <3>1, OrgsKept
  <2>2. CASE pc[Main] = "join" /\ ledger'[o] = block
    <3>1. block \in Gens /\ Followers \subseteq chain[block].orgs
      BY <2>2 DEF ListedInv
    <3> QED BY <2>2, <3>1, OrgsKept
  <2> QED BY <2>1, <2>2, JoinStep
<1>2. ASSUME pc'[Main] = "join"
      PROVE  block' \in Gens /\ Followers \subseteq chain'[block'].orgs
  <2>1. CASE Create
    <3>1. PICK g \in Gens : block' = g /\ chain' = [chain EXCEPT ![g] = Genesis(obj[Main].spec)]
      BY <1>0, <1>2, <2>1 DEF Create, Goto, TypeOK
    <3>2. obj[Main].spec \in {First} \cup Choices
      BY <1>0, <2>1 DEF Create, TypeOK, Specs
    <3>3. Followers \subseteq Genesis(obj[Main].spec).orgs
      BY <3>2 DEF AllListed, Genesis
    <3> QED BY <3>1, <3>3 DEF TypeOK
  <2>2. CASE pc[Main] = "join" /\ block' = block
    <3>1. block \in Gens /\ Followers \subseteq chain[block].orgs
      BY <2>2 DEF ListedInv
    <3> QED BY <2>2, <3>1, OrgsKept
  <2> QED BY <1>2, <2>1, <2>2, JoinStep
<1>3. ASSUME NEW k \in Keys, pc'[k] = "submit"
      PROVE  Followers \subseteq seen'[k].conf.orgs
  <2>1. CASE Fetch(k)
    <3>1. PICK o \in Orderers :
             Serves(o) /\ seen'[k] = [gen |-> ledger[o], conf |-> chain[ledger[o]]]
      BY <1>3, <2>1 DEF Fetch, Goto, TypeOK
    <3> QED BY <3>1 DEF Serves, ListedInv, Ledgers
  <2>2. CASE ~Fetch(k)
    BY <1>3, <2>2, SubmitLabel DEF ListedInv
  <2> QED BY <2>1, <2>2
<1> QED BY <1>1, <1>2, <1>3 DEF ListedInv, Ledgers

\* Only its own follower channel's update changes the anchor peers of an organization.
LEMMA AnchorsKept ==
    ASSUME AllListed, TypeOK, AnchorInv, ListedInv, [Next]_vars,
           NEW k \in Followers, pc[k] # "submit", NEW g \in Ledgers \ {None}
    PROVE  chain'[g].anchors[k] = chain[g].anchors[k]
<1>0. g \in Gens /\ k \in chain[g].orgs
  BY DEF TypeOK, Ledgers, ListedInv
<1>1. k \in chain'[g].orgs
  <2>1. Followers \subseteq chain[g].orgs
    BY DEF ListedInv
  <2> QED BY <1>0, <2>1, OrgsKept
<1>2. ASSUME NEW h \in Gens \ Used, chain' = [chain EXCEPT ![h] = Genesis(obj[Main].spec)]
      PROVE  chain'[g] = chain[g]
  BY <1>2 DEF Used, Ledgers, TypeOK
<1>3. ASSUME NEW j \in Keys, pc[j] = "submit", Commit(j)
      PROVE  chain'[g].anchors[k] = chain[g].anchors[k]
  <2>1. CASE chain'[g] = chain[g]
    BY <2>1
  <2>2. CASE chain'[g] = Updated(chain[g], seen[j].conf, Draft(j, seen[j].conf))
    <3>1. chain[g] \in Configuration /\ seen[j].conf \in Configuration
      BY <1>0 DEF TypeOK
    <3> QED BY <1>0, <1>1, <1>3, <2>2, <3>1, UpdatedAnchors
  <2>3. chain'[g] = chain[g] \/ g = seen[j].gen
    BY <1>3 DEF Commit, TypeOK
  <2>4. g = seen[j].gen =>
           chain'[g] = Updated(chain[g], seen[j].conf, Draft(j, seen[j].conf))
    BY <1>0, <1>3 DEF Commit, TypeOK
  <2> QED BY <2>1, <2>2, <2>3, <2>4
<1>4. CASE chain' = chain
  BY <1>4
<1> QED BY <1>2, <1>3, <1>4, ChainStep

\* What a follower channel is about to submit is a change, what it is about to report
\* is in force, and so it is once it has reported it.
FollowInv(k) ==
    /\ pc[k] = "submit" => seen[k].conf.anchors[k] # obj[k].spec
    /\ pc[k] = "finish" => /\ seen[k].gen \in Ledgers \ {None}
                           /\ chain[seen[k].gen].anchors[k] = obj[k].spec
    /\ pc[k] \in {"fetch", "submit", "finish"} => peer[k] # None
    /\ Settled(k) => /\ peer[k] # None
                     /\ \E o \in Orderers : ledger[o] # None
                     /\ \A o \in Orderers :
                           ledger[o] # None => chain[ledger[o]].anchors[k] = cr[k].spec

\* What Fetch finds: the anchor peers are those wanted, or an update is needed.
LEMMA FollowFetch ==
    ASSUME TypeOK, NEW k \in Followers, Fetch(k)
    PROVE  /\ pc'[k] = "submit" => seen'[k].conf.anchors[k] # obj'[k].spec
           /\ pc'[k] = "finish" => /\ seen'[k].gen \in Ledgers \ {None}
                                   /\ chain[seen'[k].gen].anchors[k] = obj'[k].spec
<1>0. k \in Keys /\ k # Main /\ k \in Orgs
  BY KeyAssumption DEF Keys
<1>1. SUFFICES ASSUME pc'[k] \in {"submit", "finish"}
               PROVE  /\ pc'[k] = "submit" => seen'[k].conf.anchors[k] # obj'[k].spec
                      /\ pc'[k] = "finish" => /\ seen'[k].gen \in Ledgers \ {None}
                                              /\ chain[seen'[k].gen].anchors[k] = obj'[k].spec
  OBVIOUS
<1>2. PICK o \in Orderers :
         /\ Serves(o) /\ seen'[k] = [gen |-> ledger[o], conf |-> chain[ledger[o]]]
         /\ pc'[k] = AfterFetch(k, chain[ledger[o]]) /\ obj' = obj
  BY <1>0, <1>1 DEF Fetch, Goto, TypeOK
<1> DEFINE conf == chain[ledger[o]]
<1>3. ledger[o] # None /\ conf \in Configuration
  BY <1>2 DEF Serves, TypeOK
<1>4. Draft(k, conf) = [conf EXCEPT !.anchors[k] = obj[k].spec]
  BY <1>0 DEF Draft, FollowerDraft
<1>5. Draft(k, conf) = conf <=> conf.anchors[k] = obj[k].spec
  BY <1>0, <1>3, <1>4 DEF Configuration
<1>6. /\ pc'[k] = "submit" => Draft(k, conf) # conf
      /\ pc'[k] = "finish" => Draft(k, conf) = conf
  BY <1>0, <1>2 DEF AfterFetch
<1> QED BY <1>2, <1>3, <1>5, <1>6 DEF Ledgers

\* What Submit makes of it: the organization has the anchor peers.
LEMMA FollowSubmit ==
    ASSUME TypeOK, AnchorInv, ListedInv, NEW k \in Followers, FollowInv(k), Submit(k)
    PROVE  /\ seen'[k].gen \in Ledgers \ {None}
           /\ chain'[seen'[k].gen].anchors[k] = obj'[k].spec
<1>0. k \in Keys /\ k # Main /\ k \in Orgs
  BY KeyAssumption DEF Keys
<1> DEFINE old == seen[k].conf
           new == Draft(k, old)
           g == seen[k].gen
<1>1. seen' = seen /\ obj' = obj /\ pc[k] = "submit" /\ Commit(k)
  BY <1>0 DEF Submit
<1>2. g \in Ledgers \ {None} /\ g \in Gens
  BY <1>0, <1>1 DEF AnchorInv, Ledgers, TypeOK
<1>3. chain'[g] = Updated(chain[g], old, new)
  BY <1>1, <1>2 DEF Commit, TypeOK
<1>4. new = [old EXCEPT !.anchors[k] = obj[k].spec] /\ old \in Configuration
  BY <1>0 DEF Draft, FollowerDraft, TypeOK
<1>5. k \in old.orgs /\ old.anchors[k] # obj[k].spec
  BY <1>0, <1>1 DEF ListedInv, FollowInv
<1>6. new.anchors[k] = obj[k].spec /\ new.orgs = old.orgs
  BY <1>0, <1>4 DEF Configuration
<1>7. k \in Touched(old, new)
  BY <1>5, <1>6 DEF Touched, Kept
<1>8. Updated(chain[g], old, new).anchors[k] = obj[k].spec
  BY <1>0, <1>6, <1>7 DEF Updated
<1> QED BY <1>1, <1>2, <1>3, <1>8

LEMMA FollowStep ==
    ASSUME AllListed, TypeOK, AnchorInv, ListedInv, GenesisInv, GenesisInv', [Next]_vars,
           NEW k \in Followers, CopyLinked(k), FollowInv(k)
    PROVE  FollowInv(k)'
<1>0. k \in Keys /\ k # Main
  BY KeyAssumption DEF Keys
<1>1. Ledgers \ {None} \subseteq Ledgers'
  BY LedgerGrows DEF Ledgers
<1>2. ASSUME pc'[k] = "submit"
      PROVE  seen'[k].conf.anchors[k] # obj'[k].spec
  <2>1. CASE Fetch(k)
    BY <1>2, <2>1, FollowFetch
  <2>2. CASE ~Fetch(k)
    <3>1. pc[k] = "submit" /\ seen'[k] = seen[k]
      BY <1>0, <1>2, <2>2, SubmitLabel
    <3>2. obj'[k].spec = obj[k].spec
      BY <1>0, <1>2, WorkLabels
    <3> QED BY <3>1, <3>2 DEF FollowInv
  <2> QED BY <2>1, <2>2
<1>3. ASSUME pc'[k] = "finish"
      PROVE  /\ seen'[k].gen \in Ledgers' \ {None}
             /\ chain'[seen'[k].gen].anchors[k] = obj'[k].spec
  <2>1. CASE Fetch(k)
    <3>1. ledger' = ledger /\ chain' = chain
      BY <2>1 DEF Fetch
    <3> QED BY <1>1, <1>3, <2>1, <3>1, FollowFetch
  <2>2. CASE Submit(k)
    BY <1>1, <2>2, FollowSubmit
  <2>3. CASE pc[k] = "finish" /\ seen'[k] = seen[k]
    <3>1. obj'[k].spec = obj[k].spec
      BY <1>0, <1>3, WorkLabels
    <3>2. /\ seen[k].gen \in Ledgers \ {None}
          /\ chain[seen[k].gen].anchors[k] = obj[k].spec
      BY <2>3 DEF FollowInv
    <3>3. chain'[seen[k].gen].anchors[k] = chain[seen[k].gen].anchors[k]
      BY <2>3, <3>2, AnchorsKept
    <3> QED BY <1>1, <2>3, <3>1, <3>2, <3>3
  <2> QED BY <1>0, <1>3, <2>1, <2>2, <2>3, WorkLabels
<1>4. ASSUME pc'[k] \in {"fetch", "submit", "finish"}
      PROVE  peer'[k] # None
  <2>1. CASE JoinPeer(k)
    BY <1>4, <2>1, PeerJoins
  <2>2. CASE ~JoinPeer(k)
    <3>1. peer[k] # None
      BY <1>0, <1>4, <2>2, WorkLabels DEF FollowInv
    <3> QED BY <3>1, JoinStep
  <2> QED BY <2>1, <2>2
<1>5. ASSUME Settled(k)'
      PROVE  /\ peer'[k] # None
             /\ \E o \in Orderers : ledger'[o] # None
             /\ \A o \in Orderers :
                   ledger'[o] # None => chain'[ledger'[o]].anchors[k] = cr'[k].spec
  <2>1. /\ cr'[k] = cr[k]
        /\ Settled(k) \/ (Finish(k) /\ obj[k].spec = cr[k].spec)
    BY <1>0, <1>5, SettledStep
  <2>2. CASE Settled(k)
    <3>1. PICK p \in Orderers : ledger[p] # None
      BY <2>2 DEF FollowInv
    <3>2. /\ peer[k] # None /\ pc[k] # "submit" /\ ledger[p] \in Ledgers \ {None}
          /\ chain[ledger[p]].anchors[k] = cr[k].spec
      BY <2>2, <3>1 DEF FollowInv, Settled, Ledgers
    <3>3. chain'[ledger[p]].anchors[k] = chain[ledger[p]].anchors[k]
      BY <3>2, AnchorsKept
    <3>4. ledger'[p] = ledger[p]
      BY <3>1, LedgerGrows
    <3>5. \A o \in Orderers : ledger'[o] # None => ledger'[o] = ledger[p]
      BY <3>1, <3>4 DEF GenesisInv, OneGenesis
    <3>6. peer'[k] # None
      BY <3>2, JoinStep
    <3> QED BY <2>1, <3>1, <3>2, <3>3, <3>4, <3>5, <3>6
  <2>3. CASE Finish(k) /\ obj[k].spec = cr[k].spec
    <3>1. pc[k] = "finish" /\ UNCHANGED <<ledger, chain, peer>>
      BY <2>3 DEF Finish
    <3>2. /\ peer[k] # None /\ seen[k].gen \in Ledgers \ {None}
          /\ chain[seen[k].gen].anchors[k] = cr[k].spec
      BY <2>3, <3>1 DEF FollowInv
    <3>3. \A o \in Orderers : ledger[o] # None => ledger[o] = seen[k].gen
      BY <3>2 DEF GenesisInv, OneGenesis, Ledgers
    <3>4. \E o \in Orderers : ledger[o] # None
      BY <3>2 DEF Ledgers
    <3> QED BY <2>1, <3>1, <3>2, <3>3, <3>4
  <2> QED BY <2>1, <2>2, <2>3
<1> QED BY <1>2, <1>3, <1>4, <1>5 DEF FollowInv

\* If every spec the main channel has lists the organizations of the follower
\* channels, and there is one genesis block, then a follower channel that is reported
\* Running with nothing pending has joined its peers, and its anchor peers are in the
\* channel: no edit, update or channel creation at the same time undoes it.
THEOREM FollowersApplied ==
    ASSUME AllListed, ReadQuorum = 1, "query" \notin Faulty
    PROVE  Spec => []FollowerApplied
<1> DEFINE All == \A k \in Followers : CopyLinked(k) /\ FollowInv(k)
<1>1. Init => AnchorInv /\ GenesisInv /\ ListedInv /\ All
  <2> SUFFICES ASSUME Init PROVE AnchorInv /\ GenesisInv /\ ListedInv /\ All
    OBVIOUS
  <2>1. \A k \in Keys : pc[k] = "idle" /\ cache[k] = cr[k] /\ k \in queue
    BY DEF Init
  <2>2. /\ \A g \in Gens : chain[g] = Empty
        /\ \A o \in Orderers : ledger[o] = None
        /\ \A k \in Followers : peer[k] = None
    BY DEF Init
  <2>3. \A j \in Orgs : Empty.anchors[j] = None
    BY DEF Empty
  <2>4. Main \in Keys /\ Followers \subseteq Keys
    BY DEF Keys
  <2>5. AnchorInv /\ GenesisInv
    BY <2>1, <2>2, <2>3, <2>4 DEF AnchorInv, GenesisInv, OneGenesis
  <2>6. ListedInv
    BY <2>1, <2>2, <2>4 DEF ListedInv, Ledgers
  <2>7. All
    BY <2>1, <2>4 DEF CopyLinked, FollowInv, Settled
  <2> QED BY <2>5, <2>6, <2>7
<1>2. TypeOK /\ AnchorInv /\ GenesisInv /\ ListedInv /\ All /\ [Next]_vars
      => AnchorInv' /\ GenesisInv' /\ ListedInv' /\ All'
  <2> SUFFICES ASSUME TypeOK, AnchorInv, GenesisInv, ListedInv, All, [Next]_vars
               PROVE  AnchorInv' /\ GenesisInv' /\ ListedInv' /\ All'
    OBVIOUS
  <2>1. AnchorInv' /\ GenesisInv' /\ ListedInv'
    BY AnchorStep, GenesisStep, ListedStep
  <2>2. ASSUME NEW k \in Followers
        PROVE  CopyLinked(k)' /\ FollowInv(k)'
    <3>1. k \in Keys /\ CopyLinked(k) /\ FollowInv(k)
      BY DEF Keys
    <3>2. CopyLinked(k)'
      BY <3>1, CopyStep
    <3>3. FollowInv(k)'
      BY <2>1, <3>1, FollowStep
    <3> QED BY <3>2, <3>3
  <2> QED BY <2>1, <2>2
<1>3. All => FollowerApplied
  BY DEF FollowInv, FollowerApplied, InForce
<1> QED BY <1>1, <1>2, <1>3, TypeCorrect, PTL DEF Spec

-----------------------------------------------------------------------------
(* The main channel that is settled, where users change the consensus state   *)
(* by itself.                                                                 *)

\* What the main channel is responsible for is the same in both configurations.
Alike(one, other) ==
    one.orgs = other.orgs /\ one.caps = other.caps /\ one.state = other.state

\* A follower channel's update changes nothing of that.
LEMMA FollowerLeaves ==
    ASSUME TypeOK, NEW k \in Followers, NEW conf \in Configuration,
           NEW old \in Configuration
    PROVE  Alike(Updated(conf, old, Draft(k, old)), conf)
<1>1. k # Main
  BY KeyAssumption
<1>2. Alike(Draft(k, old), old)
  BY <1>1 DEF Draft, FollowerDraft, Alike, Configuration
<1> QED BY <1>2 DEF Updated, Alike

\* So only the main channel's update changes a channel that orderers have.
LEMMA AlikeKept ==
    ASSUME TypeOK, [Next]_vars, NEW g \in Ledgers \ {None}
    PROVE  \/ Alike(chain'[g], chain[g])
           \/ pc[Main] = "submit" /\ pc'[Main] # "submit" /\ Commit(Main)
<1>0. g \in Gens
  BY DEF Ledgers, TypeOK
<1>1. ASSUME NEW h \in Gens \ Used, chain' = [chain EXCEPT ![h] = Genesis(obj[Main].spec)]
      PROVE  chain'[g] = chain[g]
  BY <1>1 DEF Used, Ledgers, TypeOK
<1>2. ASSUME NEW k \in Keys \ {Main}, pc[k] = "submit", Commit(k), pc'[k] # "submit"
      PROVE  Alike(chain'[g], chain[g])
  <2>1. k \in Followers
    BY DEF Keys
  <2>2. chain[g] \in Configuration /\ seen[k].conf \in Configuration
    BY <1>0 DEF TypeOK
  <2>3. \/ chain'[g] = chain[g]
        \/ chain'[g] = Updated(chain[g], seen[k].conf, Draft(k, seen[k].conf))
    BY <1>2 DEF Commit, TypeOK
  <2> QED BY <2>1, <2>2, <2>3, FollowerLeaves DEF Alike
<1>3. CASE chain' = chain
  BY <1>3 DEF Alike
<1> QED BY <1>1, <1>2, <1>3, ChainStep DEF Alike

\* When the main channel is about to update the channel, that is still as it was read.
SeenInv == pc[Main] = "submit" => Alike(chain[seen[Main].gen], seen[Main].conf)

LEMMA SeenStep ==
    ASSUME TypeOK, AnchorInv, SeenInv, [Next]_vars
    PROVE  SeenInv'
<1>0. Main \in Keys
  BY DEF Keys
<1> SUFFICES ASSUME pc'[Main] = "submit"
             PROVE  Alike(chain'[seen'[Main].gen], seen'[Main].conf)
  BY DEF SeenInv
<1>1. CASE Fetch(Main)
  <2>1. PICK o \in Orderers :
           seen'[Main] = [gen |-> ledger[o], conf |-> chain[ledger[o]]] /\ chain' = chain
    BY <1>0, <1>1 DEF Fetch, Goto, TypeOK
  <2> QED BY <2>1 DEF Alike
<1>2. CASE ~Fetch(Main)
  <2>1. pc[Main] = "submit" /\ seen'[Main] = seen[Main]
    BY <1>0, <1>2, SubmitLabel
  <2>2. seen[Main].gen \in Ledgers \ {None}
    BY <1>0, <2>1 DEF AnchorInv
  <2>3. Alike(chain'[seen[Main].gen], chain[seen[Main].gen])
    BY <2>2, AlikeKept
  <2> QED BY <2>1, <2>3 DEF SeenInv, Alike
<1> QED BY <1>1, <1>2

\* The block that orderers are being joined with is not changed meanwhile.
LEMMA BlockKept ==
    ASSUME TypeOK, AnchorInv, [Next]_vars, pc[Main] = "join", block \in Gens
    PROVE  Alike(chain'[block], chain[block])
<1>1. CASE block \in Ledgers
  <2>1. block \in Ledgers \ {None}
    BY <1>1, NoneAssumption
  <2> QED BY <2>1, AlikeKept
<1>2. CASE block \notin Ledgers
  <2>1. ASSUME NEW k \in Keys, pc[k] = "submit", Commit(k)
        PROVE  chain'[block] = chain[block]
    BY <1>2, <2>1 DEF AnchorInv, Commit, TypeOK
  <2>2. chain'[block] = chain[block]
    BY <2>1, ChainStep
  <2> QED BY <2>2 DEF Alike
<1> QED BY <1>1, <1>2

\* Users change the consensus state by itself: when they enter maintenance mode, leave
\* it or are in it, they change no organizations or capabilities, and the change
\* before is settled.
Careful ==
    LET old == cr[Main].spec
        new == cr'[Main].spec
        modes == {old.state, new.state} \cup {chain[g].state : g \in Created}
    IN  (new # old /\ "maintenance" \in modes)
        => Settled(Main) /\ new.orgs = old.orgs /\ new.caps = old.caps

\* Maintenance mode is wanted, is being worked on or to be, or in force.
Maintained ==
    \/ cr[Main].spec.state = "maintenance"
    \/ pc[Main] # "idle" /\ obj[Main].spec.state = "maintenance"
    \/ (Main \in queue \/ pc[Main] # "idle") /\ cache[Main].spec.state = "maintenance"
    \/ \E g \in Created : chain[g].state = "maintenance"

\* Then every copy of the spec that is used says what the spec says, and so does the
\* channel except for its consensus state.
ModeInv ==
    Maintained =>
        /\ Main \in queue \/ pc[Main] # "idle" => cache[Main].spec = cr[Main].spec
        /\ pc[Main] # "idle" => obj[Main].spec = cr[Main].spec
        /\ \A g \in Created : /\ chain[g].orgs = cr[Main].spec.orgs
                              /\ chain[g].caps = cr[Main].spec.caps

\* The block that orderers join with is as the spec says that the worker has, and so is
\* the channel when the main channel is about to report it and when it is settled.
MainInv ==
    /\ SeenInv
    /\ ModeInv
    /\ pc[Main] = "join" => block \in Gens /\ Alike(chain[block], obj[Main].spec)
    /\ pc[Main] = "finish" => /\ seen[Main].gen \in Ledgers \ {None}
                              /\ Alike(chain[seen[Main].gen], obj[Main].spec)
    /\ Settled(Main) => /\ \E o \in Orderers : ledger[o] # None
                        /\ \A o \in Orderers :
                              ledger[o] # None => Alike(chain[ledger[o]], cr[Main].spec)

LEMMA CreatedIs == Created = Ledgers \ {None} /\ Created' = Ledgers' \ {None}
BY DEF Created, Ledgers

\* So what the main channel makes of a channel is what its spec says.
LEMMA MainWants ==
    ASSUME TypeOK, ModeInv, pc[Main] \notin {"idle", "panic"}, NEW g \in Ledgers \ {None},
           NEW conf, Alike(chain[g], conf)
    PROVE  Alike(Draft(Main, conf), obj[Main].spec)
<1>0. g \in Created /\ g \in Gens /\ Main \in Keys
  BY CreatedIs DEF Keys, Ledgers, TypeOK
<1>1. /\ conf.state \in States /\ conf.state = chain[g].state
      /\ conf.orgs = chain[g].orgs /\ conf.caps = chain[g].caps
  BY <1>0 DEF Alike, TypeOK, Configuration
<1>2. CASE conf.state = "maintenance" \/ obj[Main].spec.state = "maintenance"
  <2>1. Maintained
    BY <1>0, <1>1, <1>2 DEF Maintained
  <2>2. conf.orgs = obj[Main].spec.orgs /\ conf.caps = obj[Main].spec.caps
    BY <1>0, <1>1, <2>1 DEF ModeInv
  <2> QED BY <2>2 DEF Draft, MainDraft, Alike
<1>3. CASE conf.state # "maintenance" /\ obj[Main].spec.state # "maintenance"
  BY <1>3 DEF Draft, MainDraft, Alike
<1> QED BY <1>2, <1>3

\* What the main channel's update makes of the channel it was computed for.
LEMMA MainSubmit ==
    ASSUME TypeOK, AnchorInv, SeenInv, ModeInv, pc[Main] = "submit", Commit(Main)
    PROVE  /\ seen[Main].gen \in Ledgers \ {None}
           /\ Alike(chain'[seen[Main].gen], obj[Main].spec)
           /\ \A h \in Gens \ {seen[Main].gen} : chain'[h] = chain[h]
<1> DEFINE g == seen[Main].gen
           old == seen[Main].conf
           new == Draft(Main, old)
<1>1. g \in Ledgers \ {None} /\ g \in Gens
  BY DEF AnchorInv, Ledgers, TypeOK, Keys
<1>2. /\ chain'[g] = Updated(chain[g], old, new)
      /\ \A h \in Gens \ {g} : chain'[h] = chain[h]
  BY <1>1 DEF Commit, TypeOK
<1>3. Alike(chain[g], old)
  BY DEF SeenInv
<1>4. Alike(new, obj[Main].spec)
  BY <1>1, <1>3, MainWants
<1>5. Alike(Updated(chain[g], old, new), new)
  BY <1>3 DEF Updated, Alike
<1> QED BY <1>1, <1>2, <1>4, <1>5 DEF Alike

\* What a channel that orderers have was before, or what has been made of it.
LEMMA CreatedAlike ==
    ASSUME TypeOK, AnchorInv, MainInv, [Next]_vars, NEW g \in Created'
    PROVE  \/ g \in Created /\ Alike(chain'[g], chain[g])
           \/ pc[Main] # "idle" /\ Alike(chain'[g], obj[Main].spec)
<1>0. Main \in Keys /\ g # None
  BY DEF Keys, Created
<1>1. CASE g \notin Created
  <2>1. PICK o \in Orderers : ledger'[o] = g /\ ledger[o] # g
    BY <1>1 DEF Created
  <2>2. pc[Main] = "join" /\ g = block
    BY <2>1, JoinStep
  <2>3. block \in Gens /\ Alike(chain[block], obj[Main].spec)
    BY <2>2 DEF MainInv
  <2>4. Alike(chain'[block], chain[block])
    BY <2>2, <2>3, BlockKept
  <2> QED BY <2>2, <2>3, <2>4 DEF Alike
<1>2. CASE g \in Created /\ Alike(chain'[g], chain[g])
  BY <1>2
<1>3. CASE g \in Created /\ pc[Main] = "submit" /\ Commit(Main)
  <2>1. g \in Gens
    BY <1>3 DEF Created, TypeOK
  <2>2. g = seen[Main].gen \/ chain'[g] = chain[g]
    BY <1>3, <2>1, MainSubmit DEF MainInv
  <2>3. g = seen[Main].gen => Alike(chain'[g], obj[Main].spec)
    BY <1>3, MainSubmit DEF MainInv
  <2> QED BY <1>3, <2>2, <2>3 DEF Alike
<1> QED BY <1>1, <1>2, <1>3, AlikeKept, CreatedIs

\* The main channel's copies of its spec, in any step that does not edit it.
LEMMA MainCopies ==
    ASSUME TypeOK, [Next]_vars, ~Edit(Main)
    PROVE  /\ cr'[Main].spec = cr[Main].spec
           /\ \/ cache'[Main].spec = cr[Main].spec
              \/ /\ cache'[Main] = cache[Main]
                 /\ Main \in queue' \/ pc'[Main] # "idle"
                       => Main \in queue \/ pc[Main] # "idle"
           /\ pc'[Main] # "idle" =>
                 \/ pc[Main] # "idle" /\ obj'[Main].spec = obj[Main].spec
                 \/ Begin(Main) /\ Main \in queue /\ obj'[Main] = cache[Main]
<1>0. /\ Main \in Keys /\ ApiOK /\ WorkOK
      /\ cr[Main] \in Object(AnySpec)
  BY TypeParts DEF Keys, ApiOK
<1>1. ASSUME NEW j \in Keys \ {Main}, Edit(j) \/ Delete(j) \/ CacheSync(j) \/ Reconcile(j)
      PROVE  Apart(Main)
  BY <1>0, <1>1, ApartStep
<1>2. CASE Delete(Main)
  <2>1. PICK p \in Phases : Store(Main, [cr[Main] EXCEPT !.phase = p])
    BY <1>2 DEF Delete, Phases
  <2>2. UNCHANGED <<cache, queue, pc, obj>>
    BY <1>2 DEF Delete
  <2>3. cr'[Main] = [cr[Main] EXCEPT !.phase = p]
    BY <1>0, <2>1, StoreStep
  <2> QED BY <1>0, <2>2, <2>3, FieldsOf
<1>3. CASE CacheSync(Main)
  BY <1>0, <1>3 DEF CacheSync, ApiOK
<1>4. CASE Begin(Main)
  BY <1>0, <1>4 DEF Begin, ApiOK, WorkOK
<1>5. CASE Reconcile(Main) /\ ~Begin(Main)
  BY <1>0, <1>5, WorkerStep
<1>6. CASE Crash
  BY <1>0, <1>6 DEF Crash
<1>7. CASE UNCHANGED vars
  BY <1>7
<1>8. CASE Apart(Main)
  BY <1>8 DEF Apart
<1> QED BY <1>1, <1>2, <1>3, <1>4, <1>5, <1>6, <1>7, <1>8 DEF Next

LEMMA ModeStep ==
    ASSUME TypeOK, AnchorInv, MainInv, [Next]_vars, [Careful]_vars
    PROVE  ModeInv'
<1>0. Main \in Keys
  BY DEF Keys
<1> SUFFICES ASSUME Maintained'
             PROVE  /\ Main \in queue' \/ pc'[Main] # "idle"
                          => cache'[Main].spec = cr'[Main].spec
                    /\ pc'[Main] # "idle" => obj'[Main].spec = cr'[Main].spec
                    /\ \A g \in Created' : /\ chain'[g].orgs = cr'[Main].spec.orgs
                                           /\ chain'[g].caps = cr'[Main].spec.caps
  BY DEF ModeInv
<1>1. CASE ~Edit(Main)
  <2>1. Maintained
    <3>1. CASE cr'[Main].spec.state = "maintenance"
      BY <1>1, <3>1, MainCopies DEF Maintained
    <3>2. CASE pc'[Main] # "idle" /\ obj'[Main].spec.state = "maintenance"
      BY <1>1, <3>2, MainCopies DEF Maintained
    <3>3. CASE /\ Main \in queue' \/ pc'[Main] # "idle"
               /\ cache'[Main].spec.state = "maintenance"
      BY <1>1, <3>3, MainCopies DEF Maintained
    <3>4. ASSUME NEW g \in Created', chain'[g].state = "maintenance"
          PROVE  Maintained
      BY <3>4, CreatedAlike DEF Maintained, Alike
    <3> QED BY <3>1, <3>2, <3>3, <3>4 DEF Maintained
  <2>2. /\ Main \in queue \/ pc[Main] # "idle" => cache[Main].spec = cr[Main].spec
        /\ pc[Main] # "idle" => obj[Main].spec = cr[Main].spec
        /\ \A g \in Created : /\ chain[g].orgs = cr[Main].spec.orgs
                              /\ chain[g].caps = cr[Main].spec.caps
    BY <2>1 DEF MainInv, ModeInv
  <2>3. \A g \in Created' : /\ chain'[g].orgs = cr[Main].spec.orgs
                            /\ chain'[g].caps = cr[Main].spec.caps
    BY <2>2, CreatedAlike DEF Alike
  <2> QED BY <1>1, <2>2, <2>3, MainCopies
<1>2. CASE Edit(Main)
  <2>1. /\ UNCHANGED <<cache, queue, pc, obj, ledger, chain>>
        /\ \E s : Store(Main, [cr[Main] EXCEPT !.spec = s])
    BY <1>2 DEF Edit
  <2>2. Created' = Created
    BY <2>1 DEF Created
  <2>3. CASE UNCHANGED vars
    BY <2>1, <2>2, <2>3 DEF MainInv, ModeInv, Maintained
  <2>4. CASE cr'[Main].spec = cr[Main].spec
    BY <2>1, <2>2, <2>4 DEF MainInv, ModeInv, Maintained
  <2>5. CASE Careful /\ cr'[Main].spec # cr[Main].spec
    <3> DEFINE modes == {cr[Main].spec.state, cr'[Main].spec.state}
                        \cup {chain[g].state : g \in Created}
    <3>1. CASE "maintenance" \in modes
      <4>1. /\ Settled(Main)
            /\ cr'[Main].spec.orgs = cr[Main].spec.orgs
            /\ cr'[Main].spec.caps = cr[Main].spec.caps
        BY <2>5, <3>1 DEF Careful
      <4>2. Main \notin queue' /\ pc'[Main] = "idle"
        BY <2>1, <4>1 DEF Settled
      <4>3. \A g \in Created : Alike(chain[g], cr[Main].spec)
        BY <4>1 DEF MainInv, Created
      <4> QED BY <2>1, <2>2, <4>1, <4>2, <4>3 DEF Alike
    <3>2. CASE "maintenance" \notin modes
      <4>1. Maintained /\ cr[Main].spec.state # "maintenance"
        BY <2>1, <2>2, <3>2 DEF Maintained
      <4>2. \A g \in Created : chain[g].state # "maintenance"
        BY <3>2
      <4> QED BY <4>1, <4>2 DEF MainInv, ModeInv, Maintained
    <3> QED BY <3>1, <3>2
  <2> QED BY <2>3, <2>4, <2>5
<1> QED BY <1>1, <1>2

LEMMA MainStep ==
    ASSUME TypeOK, AnchorInv, GenesisInv', [Next]_vars, [Careful]_vars,
           CopyLinked(Main), MainInv
    PROVE  MainInv'
<1>0. Main \in Keys
  BY DEF Keys
<1>1. Ledgers \ {None} \subseteq Ledgers'
  BY LedgerGrows DEF Ledgers
<1>2. ASSUME pc'[Main] = "join"
      PROVE  block' \in Gens /\ Alike(chain'[block'], obj'[Main].spec)
  <2>1. CASE Create
    <3>1. PICK g \in Gens : /\ block' = g /\ obj' = obj
                           /\ chain' = [chain EXCEPT ![g] = Genesis(obj[Main].spec)]
      BY <1>0, <1>2, <2>1 DEF Create, Goto, TypeOK
    <3> QED BY <3>1 DEF Alike, Genesis, TypeOK
  <2>2. CASE pc[Main] = "join" /\ block' = block
    <3>1. ~Edit(Main) \/ UNCHANGED <<obj, chain>>
      BY DEF Edit
    <3>2. obj'[Main].spec = obj[Main].spec
      BY <1>2, <2>2, <3>1, MainCopies DEF Begin
    <3>3. block \in Gens /\ Alike(chain[block], obj[Main].spec)
      BY <2>2 DEF MainInv
    <3>4. Alike(chain'[block], chain[block])
      BY <2>2, <3>3, BlockKept
    <3> QED BY <2>2, <3>2, <3>3, <3>4 DEF Alike
  <2> QED BY <1>2, <2>1, <2>2, JoinStep
<1>3. ASSUME pc'[Main] = "finish"
      PROVE  /\ seen'[Main].gen \in Ledgers' \ {None}
             /\ Alike(chain'[seen'[Main].gen], obj'[Main].spec)
  <2>1. CASE Fetch(Main)
    <3>1. PICK o \in Orderers :
             /\ Serves(o) /\ seen'[Main] = [gen |-> ledger[o], conf |-> chain[ledger[o]]]
             /\ pc'[Main] = AfterFetch(Main, chain[ledger[o]])
             /\ UNCHANGED <<obj, ledger, chain>>
      BY <1>0, <1>3, <2>1 DEF Fetch, Goto, TypeOK
    <3>2. ledger[o] \in Ledgers \ {None} /\ Draft(Main, chain[ledger[o]]) = chain[ledger[o]]
      BY <1>3, <3>1 DEF Serves, Ledgers, AfterFetch
    <3>3. Alike(chain[ledger[o]], obj[Main].spec)
      <4>1. pc[Main] \notin {"idle", "panic"} /\ Alike(chain[ledger[o]], chain[ledger[o]])
        BY <2>1 DEF Fetch, Alike
      <4> QED BY <3>2, <4>1, MainWants DEF MainInv
    <3> QED BY <1>1, <3>1, <3>2, <3>3
  <2>2. CASE Submit(Main)
    BY <1>1, <2>2, MainSubmit DEF Submit, MainInv
  <2>3. CASE pc[Main] = "finish" /\ seen'[Main] = seen[Main]
    <3>1. obj'[Main].spec = obj[Main].spec
      BY <1>0, <1>3, WorkLabels
    <3>2. /\ seen[Main].gen \in Ledgers \ {None}
          /\ Alike(chain[seen[Main].gen], obj[Main].spec)
      BY <2>3 DEF MainInv
    <3>3. Alike(chain'[seen[Main].gen], chain[seen[Main].gen])
      BY <2>3, <3>2, AlikeKept
    <3> QED BY <1>1, <2>3, <3>1, <3>2, <3>3 DEF Alike
  <2> QED BY <1>0, <1>3, <2>1, <2>2, <2>3, WorkLabels
<1>4. ASSUME Settled(Main)'
      PROVE  /\ \E o \in Orderers : ledger'[o] # None
             /\ \A o \in Orderers :
                   ledger'[o] # None => Alike(chain'[ledger'[o]], cr'[Main].spec)
  <2>1. /\ cr'[Main] = cr[Main]
        /\ Settled(Main) \/ (Finish(Main) /\ obj[Main].spec = cr[Main].spec)
    BY <1>0, <1>4, SettledStep
  <2>2. PICK p \in Orderers :
           /\ ledger[p] # None /\ Alike(chain[ledger[p]], cr[Main].spec)
           /\ pc[Main] # "submit"
    <3>1. CASE Settled(Main)
      BY <3>1 DEF MainInv, Settled
    <3>2. CASE Finish(Main) /\ obj[Main].spec = cr[Main].spec
      <4>1. pc[Main] = "finish"
        BY <3>2 DEF Finish
      <4> QED BY <3>2, <4>1 DEF MainInv, Ledgers
    <3> QED BY <2>1, <3>1, <3>2
  <2>3. ledger'[p] = ledger[p] /\ ledger[p] \in Ledgers \ {None}
    BY <2>2, LedgerGrows DEF Ledgers
  <2>4. Alike(chain'[ledger[p]], chain[ledger[p]])
    BY <2>2, <2>3, AlikeKept
  <2>5. \A o \in Orderers : ledger'[o] # None => ledger'[o] = ledger[p]
    BY <2>2, <2>3 DEF GenesisInv, OneGenesis
  <2> QED BY <2>1, <2>2, <2>3, <2>4, <2>5 DEF Alike
<1> QED BY <1>2, <1>3, <1>4, SeenStep, ModeStep DEF MainInv

\* If there is one genesis block and users change the consensus state by itself, then a
\* main channel that is reported Running with nothing pending has its organizations,
\* capabilities and consensus state in force in the channel, whichever orderer is
\* asked, whatever follower channels do to it at the same time.
THEOREM MainApplied ==
    ASSUME ReadQuorum = 1, "query" \notin Faulty
    PROVE  Spec /\ [][Careful]_vars => []RunningMeansApplied
<1> DEFINE All == AnchorInv /\ GenesisInv /\ CopyLinked(Main) /\ MainInv
<1>0. Main \in Keys
  BY DEF Keys
<1>1. Init => All
  <2> SUFFICES ASSUME Init PROVE All
    OBVIOUS
  <2>1. \A k \in Keys : pc[k] = "idle" /\ cache[k] = cr[k] /\ k \in queue
    BY DEF Init
  <2>2. /\ \A g \in Gens : chain[g] = Empty
        /\ \A o \in Orderers : ledger[o] = None
        /\ \A k \in Followers : peer[k] = None
    BY DEF Init
  <2>3. \A j \in Orgs : Empty.anchors[j] = None
    BY DEF Empty
  <2>4. Followers \subseteq Keys
    BY DEF Keys
  <2>5. AnchorInv /\ GenesisInv
    BY <1>0, <2>1, <2>2, <2>3, <2>4 DEF AnchorInv, GenesisInv, OneGenesis
  <2>6. ModeInv
    BY <1>0, <2>1, <2>2 DEF ModeInv, Created
  <2>7. CopyLinked(Main) /\ MainInv
    BY <1>0, <2>1, <2>6 DEF CopyLinked, MainInv, SeenInv, Settled
  <2> QED BY <2>5, <2>7
<1>2. TypeOK /\ All /\ [Next]_vars /\ [Careful]_vars => All'
  <2> SUFFICES ASSUME TypeOK, All, [Next]_vars, [Careful]_vars PROVE All'
    OBVIOUS
  <2>1. AnchorInv' /\ GenesisInv'
    BY AnchorStep, GenesisStep
  <2>2. CopyLinked(Main)'
    BY <1>0, CopyStep
  <2> QED BY <2>1, <2>2, MainStep
<1>3. All => RunningMeansApplied
  BY DEF MainInv, Alike, RunningMeansApplied, InForce
<1> QED BY <1>1, <1>2, <1>3, TypeCorrect, PTL DEF Spec

\* Where no spec asks for maintenance mode the users need not be careful.
NoMaintenance == \A s \in {First} \cup Choices : s.state = "normal"

NormalInv ==
    /\ \A g \in Gens : chain[g].state = "normal"
    /\ \A k \in Keys : pc[k] = "submit" => seen[k].conf.state = "normal"

LEMMA NormalStep ==
    ASSUME NoMaintenance, TypeOK, NormalInv, [Next]_vars
    PROVE  NormalInv'
<1>0. Main \in Keys
  BY DEF Keys
<1>1. ASSUME NEW g \in Gens PROVE chain'[g].state = "normal"
  <2>1. ASSUME NEW h \in Gens \ Used, pc[Main] = "create",
               chain' = [chain EXCEPT ![h] = Genesis(obj[Main].spec)]
        PROVE  chain'[g].state = "normal"
    <3>1. obj[Main].spec \in {First} \cup Choices
      BY <1>0, <2>1 DEF TypeOK, Specs
    <3>2. Genesis(obj[Main].spec).state = "normal"
      BY <3>1 DEF NoMaintenance, Genesis
    <3> QED BY <2>1, <3>2 DEF NormalInv, TypeOK
  <2>2. ASSUME NEW k \in Keys, pc[k] = "submit", Commit(k)
        PROVE  chain'[g].state = "normal"
    <3> DEFINE old == seen[k].conf
               new == Draft(k, old)
    <3>1. old.state = "normal" /\ chain[g].state = "normal"
      BY <2>2 DEF NormalInv
    <3>2. new.state = "normal"
      <4>1. CASE k = Main
        <5>1. obj[Main].spec \in {First} \cup Choices
          BY <1>0, <2>2, <4>1 DEF TypeOK, Specs
        <5> QED BY <3>1, <4>1, <5>1 DEF NoMaintenance, Draft, MainDraft
      <4>2. CASE k # Main
        BY <3>1, <4>2 DEF Draft, FollowerDraft, TypeOK, Configuration
      <4> QED BY <4>1, <4>2
    <3>3. Updated(chain[g], old, new).state = "normal"
      BY <3>1, <3>2 DEF Updated
    <3>4. chain'[g] = chain[g] \/ chain'[g] = Updated(chain[g], old, new)
      BY <2>2 DEF Commit, TypeOK
    <3> QED BY <3>1, <3>3, <3>4
  <2>3. CASE chain' = chain
    BY <2>3 DEF NormalInv
  <2> QED BY <2>1, <2>2, <2>3, ChainStep
<1>2. ASSUME NEW k \in Keys, pc'[k] = "submit" PROVE seen'[k].conf.state = "normal"
  <2>1. CASE Fetch(k)
    <3>1. PICK o \in Orderers :
             Serves(o) /\ seen'[k] = [gen |-> ledger[o], conf |-> chain[ledger[o]]]
      BY <1>2, <2>1 DEF Fetch, Goto, TypeOK
    <3>2. ledger[o] \in Gens
      BY <3>1 DEF Serves, TypeOK
    <3> QED BY <3>1, <3>2 DEF NormalInv
  <2>2. CASE ~Fetch(k)
    BY <1>2, <2>2, SubmitLabel DEF NormalInv
  <2> QED BY <2>1, <2>2
<1> QED BY <1>1, <1>2 DEF NormalInv

\* The same where no spec asks for maintenance mode, however users change the rest of it.
THEOREM MainAppliedNormal ==
    ASSUME NoMaintenance, ReadQuorum = 1, "query" \notin Faulty
    PROVE  Spec => []RunningMeansApplied
<1>1. Init => NormalInv
  <2> SUFFICES ASSUME Init PROVE NormalInv
    OBVIOUS
  <2>1. Empty.state = "normal" /\ \A k \in Keys : pc[k] = "idle"
    BY DEF Init, Empty
  <2> QED BY <2>1 DEF Init, NormalInv
<1>2. TypeOK /\ NormalInv /\ [Next]_vars => NormalInv'
  BY NormalStep
<1>3. TypeOK /\ TypeOK' /\ NormalInv => Careful
  <2> SUFFICES ASSUME TypeOK, TypeOK', NormalInv PROVE Careful
    OBVIOUS
  <2>1. cr[Main].spec \in {First} \cup Choices /\ cr'[Main].spec \in {First} \cup Choices
    BY DEF TypeOK, Specs, Keys
  <2>2. \A g \in Created : chain[g].state = "normal"
    BY DEF NormalInv, Created, TypeOK
  <2> QED BY <2>1, <2>2 DEF Careful, NoMaintenance
<1> QED BY <1>1, <1>2, <1>3, TypeCorrect, MainApplied, PTL DEF Spec

-----------------------------------------------------------------------------
(* An update of an organization's anchor peers only finds the organization in *)
(* the channel: the version of the Application group tells.                   *)

OutsideInv ==
    /\ \A g \in Gens, j \in Orgs : j \notin chain[g].orgs => chain[g].anchors[j] = None
    /\ \A k \in Followers : pc[k] = "submit" => /\ k \in seen[k].conf.orgs
                                                /\ seen[k].conf.anchors[k] # obj[k].spec
    /\ \A k \in Keys : pc[k] = "submit" /\ <<"app">> \in current[k]
                       => chain[seen[k].gen].orgs = seen[k].conf.orgs

\* What has changed since a worker has read it stays so until it reads again.
LEMMA CurrentStep ==
    ASSUME TypeOK, [Next]_vars, NEW k \in Keys, ~Fetch(k), pc'[k] = "submit"
    PROVE  current'[k] \subseteq current[k]
<1> USE DEF TypeOK, Labels
<1>1. CASE \E j \in Keys : Edit(j) \/ Delete(j) \/ CacheSync(j)
  BY <1>1 DEF Edit, Delete, CacheSync
<1>2. CASE Crash
  BY <1>2 DEF Crash
<1>3. ASSUME NEW j \in Keys, Begin(j) \/ Panic(j) \/ Adopt(j) \/ Finalize(j) \/ Fail(j)
      PROVE  current'[k] \subseteq current[k]
  BY <1>3 DEF Begin, Panic, Adopt, Finalize, Fail, Return, Goto
<1>4. ASSUME NEW j \in Keys, Fetch(j)
      PROVE  current'[k] \subseteq current[k]
  BY <1>4 DEF Fetch, Goto
<1>5. ASSUME NEW j \in Keys, Submit(j) \/ SubmitFails(j)
      PROVE  current'[k] \subseteq current[k]
  BY <1>5 DEF Submit, SubmitFails, Commit
<1>6. ASSUME NEW j \in Keys, Finish(j) \/ FinishFails(j)
      PROVE  current'[k] \subseteq current[k]
  BY <1>6 DEF Finish, FinishFails, Return, Goto
<1>7. CASE Channel
  BY <1>7 DEF Channel, Query, Create, Join, JoinDone, Requery, Goto
<1>8. ASSUME NEW j \in Followers, JoinPeer(j)
      PROVE  current'[k] \subseteq current[k]
  BY <1>8 DEF JoinPeer, Goto
<1>9. CASE UNCHANGED vars
  BY <1>9
<1> QED BY <1>1, <1>2, <1>3, <1>4, <1>5, <1>6, <1>7, <1>8, <1>9
        DEF Next, Reconcile, Resource, Update

\* An update by the main channel changes no anchor peers but those of organizations
\* that come or go, one by a follower channel nothing but its own.
LEMMA TouchedBy ==
    ASSUME NEW k \in Keys, NEW old \in Configuration
    PROVE  /\ k = Main => Touched(old, Draft(k, old)) = {}
           /\ k # Main => /\ Touched(old, Draft(k, old)) \subseteq {k}
                          /\ k \in old.orgs /\ old.anchors[k] # obj[k].spec
                             => Touched(old, Draft(k, old)) = {k}
<1>1. CASE k = Main
  BY <1>1 DEF Draft, MainDraft, Touched, Kept, Configuration
<1>2. CASE k # Main
  <2>1. Draft(k, old) = [old EXCEPT !.anchors[k] = obj[k].spec]
    BY <1>2 DEF Draft, FollowerDraft
  <2>2. k \in Orgs
    BY <1>2, KeyAssumption DEF Keys
  <2> QED BY <1>2, <2>1, <2>2 DEF Touched, Kept, Configuration
<1> QED BY <1>1, <1>2

\* A follower channel's update is accepted only while its organization is there.
LEMMA StillMember ==
    ASSUME TypeOK, OutsideInv, NEW k \in Followers, pc[k] = "submit", Applies(k)
    PROVE  k \in chain[seen[k].gen].orgs
<1>0. k \in Keys /\ k # Main
  BY KeyAssumption DEF Keys
<1>1. seen[k].conf \in Configuration
  BY <1>0 DEF TypeOK
<1>2. Touched(seen[k].conf, Draft(k, seen[k].conf)) = {k}
  BY <1>0, <1>1, TouchedBy DEF OutsideInv
<1>3. <<"app">> \in Reads(seen[k].conf, Draft(k, seen[k].conf))
  BY <1>2 DEF Reads
<1>4. <<"app">> \in current[k]
  BY <1>3 DEF Applies
<1> QED BY <1>0, <1>4 DEF OutsideInv

\* An update that does not raise the version of the Application group leaves the
\* organizations alone.
LEMMA OrgsAndVersion ==
    ASSUME NEW conf, NEW old, NEW new, <<"app">> \notin Changed(old, new)
    PROVE  Updated(conf, old, new).orgs = conf.orgs
<1>1. (old.orgs \cup new.orgs) \ Kept(old, new) = {}
  BY DEF Changed
<1>2. old.orgs = new.orgs
  BY <1>1 DEF Kept
<1> QED BY <1>2 DEF Updated

LEMMA OutsideStep ==
    ASSUME TypeOK, AnchorInv, OutsideInv, [Next]_vars
    PROVE  OutsideInv'
<1>0. Followers \subseteq Keys /\ Main \notin Followers
  BY KeyAssumption DEF Keys
<1>1. ASSUME NEW g \in Gens, NEW j \in Orgs, j \notin chain'[g].orgs
      PROVE  chain'[g].anchors[j] = None
  <2>1. CASE chain'[g] = chain[g]
    BY <1>1, <2>1 DEF OutsideInv
  <2>2. ASSUME NEW h \in Gens \ Used,
               chain' = [chain EXCEPT ![h] = Genesis(obj[Main].spec)]
        PROVE  chain'[g].anchors[j] = None
    BY <1>1, <2>1, <2>2 DEF Genesis, TypeOK
  <2>3. ASSUME NEW k \in Keys, pc[k] = "submit", Commit(k), Applies(k)
        PROVE  chain'[g].anchors[j] = None
    <3> DEFINE old == seen[k].conf
               new == Draft(k, old)
    <3>1. \/ chain'[g] = chain[g]
          \/ g = seen[k].gen /\ chain'[g] = Updated(chain[g], old, new)
      BY <2>3 DEF Commit, TypeOK
    <3>2. CASE g = seen[k].gen /\ chain'[g] = Updated(chain[g], old, new)
      <4>1. old \in Configuration
        BY DEF TypeOK
      <4>2. j \notin Touched(old, new)
        <5>1. CASE k = Main
          BY <4>1, <5>1, TouchedBy
        <5>2. CASE k # Main
          <6>1. k \in Followers /\ Touched(old, new) \subseteq {k}
            BY <4>1, <5>2, TouchedBy DEF Keys
          <6>2. k \in chain[g].orgs
            BY <2>3, <3>2, <6>1, StillMember
          <6>3. new.orgs = old.orgs
            BY <4>1, <5>2 DEF Draft, FollowerDraft, Configuration
          <6>4. chain'[g].orgs = chain[g].orgs
            BY <3>2, <6>3 DEF Updated
          <6> QED BY <1>1, <6>1, <6>2, <6>4
        <5> QED BY <5>1, <5>2
      <4> QED BY <1>1, <3>2, <4>2 DEF Updated
    <3> QED BY <2>1, <3>1, <3>2
  <2>4. chain' = chain => chain'[g] = chain[g]
    OBVIOUS
  <2> QED BY <2>1, <2>2, <2>3, <2>4, ChainStep
<1>2. ASSUME NEW k \in Followers, pc'[k] = "submit"
      PROVE  k \in seen'[k].conf.orgs /\ seen'[k].conf.anchors[k] # obj'[k].spec
  <2>1. CASE Fetch(k)
    <3>1. seen'[k].conf.anchors[k] # obj'[k].spec
      BY <1>2, <2>1, FollowFetch
    <3>2. PICK o \in Orderers :
             /\ seen'[k] = [gen |-> ledger[o], conf |-> chain[ledger[o]]]
             /\ pc'[k] = AfterFetch(k, chain[ledger[o]])
      BY <1>0, <1>2, <2>1 DEF Fetch, Goto, TypeOK
    <3>3. k \in chain[ledger[o]].orgs
      BY <1>0, <1>2, <3>2 DEF AfterFetch
    <3> QED BY <3>1, <3>2, <3>3
  <2>2. CASE ~Fetch(k)
    <3>1. pc[k] = "submit" /\ seen'[k] = seen[k]
      BY <1>0, <1>2, <2>2, SubmitLabel
    <3>2. obj'[k].spec = obj[k].spec
      BY <1>0, <1>2, WorkLabels
    <3> QED BY <3>1, <3>2 DEF OutsideInv
  <2> QED BY <2>1, <2>2
<1>3. ASSUME NEW k \in Keys, pc'[k] = "submit", <<"app">> \in current'[k]
      PROVE  chain'[seen'[k].gen].orgs = seen'[k].conf.orgs
  <2>1. CASE Fetch(k)
    <3>1. PICK o \in Orderers :
             seen'[k] = [gen |-> ledger[o], conf |-> chain[ledger[o]]] /\ chain' = chain
      BY <1>3, <2>1 DEF Fetch, Goto, TypeOK
    <3> QED BY <3>1
  <2>2. CASE ~Fetch(k)
    <3> DEFINE g == seen[k].gen
    <3>1. pc[k] = "submit" /\ seen'[k] = seen[k] /\ current'[k] \subseteq current[k]
      BY <1>3, <2>2, SubmitLabel, CurrentStep
    <3>2. g \in Ledgers \ {None} /\ g \in Gens
      BY <3>1 DEF AnchorInv, Ledgers, TypeOK
    <3>3. chain[g].orgs = seen[k].conf.orgs
      BY <1>3, <3>1 DEF OutsideInv
    <3>4. ASSUME NEW h \in Gens \ Used,
                 chain' = [chain EXCEPT ![h] = Genesis(obj[Main].spec)]
          PROVE  chain'[g].orgs = chain[g].orgs
      BY <3>2, <3>4 DEF Used, Ledgers, TypeOK
    <3>5. ASSUME NEW j \in Keys, Commit(j)
          PROVE  chain'[g].orgs = chain[g].orgs
      <4> DEFINE old == seen[j].conf
                 new == Draft(j, old)
      <4>1. CASE seen[j].gen # g
        BY <3>2, <3>5, <4>1 DEF Commit, TypeOK
      <4>2. CASE seen[j].gen = g
        <5>1. chain'[g] = Updated(chain[g], old, new)
          BY <3>2, <3>5, <4>2 DEF Commit, TypeOK
        <5>2. current'[k] = current[k] \ Changed(old, new)
          BY <3>5, <4>2 DEF Commit
        <5>3. <<"app">> \notin Changed(old, new)
          BY <1>3, <5>2
        <5> QED BY <5>1, <5>3, OrgsAndVersion
      <4> QED BY <4>1, <4>2
    <3>6. chain' = chain => chain'[g].orgs = chain[g].orgs
      OBVIOUS
    <3>7. chain'[g].orgs = chain[g].orgs
      BY <3>4, <3>5, <3>6, ChainStep
    <3> QED BY <3>1, <3>3, <3>7
  <2> QED BY <2>1, <2>2
<1> QED BY <1>1, <1>2, <1>3 DEF OutsideInv

-----------------------------------------------------------------------------
(* An update computed from an old configuration is what it would be if it were *)
(* computed from the one there is.                                            *)

LEMMA SerialCommit ==
    ASSUME TypeOK, AnchorInv, OutsideInv, SeenInv,
           NEW k \in Keys, pc[k] = "submit", Commit(k), Applies(k)
    PROVE  LET g == seen[k].gen
           IN  /\ chain'[g] = Draft(k, chain[g])
               /\ k = Main \/ k \in chain[g].orgs
<1> DEFINE g == seen[k].gen
           conf == chain[g]
           old == seen[k].conf
           new == Draft(k, old)
           next == Updated(conf, old, new)
           redone == Draft(k, conf)
<1>1. g \in Gens /\ conf \in Configuration /\ old \in Configuration
  BY DEF AnchorInv, Ledgers, TypeOK
<1>2. chain'[g] = next
  BY <1>1 DEF Commit, TypeOK
<1>3. redone \in Configuration
  BY <1>1, TypeParts, DraftType DEF TypeOK
<1>4. CASE k = Main
  <2>1. Touched(old, new) = {} /\ Alike(conf, old)
    BY <1>1, <1>4, TouchedBy DEF SeenInv
  <2>2. new.orgs = redone.orgs /\ new.caps = redone.caps /\ new.state = redone.state
    BY <1>4, <2>1 DEF Draft, MainDraft, Alike
  <2>3. next.orgs = redone.orgs /\ next.caps = redone.caps /\ next.state = redone.state
    BY <2>1, <2>2 DEF Updated, Alike
  <2>4. \A j \in Orgs : next.anchors[j] = IF j \in redone.orgs \cap conf.orgs
                                         THEN conf.anchors[j] ELSE None
    BY <2>1, <2>3 DEF Updated
  <2>5. \A j \in Orgs : redone.anchors[j] = IF j \in redone.orgs
                                           THEN conf.anchors[j] ELSE None
    BY <1>4 DEF Draft, MainDraft
  <2>6. \A j \in Orgs : j \notin conf.orgs => conf.anchors[j] = None
    BY <1>1 DEF OutsideInv
  <2>7. \A j \in Orgs : next.anchors[j] = redone.anchors[j]
    BY <2>4, <2>5, <2>6
  <2>8. next \in Configuration
    BY <1>1, TypeParts, DraftType, UpdatedType DEF TypeOK
  <2>9. next = redone
    <3> HIDE DEF next, redone
    <3> QED BY <1>3, <2>3, <2>7, <2>8 DEF Configuration
  <2> QED BY <1>2, <1>4, <2>9
<1>5. CASE k # Main
  <2>1. k \in Followers /\ k \in Orgs
    BY <1>5, KeyAssumption DEF Keys
  <2>2. k \in conf.orgs
    BY <2>1, StillMember
  <2>3. Touched(old, new) = {k}
    BY <1>1, <1>5, <2>1, TouchedBy DEF OutsideInv
  <2>4. new = [old EXCEPT !.anchors[k] = obj[k].spec]
        /\ redone = [conf EXCEPT !.anchors[k] = obj[k].spec]
    BY <1>5 DEF Draft, FollowerDraft
  <2>5. next.orgs = conf.orgs /\ next.caps = conf.caps /\ next.state = conf.state
    BY <1>1, <2>4 DEF Updated, Configuration
  <2>6. \A j \in Orgs : next.anchors[j] = IF j = k THEN obj[k].spec ELSE conf.anchors[j]
    BY <1>1, <2>3, <2>4, <2>5 DEF Updated, Configuration, OutsideInv
  <2>7. next \in Configuration
    BY <1>1, TypeParts, DraftType, UpdatedType DEF TypeOK
  <2>8. /\ redone.orgs = conf.orgs /\ redone.caps = conf.caps /\ redone.state = conf.state
        /\ \A j \in Orgs : redone.anchors[j] = IF j = k THEN obj[k].spec ELSE conf.anchors[j]
    BY <1>1, <2>1, <2>4 DEF Configuration
  <2>9. next = redone
    <3> HIDE DEF next, redone
    <3> QED BY <1>3, <2>5, <2>6, <2>7, <2>8 DEF Configuration
  <2> QED BY <1>2, <2>2, <2>9
<1> QED BY <1>4, <1>5

\* Whatever any number of resources submit at the same time, an update the orderers accept
\* makes of the channel what its resource would make of it if it read it now.
THEOREM Serial == Spec => UpdatesSerial
<1> DEFINE All == AnchorInv /\ OutsideInv /\ SeenInv
<1>1. Init => All
  <2> SUFFICES ASSUME Init PROVE All
    OBVIOUS
  <2>1. \A k \in Keys : pc[k] = "idle"
    BY DEF Init
  <2>2. \A g \in Gens : chain[g] = Empty
    BY DEF Init
  <2>3. Empty.orgs = {} /\ \A j \in Orgs : Empty.anchors[j] = None
    BY DEF Empty
  <2>4. Main \in Keys /\ Followers \subseteq Keys
    BY DEF Keys
  <2> QED BY <2>1, <2>2, <2>3, <2>4 DEF AnchorInv, OutsideInv, SeenInv
<1>2. TypeOK /\ All /\ [Next]_vars => All'
  BY AnchorStep, OutsideStep, SeenStep
<1>3. TypeOK /\ All /\ [Next]_vars
      => [\A k \in Keys :
             LET g == seen[k].gen
             IN  pc[k] = "submit" /\ pc'[k] # "submit" /\ chain' # chain
                 => /\ chain'[g] = Draft(k, chain[g])
                    /\ k = Main \/ k \in chain[g].orgs]_vars
  <2> SUFFICES ASSUME TypeOK, All, [Next]_vars, NEW k \in Keys,
                      pc[k] = "submit", pc'[k] # "submit", chain' # chain
               PROVE  LET g == seen[k].gen
                      IN  /\ chain'[g] = Draft(k, chain[g])
                          /\ k = Main \/ k \in chain[g].orgs
    OBVIOUS
  <2>1. Commit(k) /\ Applies(k)
    BY CommitsItself
  <2> QED BY <2>1, SerialCommit
<1> QED BY <1>1, <1>2, <1>3, TypeCorrect, PTL DEF Spec, UpdatesSerial

-----------------------------------------------------------------------------
(* The channel implements the ledger.                                         *)

\* The configuration that the ledger shows.
Shown == IF Created = {} THEN Empty ELSE chain[CHOOSE g \in Created : TRUE]

LEMMA ShownIs ==
    ASSUME NEW g, Created = {g}
    PROVE  Shown = chain[g]
<1>1. (CHOOSE h \in Created : TRUE) \in Created
  BY Zenon
<1>2. (CHOOSE h \in Created : TRUE) = g
  BY <1>1
<1> QED BY <1>2 DEF Shown

LEMMA OneCreated ==
    ASSUME OneGenesis, NEW g \in Created
    PROVE  Created = {g}
BY DEF OneGenesis, Created

\* The first orderer that joins creates the channel.
LEMMA CreatedStep ==
    ASSUME TypeOK, AnchorInv, OneGenesis', [Next]_vars, Created = {}, NEW g \in Created'
    PROVE  Created' = {g} /\ Shown' = chain[g] /\ \A j \in Orgs : chain[g].anchors[j] = None
<1>1. PICK o \in Orderers : ledger'[o] = g /\ g # None
  BY DEF Created
<1>2. ledger[o] = None
  BY <1>1 DEF Created
<1>3. pc[Main] = "join" /\ g = block
  BY <1>1, <1>2, JoinStep
<1>4. g \in Gens \ Ledgers
  BY <1>1, <1>3 DEF TypeOK, Created, Ledgers
<1>5. chain' = chain
  <2>1. \A k \in Keys : pc[k] # "submit"
    BY DEF AnchorInv, Created, Ledgers
  <2> QED BY <1>3, <2>1, ChainStep
<1>6. Created' = {g}
  BY DEF OneGenesis, Created
<1>7. (CHOOSE h \in Created' : TRUE) = g
  <2>1. (CHOOSE h \in Created' : TRUE) \in Created'
    BY Zenon
  <2> QED BY <1>6, <2>1
<1>8. Shown' = chain[g]
  BY <1>5, <1>6, <1>7 DEF Shown
<1> QED BY <1>4, <1>6, <1>8 DEF AnchorInv

\* An update that is accepted is a step of the ledger.
LEMMA UpdateStep ==
    ASSUME TypeOK, OutsideInv, NEW k \in Keys, pc[k] = "submit", Commit(k), Applies(k),
           NEW g \in Gens, g = seen[k].gen
    PROVE  LET conf == chain[g]
               next == chain'[g]
           IN  \/ \A j \in conf.orgs \cap next.orgs : next.anchors[j] = conf.anchors[j]
               \/ \E j \in Orgs : /\ j \in conf.orgs
                                  /\ next = [conf EXCEPT !.anchors[j] = next.anchors[j]]
<1> DEFINE conf == chain[g]
           old == seen[k].conf
           new == Draft(k, old)
           next == Updated(conf, old, new)
<1>0. chain'[g] = next
  BY DEF Commit, TypeOK
<1>1. conf \in Configuration /\ old \in Configuration
  BY DEF TypeOK
<1>2. CASE k = Main
  <2>1. Touched(old, new) = {}
    BY <1>1, <1>2, TouchedBy
  <2>2. \A j \in conf.orgs \cap next.orgs : next.anchors[j] = conf.anchors[j]
    BY <1>1, <2>1 DEF Updated, Configuration
  <2> QED BY <1>0, <2>2
<1>3. CASE k # Main
  <2>1. k \in Followers /\ k \in Orgs /\ Touched(old, new) \subseteq {k}
    BY <1>1, <1>3, TouchedBy, KeyAssumption DEF Keys
  <2>2. k \in conf.orgs
    BY <2>1, StillMember
  <2>3. new = [old EXCEPT !.anchors[k] = obj[k].spec]
    BY <1>3 DEF Draft, FollowerDraft
  <2>4. new.orgs = old.orgs /\ new.caps = old.caps /\ new.state = old.state
    BY <1>1, <2>3 DEF Configuration
  <2>5. next.orgs = conf.orgs /\ next.caps = conf.caps /\ next.state = conf.state
    BY <2>4 DEF Updated
  <2>6. \A j \in Orgs \ {k} : next.anchors[j] = conf.anchors[j]
    BY <1>1, <2>1, <2>4 DEF Updated, OutsideInv
  <2>7. next.anchors = [conf.anchors EXCEPT ![k] = next.anchors[k]]
    <3>1. next.anchors = [j \in Orgs |-> next.anchors[j]]
      BY DEF Updated
    <3>2. conf.anchors = [j \in Orgs |-> conf.anchors[j]]
      BY <1>1 DEF Configuration
    <3> HIDE DEF next
    <3> QED BY <2>6, <3>1, <3>2
  <2>8. /\ next = [orgs |-> next.orgs, anchors |-> next.anchors, caps |-> next.caps,
                   state |-> next.state]
        /\ conf = [orgs |-> conf.orgs, anchors |-> conf.anchors, caps |-> conf.caps,
                   state |-> conf.state]
    BY <1>1 DEF Updated, Configuration
  <2>9. next = [conf EXCEPT !.anchors[k] = next.anchors[k]]
    <3> HIDE DEF next, conf
    <3> QED BY <2>5, <2>7, <2>8
  <2> QED BY <1>0, <2>1, <2>2, <2>9
<1> QED BY <1>2, <1>3

LEMMA LedgerStep ==
    ASSUME TypeOK, AnchorInv, OutsideInv, OneGenesis, OneGenesis', [Next]_vars
    PROVE  [Ledger!Next]_<<Created, Shown>>
<1>0. Created \subseteq Created'
  BY LedgerGrows DEF Created
<1>1. CASE Created' = {}
  <2>1. Created = {}
    BY <1>0, <1>1
  <2> QED BY <1>1, <2>1 DEF Shown
<1>2. ASSUME Created = {}, NEW g \in Created'
      PROVE  Ledger!Create
  <2>1. Created' = {g} /\ Shown' = chain[g] /\ \A j \in Orgs : chain[g].anchors[j] = None
    BY <1>2, CreatedStep
  <2> QED BY <1>2, <2>1 DEF Ledger!Create, Shown
<1>3. ASSUME NEW g \in Created
      PROVE  [Ledger!Next]_<<Created, Shown>>
  <2>1. Created = {g} /\ Created' = {g}
    BY <1>0, OneCreated DEF OneGenesis, Created
  <2>2. g \in Gens /\ g \in Ledgers \ {None}
    BY DEF Created, Ledgers, TypeOK
  <2>3. Shown = chain[g]
    BY <2>1, ShownIs
  <2>4. Shown' = chain'[g]
    <3>1. (CHOOSE h \in Created' : TRUE) \in Created'
      BY <2>1, Zenon
    <3>2. (CHOOSE h \in Created' : TRUE) = g
      BY <2>1, <3>1
    <3> QED BY <2>1, <3>2 DEF Shown
  <2>5. CASE chain'[g] = chain[g]
    BY <2>1, <2>3, <2>4, <2>5
  <2>6. ASSUME NEW h \in Gens \ Used,
               chain' = [chain EXCEPT ![h] = Genesis(obj[Main].spec)]
        PROVE  chain'[g] = chain[g]
    BY <2>2, <2>6 DEF Used, Ledgers, TypeOK
  <2>7. ASSUME NEW k \in Keys, pc[k] = "submit", Commit(k), Applies(k)
        PROVE  [Ledger!Next]_<<Created, Shown>>
    <3>1. g = seen[k].gen
      BY <2>1, <2>7 DEF AnchorInv, Ledgers, Created
    <3>2. CASE \A j \in chain[g].orgs \cap chain'[g].orgs :
                  chain'[g].anchors[j] = chain[g].anchors[j]
      <4>1. Ledger!Administer
        BY <2>1, <2>3, <2>4, <3>2 DEF Ledger!Administer, Shown
      <4> QED BY <4>1 DEF Ledger!Next
    <3>3. ASSUME NEW j \in Orgs, j \in chain[g].orgs,
                 chain'[g] = [chain[g] EXCEPT !.anchors[j] = chain'[g].anchors[j]]
          PROVE  Ledger!Next
      <4>1. Ledger!SetAnchors(j)
        BY <2>1, <2>3, <2>4, <3>3 DEF Ledger!SetAnchors, Shown
      <4> QED BY <4>1 DEF Ledger!Next
    <3> QED BY <2>2, <2>7, <3>1, <3>2, <3>3, UpdateStep
  <2>8. chain' = chain => chain'[g] = chain[g]
    OBVIOUS
  <2> QED BY <2>5, <2>6, <2>7, <2>8, ChainStep
<1>4. CASE Created # {}
  BY <1>3, <1>4
<1>5. CASE Created = {} /\ Created' # {}
  <2>1. Ledger!Create
    BY <1>2, <1>5
  <2> QED BY <2>1 DEF Ledger!Next
<1> QED BY <1>1, <1>4, <1>5

\* Under the same conditions as OneGenesis, what any number of resources does to the
\* channel is what ChannelLedger promises: it is created once, with no anchor peers,
\* and after that each organization sets its own and the main channel the rest.
THEOREM Refinement ==
    ASSUME ReadQuorum = 1, "query" \notin Faulty
    PROVE  Spec => ImplementsLedger
<1> DEFINE All == AnchorInv /\ GenesisInv /\ OutsideInv
<1>1. Init => All /\ Ledger!Init
  <2> SUFFICES ASSUME Init PROVE All /\ Ledger!Init
    OBVIOUS
  <2>1. \A k \in Keys : pc[k] = "idle"
    BY DEF Init
  <2>2. /\ \A g \in Gens : chain[g] = Empty
        /\ \A o \in Orderers : ledger[o] = None
        /\ \A k \in Followers : peer[k] = None
    BY DEF Init
  <2>3. Empty.orgs = {} /\ \A j \in Orgs : Empty.anchors[j] = None
    BY DEF Empty
  <2>4. Main \in Keys /\ Followers \subseteq Keys
    BY DEF Keys
  <2>5. AnchorInv /\ GenesisInv
    BY <2>1, <2>2, <2>3, <2>4 DEF AnchorInv, GenesisInv, OneGenesis
  <2>6. OutsideInv
    BY <2>1, <2>2, <2>3, <2>4 DEF OutsideInv
  <2>7. Created = {}
    BY <2>2 DEF Created
  <2> QED BY <2>3, <2>5, <2>6, <2>7 DEF Ledger!Init
<1>2. TypeOK /\ All /\ [Next]_vars => All'
  BY AnchorStep, GenesisStep, OutsideStep
<1>3. All => OneGenesis
  BY DEF GenesisInv
<1>4. TypeOK /\ All /\ All' /\ [Next]_vars => [Ledger!Next]_<<Created, Shown>>
  <2> SUFFICES ASSUME TypeOK, All, All', [Next]_vars
               PROVE  [Ledger!Next]_<<Created, Shown>>
    OBVIOUS
  <2>1. OneGenesis /\ OneGenesis'
    BY DEF GenesisInv
  <2> QED BY <2>1, LedgerStep
<1> QED BY <1>1, <1>2, <1>4, TypeCorrect, PTL
        DEF Spec, ImplementsLedger, Ledger!Spec, Shown
=============================================================================
