---------------------- MODULE CertificateAuthorityProofs ----------------------
(* Theorems about CertificateAuthority, for all hosts and every bound.        *)
EXTENDS CertificateAuthority, TLAPS

USE DEF Goto, NoFault, NoPass, vars, crVars, helmVars, clusterVars, copyVars, passVars,
        historyVars, envVars

-----------------------------------------------------------------------------
(* The types by their parts.                                                  *)

EnvTypeOK == edits \in Nat /\ faults \in Nat /\ crashes \in Nat
WorldTypeOK == /\ cr \in Object /\ cache \in Object
               /\ synced \in BOOLEAN /\ queued \in BOOLEAN
ClusterTypeOK == /\ release \in Revision \cup {None}
                 /\ before \in Crypto \cup {None} /\ deployed \in Crypto \cup {None}
                 /\ secrets \in Crypto \cup {None} /\ rolling \in BOOLEAN
CopyTypeOK == pc \in Labels /\ obj \in Object /\ objFresh \in BOOLEAN
PassTypeOK == /\ state \in State /\ pending \in BOOLEAN
              /\ config \in Crypto \cup {None} /\ error \in Errors
HistoryTypeOK == unread \in BOOLEAN /\ repeated \in BOOLEAN

LEMMA TypeParts ==
    /\ TypeOK <=> /\ EnvTypeOK /\ WorldTypeOK /\ ClusterTypeOK
                  /\ CopyTypeOK /\ PassTypeOK /\ HistoryTypeOK
    /\ TypeOK' <=> /\ EnvTypeOK' /\ WorldTypeOK' /\ ClusterTypeOK'
                   /\ CopyTypeOK' /\ PassTypeOK' /\ HistoryTypeOK'
BY DEF TypeOK, EnvTypeOK, WorldTypeOK, ClusterTypeOK, CopyTypeOK, PassTypeOK, HistoryTypeOK

-----------------------------------------------------------------------------
(* What keeps the root.  It is the same wherever a root is to be found, until *)
(* one could not be read; a worker that is going to use a revision or the     *)
(* certificates it has put together finds them.                               *)

\* Certificates c and d do not have different roots.
SameRoot(c, d) == c # None /\ d # None => c.root = d.root

Released == IF release = None THEN None ELSE release.crypto
Places == {secrets, before, deployed, config, Released}

OneRoot == ~unread => \A c, d \in Places : SameRoot(c, d)

Linked ==
    /\ release = None => secrets = None /\ before = None /\ deployed = None
    /\ release # None /\ release.status = "pending-upgrade" => before # None
    /\ pc \in {"installing", "upgrading", "rollback", "upgrade"} => release # None
    /\ pc \in {"install", "upgrade"} => config # None
    /\ pc = "install" => release = None

IInv == TypeOK /\ Linked /\ OneRoot

-----------------------------------------------------------------------------
(* What the steps are made of.                                                *)

LEMMA NoneTypes == None \notin Crypto /\ None \notin Revision
BY NoneAssumption

LEMMA BlankTypes == Blank \in Object /\ NoState \in State
BY HostAssumption DEF Blank, Object, NoState, State, Errors

LEMMA CountTypes ==
    ASSUME EnvTypeOK, NoFault \/ (\E c : Fault(c)) \/ Edits
    PROVE  EnvTypeOK'
BY DEF EnvTypeOK, Fault, Edits

LEMMA StoreType == ASSUME WorldTypeOK, NEW o \in Object, Store(o)
                   PROVE  cr' \in Object /\ cache' \in Object /\ synced' \in BOOLEAN
BY DEF WorldTypeOK, Store

LEMMA ReturnType == ASSUME WorldTypeOK, NEW r \in BOOLEAN, Return(r)
                    PROVE  CopyTypeOK' /\ PassTypeOK' /\ queued' \in BOOLEAN
<1>1. obj' \in Object /\ state' \in State
  BY BlankTypes DEF Return
<1> QED BY <1>1 DEF WorldTypeOK, CopyTypeOK, PassTypeOK, Return, Labels, Errors

\* A new revision of what is there to be installed.
LEMMA ReviseType ==
    ASSUME ClusterTypeOK, NEW c \in Crypto, UNCHANGED clusterVars,
           NEW s \in {"pending-install", "pending-upgrade", "pending-rollback"}, Revise(s, c)
    PROVE  /\ ClusterTypeOK' /\ release' # None /\ before' = Released
           /\ release'.status = s /\ Released' = c
<1>1. release' = [status |-> s, crypto |-> c] /\ release' \in Revision
  BY DEF Revise, Revision
<1>2. before' = Released /\ before' \in Crypto \cup {None}
  BY DEF Revise, Released, ClusterTypeOK, Revision
<1>3. release' # None
  BY <1>1, NoneTypes
<1> QED BY <1>1, <1>2, <1>3 DEF ClusterTypeOK, Revise, Released

\* The end of what Helm does, and what it leaves in the cluster.
LEMMA FinishedType ==
    ASSUME ClusterTypeOK, release # None, NEW s \in {"deployed", "failed"},
           Finished(s), MaybeApplied(release.crypto)
    PROVE  /\ ClusterTypeOK' /\ release' # None /\ release'.status = s
           /\ Released' = Released /\ before' = before
           /\ deployed' \in {deployed, Released} /\ secrets' \in {secrets, Released}
<1>1. release \in Revision /\ Released = release.crypto /\ release.crypto \in Crypto
  BY DEF ClusterTypeOK, Revision, Released
<1>2. /\ release' = [release EXCEPT !.status = s] /\ release' \in Revision
      /\ release'.crypto = release.crypto /\ release'.status = s
  BY <1>1 DEF Finished, Revision
<1>3. release' # None
  BY <1>2, NoneTypes
<1>4. deployed' \in {deployed, Released} /\ before' = before
  BY <1>1 DEF Finished
<1>5. secrets' \in {secrets, Released} /\ rolling' \in BOOLEAN
  BY <1>1 DEF MaybeApplied, Applied, ClusterTypeOK
<1>6. Released' = Released
  BY <1>1, <1>2, <1>3 DEF Released
<1> QED BY <1>1, <1>2, <1>3, <1>4, <1>5, <1>6 DEF ClusterTypeOK

\* A certificate that is made has an unused number, its root only if none can be read.
LEMMA MakeConfigType ==
    ASSUME TypeOK, NEW t \in BOOLEAN, NEW r \in BOOLEAN, t \/ r => secrets # None,
           MakeConfig(t, r)
    PROVE  config' \in Crypto /\ (r => config'.root = secrets.root)
<1>1. PICK n \in NewNumber :
        config' = [hosts |-> obj.hosts,
                   tls   |-> IF t /\ secrets.hosts = obj.hosts THEN secrets.tls ELSE n,
                   root  |-> IF r THEN secrets.root ELSE n]
  BY DEF MakeConfig
<1>2. n \in Numbers
  BY DEF NewNumber, Unused
<1>3. obj.hosts \in Hosts /\ (secrets # None => secrets \in Crypto)
  BY TypeParts DEF CopyTypeOK, ClusterTypeOK, Object
<1>4. t \/ r => secrets.tls \in Numbers /\ secrets.root \in Numbers
  BY <1>3 DEF Crypto
<1> QED BY <1>1, <1>2, <1>3, <1>4 DEF Crypto

\* Places that hold nothing but what was there before keep one root.
LEMMA FewerPlaces ==
    ASSUME OneRoot, unread' = unread, Places' \subseteq Places \cup {None}
    PROVE  OneRoot'
BY DEF OneRoot, SameRoot

-----------------------------------------------------------------------------
(* The inductive step.                                                        *)

\* There are no certificates at first.
THEOREM IInvInit == Init => IInv
<1> SUFFICES ASSUME Init PROVE IInv OBVIOUS
<1>1. EnvTypeOK /\ HistoryTypeOK /\ ClusterTypeOK
  BY DEF Init, EnvTypeOK, HistoryTypeOK, ClusterTypeOK
<1>2. WorldTypeOK /\ CopyTypeOK /\ PassTypeOK
  BY BlankTypes DEF Init, WorldTypeOK, CopyTypeOK, PassTypeOK, Labels, Errors
<1>3. Linked
  BY DEF Init, Linked
<1>4. OneRoot
  BY DEF Init, OneRoot, Places, Released, SameRoot
<1> QED BY <1>1, <1>2, <1>3, <1>4, TypeParts DEF IInv

\* Users and the cluster.
LEMMA IInvEnvironment ==
    ASSUME IInv, Edit \/ LoseSecrets \/ CacheSync \/ RolloutDone
    PROVE  IInv'
<1>0. /\ EnvTypeOK /\ WorldTypeOK /\ ClusterTypeOK /\ CopyTypeOK /\ PassTypeOK /\ HistoryTypeOK
      /\ Linked /\ OneRoot
  BY TypeParts DEF IInv
<1>1. EnvTypeOK'
  BY <1>0, CountTypes DEF Edit, LoseSecrets, CacheSync, RolloutDone
<1>2. CopyTypeOK' /\ PassTypeOK' /\ HistoryTypeOK'
  BY <1>0 DEF Edit, LoseSecrets, CacheSync, RolloutDone, CopyTypeOK, PassTypeOK, HistoryTypeOK
<1>3. ClusterTypeOK'
  BY <1>0 DEF Edit, LoseSecrets, CacheSync, RolloutDone, ClusterTypeOK
<1>4. WorldTypeOK'
  <2>1. CASE Edit
    <3>1. cr \in Object
      BY <1>0 DEF WorldTypeOK
    <3>2. /\ \A h \in Hosts : [cr EXCEPT !.hosts = h] \in Object
          /\ \A p \in {"gone", "deleting"} : [cr EXCEPT !.phase = p] \in Object
      BY <3>1 DEF Object
    <3>3. \/ \E h \in Hosts : cr' = [cr EXCEPT !.hosts = h]
          \/ \E p \in {"gone", "deleting"} : cr' = [cr EXCEPT !.phase = p]
      BY <2>1 DEF Edit
    <3>4. cr' \in Object
      BY <3>2, <3>3, Zenon
    <3> QED BY <1>0, <2>1, <3>4 DEF Edit, WorldTypeOK
  <2>2. CASE LoseSecrets \/ CacheSync \/ RolloutDone
    BY <1>0, <2>2 DEF LoseSecrets, CacheSync, RolloutDone, WorldTypeOK
  <2> QED BY <2>1, <2>2
<1>5. Linked'
  BY <1>0 DEF Edit, LoseSecrets, CacheSync, RolloutDone, Linked
<1>6. Places' \subseteq Places \cup {None} /\ unread' = unread
  BY DEF Edit, LoseSecrets, CacheSync, RolloutDone, Places, Released
<1>7. OneRoot'
  BY <1>0, <1>6, FewerPlaces
<1> QED BY <1>1, <1>2, <1>3, <1>4, <1>5, <1>7, TypeParts DEF IInv

\* What Helm was doing when the operator died may have come to the cluster.
LEMMA IInvCrash == ASSUME IInv, Crash PROVE IInv'
<1>0. /\ EnvTypeOK /\ WorldTypeOK /\ ClusterTypeOK /\ CopyTypeOK /\ PassTypeOK /\ HistoryTypeOK
      /\ Linked /\ OneRoot
  BY TypeParts DEF IInv
<1>1. EnvTypeOK'
  <2>1. edits \in Nat /\ faults \in Nat /\ crashes \in Nat
    BY <1>0 DEF EnvTypeOK
  <2>2. edits' = edits /\ faults' = faults /\ crashes' = crashes + 1
    BY DEF Crash
  <2> QED BY <2>1, <2>2 DEF EnvTypeOK
<1>2. HistoryTypeOK'
  BY <1>0 DEF Crash, HistoryTypeOK
<1>3. CopyTypeOK' /\ PassTypeOK'
  <2>1. Blank \in Object /\ NoState \in State
    BY BlankTypes
  <2> QED BY <2>1 DEF Crash, CopyTypeOK, PassTypeOK, Labels, Errors
<1>4. WorldTypeOK'
  <2>1. queued' \in BOOLEAN
    BY ZenonT(30) DEF Crash
  <2> QED BY <1>0, <2>1 DEF Crash, WorldTypeOK
<1>5. /\ secrets' \in {secrets, Released} /\ rolling' \in BOOLEAN
      /\ release = None => secrets' = secrets
  <2>1. CASE pc \in {"installing", "upgrading", "rollback"}
    <3>1. Released = release.crypto /\ release # None
      BY <1>0, <2>1 DEF Linked, Released
    <3> QED BY <1>0, <2>1, <3>1 DEF Crash, MaybeApplied, Applied, ClusterTypeOK
  <2>2. CASE pc \notin {"installing", "upgrading", "rollback"}
    BY <1>0, <2>2 DEF Crash, ClusterTypeOK
  <2> QED BY <2>1, <2>2
<1>6. UNCHANGED helmVars /\ unread' = unread /\ Released' = Released /\ config' = None
  BY DEF Crash, Released
<1>7. Released \in Crypto \cup {None}
  BY <1>0 DEF Released, ClusterTypeOK, Revision
<1>8. ClusterTypeOK'
  BY <1>0, <1>5, <1>6, <1>7 DEF ClusterTypeOK
<1>9. Linked'
  BY <1>0, <1>5, <1>6 DEF Crash, Linked
<1>10. Places' \subseteq Places \cup {None}
  BY <1>5, <1>6 DEF Places
<1>11. OneRoot'
  BY <1>0, <1>6, <1>10, FewerPlaces
<1> QED BY <1>1, <1>2, <1>3, <1>4, <1>8, <1>9, <1>11, TypeParts DEF IInv

\* Steps of the worker that leave release, Secrets and the certificates it made alone.
LEMMA IInvStatus ==
    ASSUME IInv, Begin \/ Adopt \/ Release \/ ReadState \/ Installed \/ ReportFailure
                 \/ UpdateStatus
    PROVE  IInv'
<1>0. /\ EnvTypeOK /\ WorldTypeOK /\ ClusterTypeOK /\ CopyTypeOK /\ PassTypeOK /\ HistoryTypeOK
      /\ Linked /\ OneRoot
  BY TypeParts DEF IInv
<1>1. EnvTypeOK'
  BY <1>0, CountTypes DEF Begin, Adopt, Release, ReadState, Installed, ReportFailure,
                          UpdateStatus, Fresh, Refused
<1>2. UNCHANGED <<helmVars, clusterVars, unread>>
  BY DEF Begin, Adopt, Release, ReadState, Installed, ReportFailure, UpdateStatus
<1>3. ClusterTypeOK' /\ Released' = Released
  BY <1>0, <1>2 DEF ClusterTypeOK, Released
<1>4. /\ config' \in {config, None}
      /\ pc' \notin {"install", "installing", "upgrade", "upgrading", "rollback"}
  BY DEF Begin, Adopt, Release, ReadState, Installed, ReportFailure, UpdateStatus, Return
<1>5. Linked'
  BY <1>0, <1>2, <1>4 DEF Linked
<1>6. Places' \subseteq Places \cup {None}
  BY <1>2, <1>3, <1>4 DEF Places
<1>7. OneRoot'
  BY <1>0, <1>2, <1>6, FewerPlaces
<1>8. repeated' \in BOOLEAN
  <2>1. CASE Begin \/ Adopt \/ Release \/ ReadState
    BY <1>0, <2>1 DEF Begin, Adopt, Release, ReadState, HistoryTypeOK
  <2>2. CASE Installed \/ UpdateStatus
    BY <1>0, <2>2 DEF Installed, UpdateStatus, HistoryTypeOK
  <2>3. CASE ReportFailure
    BY <1>0, <2>3 DEF ReportFailure, HistoryTypeOK
  <2> QED BY <2>1, <2>2, <2>3
<1>9. HistoryTypeOK'
  BY <1>0, <1>2, <1>8 DEF HistoryTypeOK
<1>10. cr \in Object /\ obj \in Object /\ cache \in Object
  BY <1>0 DEF WorldTypeOK, CopyTypeOK
<1>11. \A p \in {"managed", "gone"} : [cr EXCEPT !.phase = p] \in Object
  BY <1>10 DEF Object
<1>12. WorldTypeOK' /\ CopyTypeOK' /\ PassTypeOK'
  <2>1. CASE Begin
    BY <1>0, <2>1 DEF Begin, WorldTypeOK, CopyTypeOK, PassTypeOK, Labels
  <2>2. CASE Adopt
    <3>1. CASE Fresh /\ Store([cr EXCEPT !.phase = "managed"])
               /\ obj' = cr' /\ pc' = "helm" /\ UNCHANGED <<queued, objFresh, passVars>>
      <4>1. cr' \in Object /\ cache' \in Object /\ synced' \in BOOLEAN
        BY <1>0, <1>11, <3>1, StoreType
      <4> QED BY <1>0, <3>1, <4>1 DEF WorldTypeOK, CopyTypeOK, PassTypeOK, Labels
    <3>2. CASE Return(TRUE) /\ UNCHANGED crVars
      BY <1>0, <3>2, ReturnType DEF WorldTypeOK
    <3> QED BY <2>2, <3>1, <3>2 DEF Adopt
  <2>3. CASE Release
    <3>1. CASE Store([cr EXCEPT !.phase = "gone"]) /\ Return(FALSE)
      BY <1>0, <1>11, <3>1, StoreType, ReturnType DEF WorldTypeOK
    <3>2. CASE Return(TRUE) /\ UNCHANGED crVars
      BY <1>0, <3>2, ReturnType DEF WorldTypeOK
    <3> QED BY <2>3, <3>1, <3>2 DEF Release
  <2>4. CASE ReadState
    <3>1. CASE Return(FALSE) \/ Return(TRUE)
      BY <1>0, <2>4, <3>1, ReturnType DEF ReadState, WorldTypeOK
    <3>2. CASE /\ \E s \in (IF rolling THEN {"Pending", "Running"} ELSE {"Running"}) :
                      state' = [status |-> s, certs |-> secrets]
               /\ obj' = cache /\ objFresh' = synced
               /\ pc' = IF pending THEN "status" ELSE "config"
               /\ UNCHANGED <<queued, pending, config, error>>
      <4>1. state' \in State
        BY <1>0, <3>2 DEF ClusterTypeOK, State
      <4> QED BY <1>0, <2>4, <3>2, <4>1
              DEF ReadState, WorldTypeOK, CopyTypeOK, PassTypeOK, Labels
    <3> QED BY <2>4, <3>1, <3>2 DEF ReadState
  <2>5. CASE Installed
    <3>1. [cr EXCEPT !.status = "Pending"] \in Object
      BY <1>10 DEF Object
    <3>2. cr' \in Object /\ cache' \in Object /\ synced' \in BOOLEAN
      BY <1>0, <2>5, <3>1, StoreType DEF Installed, WorldTypeOK
    <3> QED BY <1>0, <2>5, <3>2, ReturnType DEF Installed, WorldTypeOK
  <2>6. CASE ReportFailure
    <3>1. [cr EXCEPT !.status = "Failed", !.error = error] \in Object
      BY <1>0, <1>10 DEF Object, PassTypeOK
    <3>2. cr' \in Object /\ cache' \in Object /\ synced' \in BOOLEAN
      BY <1>0, <2>6, <3>1, StoreType DEF ReportFailure, WorldTypeOK
    <3>3. Return(TRUE) \/ Return(FALSE)
      BY <2>6 DEF ReportFailure
    <3> QED BY <1>0, <3>2, <3>3, ReturnType DEF WorldTypeOK
  <2>7. CASE UpdateStatus
    <3> DEFINE new == [obj EXCEPT !.status = state.status, !.error = "", !.certs = state.certs]
    <3>1. new \in Object /\ [cr EXCEPT !.status = new.status, !.error = "",
                                       !.certs = new.certs] \in Object
      BY <1>0, <1>10 DEF Object, PassTypeOK, State, Errors
    <3>2. cr' \in Object /\ cache' \in Object /\ synced' \in BOOLEAN
      BY <1>0, <2>7, <3>1, StoreType DEF UpdateStatus, WorldTypeOK
    <3> QED BY <1>0, <2>7, <3>2, ReturnType DEF UpdateStatus, WorldTypeOK
  <2> QED BY <2>1, <2>2, <2>3, <2>4, <2>5, <2>6, <2>7
<1> QED BY <1>1, <1>3, <1>5, <1>7, <1>9, <1>12, TypeParts DEF IInv

\* Steps that start or finish something in Helm.
LEMMA IInvHelm ==
    ASSUME IInv, CheckRelease \/ Rollback \/ StartInstall \/ FinishInstall \/ StartUpgrade
                 \/ FinishUpgrade
    PROVE  IInv'
<1>0. /\ EnvTypeOK /\ WorldTypeOK /\ ClusterTypeOK /\ CopyTypeOK /\ PassTypeOK /\ HistoryTypeOK
      /\ Linked /\ OneRoot
  BY TypeParts DEF IInv
<1>1. EnvTypeOK'
  BY <1>0, CountTypes DEF CheckRelease, Rollback, StartInstall, FinishInstall, StartUpgrade,
                          FinishUpgrade
<1>2. HistoryTypeOK' /\ unread' = unread
  BY <1>0 DEF CheckRelease, Rollback, StartInstall, FinishInstall, StartUpgrade,
              FinishUpgrade, HistoryTypeOK
<1>3. WorldTypeOK' /\ CopyTypeOK' /\ PassTypeOK'
  <2>1. CASE Return(TRUE)
    BY <1>0, <2>1, ReturnType DEF CheckRelease, Rollback, StartInstall, FinishInstall,
                                  StartUpgrade, FinishUpgrade, WorldTypeOK
  <2>2. CASE UNCHANGED <<queued, obj, objFresh>>
    <3>1. WorldTypeOK'
      BY <1>0, <2>2 DEF CheckRelease, Rollback, StartInstall, FinishInstall,
                        StartUpgrade, FinishUpgrade, WorldTypeOK
    <3>2. CASE CheckRelease
      BY <1>0, <2>2, <3>1, <3>2, ReturnType
         DEF CheckRelease, CopyTypeOK, PassTypeOK, Labels
    <3>3. CASE Rollback
      BY <1>0, <2>2, <3>1, <3>3, ReturnType DEF Rollback, CopyTypeOK, PassTypeOK, Labels
    <3>4. CASE StartInstall \/ FinishInstall
      BY <1>0, <2>2, <3>1, <3>4
         DEF StartInstall, FinishInstall, Fail, CopyTypeOK, PassTypeOK, Labels, Errors
    <3>5. CASE StartUpgrade \/ FinishUpgrade
      BY <1>0, <2>2, <3>1, <3>5
         DEF StartUpgrade, FinishUpgrade, Fail, CopyTypeOK, PassTypeOK, Labels, Errors
    <3> QED BY <3>2, <3>3, <3>4, <3>5, <3>1
  <2>3. Return(TRUE) \/ UNCHANGED <<queued, obj, objFresh>>
    BY DEF CheckRelease, Rollback, StartInstall, FinishInstall, StartUpgrade,
           FinishUpgrade, Fail
  <2> QED BY <2>1, <2>2, <2>3
<1>4. config' \in {config, None}
  BY DEF CheckRelease, Rollback, StartInstall, FinishInstall, StartUpgrade, FinishUpgrade,
         Fail, Return
<1>5. Released \in Crypto \cup {None}
  BY <1>0 DEF Released, ClusterTypeOK, Revision
<1>6. /\ ClusterTypeOK' /\ Linked'
      /\ {secrets', before', deployed', Released'} \subseteq Places \cup {None}
  <2>1. CASE /\ UNCHANGED helmVars /\ UNCHANGED clusterVars
             /\ pc' \notin {"install", "installing", "upgrade", "upgrading", "rollback"}
    BY <1>0, <2>1 DEF ClusterTypeOK, Linked, Places, Released
  <2>2. ASSUME NEW s \in {"pending-install", "pending-upgrade", "pending-rollback"},
               NEW c \in Places, c # None, Revise(s, c), UNCHANGED clusterVars,
               s = "pending-upgrade" => release # None,
               pc' \in {"installing", "upgrading", "rollback"}
        PROVE  /\ ClusterTypeOK' /\ Linked'
               /\ {secrets', before', deployed', Released'} \subseteq Places \cup {None}
    <3>1. c \in Crypto
      BY <1>0, <1>5, <2>2 DEF Places, ClusterTypeOK, PassTypeOK
    <3>2. /\ ClusterTypeOK' /\ release' # None /\ before' = Released
          /\ release'.status = s /\ Released' = c
      BY <1>0, <2>2, <3>1, ReviseType
    <3>3. release # None => Released # None
      BY <1>0, NoneTypes DEF Released, ClusterTypeOK, Revision
    <3>4. Linked'
      BY <2>2, <3>2, <3>3 DEF Linked
    <3> QED BY <2>2, <3>2, <3>4 DEF Places, Revise
  <2>3. ASSUME NEW s \in {"deployed", "failed"}, release # None, Finished(s),
               MaybeApplied(release.crypto),
               pc' \notin {"install", "installing", "upgrade", "upgrading", "rollback"}
        PROVE  /\ ClusterTypeOK' /\ Linked'
               /\ {secrets', before', deployed', Released'} \subseteq Places \cup {None}
    <3>1. /\ ClusterTypeOK' /\ release' # None /\ release'.status = s
          /\ Released' = Released /\ before' = before
          /\ deployed' \in {deployed, Released} /\ secrets' \in {secrets, Released}
      BY <1>0, <2>3, FinishedType
    <3> QED BY <2>3, <3>1 DEF Linked, Places
  <2>4. CASE CheckRelease
    <3>1. CASE release # None /\ release.status = "pending-upgrade"
               /\ Revise("pending-rollback", before) /\ pc' = "rollback"
      BY <1>0, <2>2, <2>4, <3>1 DEF CheckRelease, Linked, Places
    <3>2. CASE deployed # None /\ Revise("pending-rollback", deployed) /\ pc' = "rollback"
      BY <2>2, <2>4, <3>2 DEF CheckRelease, Places
    <3>3. CASE UNCHANGED helmVars /\ pc' \in {"config", "state", "idle"}
      BY <2>1, <2>4, <3>3 DEF CheckRelease
    <3> QED BY <2>4, <3>1, <3>2, <3>3 DEF CheckRelease, Return
  <2>5. CASE Rollback
    <3>1. release # None
      BY <1>0, <2>5 DEF Rollback, Linked
    <3>2. PICK s \in {"deployed", "failed"} : Finished(s)
      BY <2>5 DEF Rollback
    <3>3. MaybeApplied(release.crypto)
      BY <2>5 DEF Rollback, MaybeApplied
    <3>4. pc' \notin {"install", "installing", "upgrade", "upgrading", "rollback"}
      BY <2>5 DEF Rollback, Return
    <3> QED BY <2>3, <3>1, <3>2, <3>3, <3>4
  <2>6. CASE StartInstall
    BY <1>0, <2>2, <2>6 DEF StartInstall, Linked, Places
  <2>7. CASE FinishInstall \/ FinishUpgrade
    <3>1. release # None
      BY <1>0, <2>7 DEF FinishInstall, FinishUpgrade, Linked
    <3>2. PICK s \in {"deployed", "failed"} : Finished(s)
      BY <2>7 DEF FinishInstall, FinishUpgrade
    <3>3. MaybeApplied(release.crypto)
      BY <2>7 DEF FinishInstall, FinishUpgrade, MaybeApplied
    <3>4. pc' \notin {"install", "installing", "upgrade", "upgrading", "rollback"}
      BY <2>7 DEF FinishInstall, FinishUpgrade, Fail
    <3> QED BY <2>3, <3>1, <3>2, <3>3, <3>4
  <2>8. CASE StartUpgrade
    <3>1. CASE Revise("pending-upgrade", config) /\ pc' = "upgrading"
      BY <1>0, <2>2, <2>8, <3>1 DEF StartUpgrade, Linked, Places
    <3>2. CASE UNCHANGED helmVars /\ pc' = "failed"
      BY <2>1, <2>8, <3>2 DEF StartUpgrade
    <3> QED BY <2>8, <3>1, <3>2 DEF StartUpgrade, Fail
  <2> QED BY <2>4, <2>5, <2>6, <2>7, <2>8
<1>7. Places' \subseteq Places \cup {None}
  BY <1>4, <1>6 DEF Places
<1>8. OneRoot'
  BY <1>0, <1>2, <1>7, FewerPlaces
<1> QED BY <1>1, <1>2, <1>3, <1>6, <1>8, TypeParts DEF IInv

\* The release is taken away, and with it every root.
LEMMA IInvUninstall == ASSUME IInv, Uninstall PROVE IInv'
<1>0. /\ EnvTypeOK /\ WorldTypeOK /\ ClusterTypeOK /\ CopyTypeOK /\ PassTypeOK /\ HistoryTypeOK
      /\ Linked /\ OneRoot
  BY TypeParts DEF IInv
<1>1. EnvTypeOK'
  BY <1>0, CountTypes DEF Uninstall
<1>2. /\ WorldTypeOK' /\ CopyTypeOK' /\ PassTypeOK' /\ HistoryTypeOK'
      /\ config' = config /\ unread' = unread /\ pc' = "release"
  BY <1>0 DEF Uninstall, WorldTypeOK, CopyTypeOK, PassTypeOK, HistoryTypeOK, Labels
<1>3. \/ /\ release' = None /\ before' = None /\ deployed' = None
         /\ secrets' = None /\ rolling' = FALSE
      \/ UNCHANGED <<helmVars, clusterVars>>
  BY DEF Uninstall
<1>4. ClusterTypeOK'
  BY <1>0, <1>3 DEF ClusterTypeOK
<1>5. Linked'
  BY <1>0, <1>2, <1>3 DEF Linked
<1>6. Places' \subseteq Places \cup {None}
  BY <1>2, <1>3 DEF Places, Released
<1>7. OneRoot'
  BY <1>0, <1>2, <1>6, FewerPlaces
<1> QED BY <1>1, <1>2, <1>4, <1>5, <1>7, TypeParts DEF IInv

\* The root is read and used again, or it is noted that it was not.
LEMMA IInvGetConfig == ASSUME IInv, GetConfig PROVE IInv'
<1>0. /\ EnvTypeOK /\ WorldTypeOK /\ ClusterTypeOK /\ CopyTypeOK /\ PassTypeOK /\ HistoryTypeOK
      /\ Linked /\ OneRoot /\ TypeOK
  BY TypeParts DEF IInv
<1>1. EnvTypeOK'
  BY <1>0, CountTypes DEF GetConfig
<1>2. /\ config' \in Crypto
      /\ unread' \in BOOLEAN
      /\ ~unread' => ~unread /\ (secrets = None \/ config'.root = secrets.root)
      /\ ~unread' => release = None \/ secrets # None
  <2>1. CASE /\ MakeConfig(secrets # None, secrets # None)
             /\ unread' = (unread \/ (release # None /\ secrets = None))
    <3>1. config' \in Crypto /\ (secrets # None => config'.root = secrets.root)
      BY <1>0, <2>1, MakeConfigType
    <3> QED BY <1>0, <2>1, <3>1 DEF HistoryTypeOK
  <2>2. CASE secrets # None /\ MakeConfig(FALSE, TRUE) /\ UNCHANGED unread
    BY <1>0, <2>2, MakeConfigType DEF HistoryTypeOK
  <2>3. CASE secrets # None /\ MakeConfig(TRUE, FALSE) /\ unread' = TRUE
    BY <1>0, <2>3, MakeConfigType
  <2> QED BY <2>1, <2>2, <2>3 DEF GetConfig
<1>3. /\ UNCHANGED <<helmVars, clusterVars>> /\ Released' = Released
      /\ pc' = IF release = None THEN "install" ELSE "upgrade"
  BY DEF GetConfig, Released
<1>4. WorldTypeOK' /\ CopyTypeOK' /\ PassTypeOK' /\ HistoryTypeOK'
  BY <1>0, <1>2 DEF GetConfig, WorldTypeOK, CopyTypeOK, PassTypeOK, HistoryTypeOK, Labels
<1>5. ClusterTypeOK'
  BY <1>0, <1>3 DEF ClusterTypeOK
<1>6. Linked'
  BY <1>0, <1>2, <1>3, NoneTypes DEF Linked
<1>7. OneRoot'
  <2> SUFFICES ASSUME ~unread' PROVE \A c, d \in Places' : SameRoot(c, d)
    BY DEF OneRoot
  <2>1. \A c \in Places' : c \in Places \/ c = config'
    BY <1>3 DEF Places
  <2>2. \A c \in Places' \ {config'} : SameRoot(c, config') /\ SameRoot(config', c)
    <3>1. CASE secrets = None
      BY <1>0, <1>2, <1>3, <3>1 DEF Places, Released, SameRoot, Linked
    <3>2. CASE secrets # None
      BY <1>0, <1>2, <1>3, <2>1, <3>2 DEF OneRoot, SameRoot, Places
    <3> QED BY <3>1, <3>2
  <2>3. \A c, d \in Places : SameRoot(c, d)
    BY <1>0, <1>2 DEF OneRoot
  <2> QED BY <2>1, <2>2, <2>3 DEF SameRoot
<1> QED BY <1>1, <1>4, <1>5, <1>6, <1>7, TypeParts DEF IInv

\* Every step keeps the invariant.
THEOREM IInvStep == IInv /\ [Next]_vars => IInv'
<1> SUFFICES ASSUME IInv, [Next]_vars PROVE IInv' OBVIOUS
<1>1. CASE UNCHANGED vars
  <2>1. Released' = Released
    BY <1>1 DEF Released
  <2> QED BY <1>1, <2>1 DEF IInv, TypeOK, Linked, OneRoot, Places
<1>2. CASE Next
  BY <1>2, IInvEnvironment, IInvCrash, IInvStatus, IInvHelm, IInvUninstall, IInvGetConfig
     DEF Next, Reconcile
<1> QED BY <1>1, <1>2

-----------------------------------------------------------------------------
(* What follows.                                                              *)

\* Every variable of the CA controller keeps to its type in every behaviour.
THEOREM TypeCorrect == Spec => []TypeOK
<1>1. IInv => TypeOK
  BY DEF IInv
<1> QED BY <1>1, IInvInit, IInvStep, PTL DEF Spec

\* What a step puts into the cluster has the root that is there.
LEMMA RootStep ==
    ASSUME IInv, [Next]_vars, secrets # None, secrets' # None, ~unread
    PROVE  secrets'.root = secrets.root
<1>1. secrets' \in {secrets, Released}
  <2>1. CASE Crash \/ Rollback \/ FinishInstall \/ FinishUpgrade
    <3>1. CASE MaybeApplied(release.crypto) /\ release # None
      BY <3>1 DEF MaybeApplied, Applied, Released
    <3>2. CASE UNCHANGED clusterVars
      BY <3>2
    <3>3. pc \in {"installing", "upgrading", "rollback"} => release # None
      BY DEF IInv, Linked
    <3> QED BY <2>1, <3>1, <3>2, <3>3
            DEF Crash, Rollback, FinishInstall, FinishUpgrade, MaybeApplied
  <2>2. CASE Uninstall
    BY <2>2 DEF Uninstall
  <2>3. CASE Edit \/ LoseSecrets \/ CacheSync \/ RolloutDone \/ UNCHANGED vars
    BY <2>3 DEF Edit, LoseSecrets, CacheSync, RolloutDone
  <2>4. CASE Begin \/ Adopt \/ Release \/ CheckRelease \/ ReadState \/ GetConfig \/ StartInstall
             \/ Installed \/ StartUpgrade \/ ReportFailure \/ UpdateStatus
    BY <2>4 DEF Begin, Adopt, Release, CheckRelease, ReadState, GetConfig, StartInstall,
                Installed, StartUpgrade, ReportFailure, UpdateStatus
  <2> QED BY <2>1, <2>2, <2>3, <2>4 DEF Next, Reconcile
<1>2. SameRoot(Released, secrets)
  BY DEF IInv, OneRoot, Places
<1> QED BY <1>1, <1>2 DEF SameRoot

\* The root of a CA survives every upgrade, rollback, failure and restart of the operator
\* as long as every pass could read it.
THEOREM RootKept == Spec => RootSurvives
<1>1. IInv /\ [Next]_vars
        => [secrets # None /\ secrets' # None /\ ~unread => secrets'.root = secrets.root]_vars
  BY RootStep
<1> QED BY <1>1, IInvInit, IInvStep, PTL DEF Spec, RootSurvives

-----------------------------------------------------------------------------
(* No CA is forgotten.  A pass ends with the key added again, or with a write *)
(* that brings another pass; it ends for good only when the resource is gone  *)
(* or its status says already what has failed.                                *)

\* Nothing is going on, and nothing will before somebody changes something.
AtRest == pc = "idle" /\ ~queued /\ synced

NoneForgotten ==
    AtRest /\ cr.phase # "gone" => cr.phase = "managed" /\ cr.status = "Failed" /\ repeated

\* A worker on the way with a resource that is not managed any more has another pass to
\* come; one about to add the finalizer to the last version adds it to a new resource.
PhaseLinked ==
    /\ synced => cache = cr
    /\ cache.phase = "gone" => cr.phase = "gone"
    /\ pc = "adopt" /\ objFresh => cr.phase = "new"
    /\ pc \notin {"idle", "adopt", "uninstall", "release"}
          => queued \/ ~synced \/ cr.phase = "managed"

\* The fields of a changed copy.
LEMMA CopyFields ==
    ASSUME NEW o \in Object
    PROVE  /\ \A h : [o EXCEPT !.hosts = h].phase = o.phase
           /\ \A p : [o EXCEPT !.phase = p].phase = p
           /\ \A s : [o EXCEPT !.status = s].phase = o.phase
           /\ \A s, e : /\ [o EXCEPT !.status = s, !.error = e].phase = o.phase
                        /\ [o EXCEPT !.status = s, !.error = e].status = s
           /\ \A s, e, c : [o EXCEPT !.status = s, !.error = e, !.certs = c].phase = o.phase
BY DEF Object

\* A write that leaves the phase, at the end of a pass.
LEMMA PhaseWritten ==
    ASSUME PhaseLinked, NEW o, Store(o), o.phase = cr.phase, pc' = "idle"
    PROVE  PhaseLinked'
BY DEF PhaseLinked, Store

\* Steps that leave the resource and the queue alone and go on with a managed resource.
LEMMA PhaseWithin ==
    ASSUME PhaseLinked, UNCHANGED crVars, queued => queued',
           pc \notin {"idle", "adopt", "uninstall", "release"}, pc' # "adopt"
    PROVE  PhaseLinked'
BY DEF PhaseLinked

LEMMA PhaseStep == ASSUME IInv, PhaseLinked, Next PROVE PhaseLinked'
<1>0. cr \in Object
  BY TypeParts DEF IInv, WorldTypeOK
<1>1. CASE Edit
  <2>1. cr.phase = "gone" => cr'.phase = "gone"
    BY <1>1 DEF Edit
  <2> QED BY <1>1, <2>1 DEF Edit, PhaseLinked
<1>2. CASE LoseSecrets \/ CacheSync \/ RolloutDone \/ Crash
  <2>1. CASE LoseSecrets \/ RolloutDone
    BY <2>1 DEF LoseSecrets, RolloutDone, PhaseLinked
  <2>2. CASE CacheSync
    BY <2>2 DEF CacheSync, PhaseLinked
  <2>3. CASE Crash
    <3>1. cache' = cr' /\ pc' = "idle"
      BY <2>3 DEF Crash
    <3> QED BY <3>1 DEF PhaseLinked
  <2> QED BY <1>2, <2>1, <2>2, <2>3
<1>3. CASE Begin
  <2>1. CASE cache.phase = "gone"
    BY <1>3, <2>1 DEF Begin, PhaseLinked
  <2>2. CASE cache.phase = "new" \/ cache.phase = "deleting"
    BY <1>3, <2>2 DEF Begin, PhaseLinked
  <2>3. CASE cache.phase = "managed"
    BY <1>3, <2>3 DEF Begin, PhaseLinked
  <2>4. cache.phase \in {"new", "managed", "deleting", "gone"}
    BY TypeParts DEF IInv, WorldTypeOK, Object
  <2> QED BY <2>1, <2>2, <2>3, <2>4
<1>4. CASE Adopt
  <2>1. CASE Fresh /\ Store([cr EXCEPT !.phase = "managed"]) /\ pc' = "helm"
    <3>1. cr.phase = "new"
      BY <1>4, <2>1 DEF Adopt, Fresh, PhaseLinked
    <3>2. cr' = [cr EXCEPT !.phase = "managed"] /\ cache' = cache
          /\ (synced' => synced /\ cr' = cr)
      BY <2>1 DEF Store
    <3>3. cr'.phase = "managed"
      BY <1>0, <3>2, CopyFields
    <3> QED BY <2>1, <3>1, <3>2, <3>3 DEF PhaseLinked
  <2>2. CASE Return(TRUE) /\ UNCHANGED crVars
    BY <2>2 DEF Return, PhaseLinked
  <2> QED BY <1>4, <2>1, <2>2 DEF Adopt
<1>5. CASE Uninstall
  BY <1>5 DEF Uninstall, PhaseLinked
<1>6. CASE Release
  <2>1. CASE Store([cr EXCEPT !.phase = "gone"]) /\ Return(FALSE)
    <3>1. cr'.phase = "gone"
      BY <1>0, <2>1, CopyFields DEF Store
    <3> QED BY <2>1, <3>1 DEF PhaseLinked, Store, Return
  <2>2. CASE Return(TRUE) /\ UNCHANGED crVars
    BY <2>2 DEF Return, PhaseLinked
  <2> QED BY <1>6, <2>1, <2>2 DEF Release
<1>7. CASE CheckRelease \/ Rollback \/ ReadState \/ GetConfig \/ StartInstall \/ FinishInstall
           \/ StartUpgrade \/ FinishUpgrade
  <2>1. /\ UNCHANGED crVars /\ (queued => queued') /\ pc' # "adopt"
        /\ pc \notin {"idle", "adopt", "uninstall", "release"}
    <3> USE DEF Fail
    <3>1. CASE CheckRelease \/ Rollback
      <4>1. UNCHANGED crVars /\ pc \in {"helm", "rollback"}
        BY <3>1 DEF CheckRelease, Rollback
      <4>2. Return(TRUE) \/ (UNCHANGED queued /\ pc' # "adopt")
        BY <3>1 DEF CheckRelease, Rollback
      <4>3. CASE Return(TRUE) \/ Return(FALSE)
        BY <4>1, <4>3 DEF Return
      <4>4. CASE UNCHANGED queued /\ pc' # "adopt"
        BY <4>1, <4>4
      <4> QED BY <4>2, <4>3, <4>4
    <3>2. CASE ReadState \/ GetConfig
      <4>1. UNCHANGED crVars /\ pc \in {"state", "config"}
        BY <3>2 DEF ReadState, GetConfig
      <4>2. Return(TRUE) \/ Return(FALSE) \/ (UNCHANGED queued /\ pc' # "adopt")
        BY <3>2 DEF ReadState, GetConfig
      <4>3. CASE Return(TRUE) \/ Return(FALSE)
        BY <4>1, <4>3 DEF Return
      <4>4. CASE UNCHANGED queued /\ pc' # "adopt"
        BY <4>1, <4>4
      <4> QED BY <4>2, <4>3, <4>4
    <3>3. CASE StartInstall \/ FinishInstall \/ StartUpgrade \/ FinishUpgrade
      BY <3>3 DEF StartInstall, FinishInstall, StartUpgrade, FinishUpgrade
    <3> QED BY <1>7, <3>1, <3>2, <3>3
  <2> QED BY <2>1, PhaseWithin
<1>8. CASE Installed \/ ReportFailure \/ UpdateStatus
  <2>1. pc' = "idle"
    BY <1>8 DEF Installed, ReportFailure, UpdateStatus, Return
  <2>2. CASE UNCHANGED crVars
    BY <2>1, <2>2 DEF PhaseLinked
  <2>3. CASE \E o : Store(o) /\ o.phase = cr.phase
    BY <2>1, <2>3, PhaseWritten
  <2>4. UNCHANGED crVars \/ \E o : Store(o) /\ o.phase = cr.phase
    <3>1. CASE Installed
      <4> DEFINE o == [cr EXCEPT !.status = "Pending"]
      <4>1. o.phase = cr.phase
        BY <1>0, CopyFields
      <4>2. UNCHANGED crVars \/ Store(o)
        BY <3>1 DEF Installed
      <4> QED BY <4>1, <4>2
    <3>2. CASE ReportFailure
      <4> DEFINE o == [cr EXCEPT !.status = "Failed", !.error = error]
      <4>1. o.phase = cr.phase
        BY <1>0, CopyFields
      <4>2. UNCHANGED crVars \/ Store(o)
        BY <3>2 DEF ReportFailure
      <4> QED BY <4>1, <4>2
    <3>3. CASE UpdateStatus
      <4> DEFINE new == [obj EXCEPT !.status = state.status, !.error = "", !.certs = state.certs]
                 o == [cr EXCEPT !.status = new.status, !.error = "", !.certs = new.certs]
      <4>1. o.phase = cr.phase
        BY <1>0, CopyFields
      <4>2. UNCHANGED crVars \/ Store(o)
        BY <3>3 DEF UpdateStatus
      <4> QED BY <4>1, <4>2
    <3> QED BY <1>8, <3>1, <3>2, <3>3
  <2> QED BY <2>2, <2>3, <2>4
<1> QED BY <1>1, <1>2, <1>3, <1>4, <1>5, <1>6, <1>7, <1>8 DEF Next, Reconcile

LEMMA RestStep == ASSUME IInv, PhaseLinked, NoneForgotten, Next PROVE NoneForgotten'
<1> USE DEF NoneForgotten, AtRest
<1>0. cr \in Object
  BY TypeParts DEF IInv, WorldTypeOK
<1>1. CASE Edit \/ CacheSync \/ Crash
  BY <1>1 DEF Edit, CacheSync, Crash
<1>2. CASE LoseSecrets \/ RolloutDone
  BY <1>2 DEF LoseSecrets, RolloutDone
<1>3. CASE Begin
  BY <1>3 DEF Begin, PhaseLinked
<1>4. CASE Adopt \/ Uninstall
  BY <1>4 DEF Adopt, Uninstall, Return
<1>5. CASE Release
  <2>1. [cr EXCEPT !.phase = "gone"].phase = "gone"
    BY <1>0, CopyFields
  <2> QED BY <1>5, <2>1 DEF Release, Return, Store
<1>6. CASE CheckRelease \/ Rollback
  BY <1>6 DEF CheckRelease, Rollback, Return
<1>7. CASE ReadState
  BY <1>7 DEF ReadState, Return, PhaseLinked
<1>8. CASE GetConfig
  BY <1>8 DEF GetConfig
<1>9. CASE StartInstall \/ FinishInstall \/ StartUpgrade \/ FinishUpgrade
  BY <1>9 DEF StartInstall, FinishInstall, StartUpgrade, FinishUpgrade, Fail
<1>10. CASE Installed \/ UpdateStatus
  BY <1>10 DEF Installed, UpdateStatus, Return
<1>11. CASE ReportFailure
  <2>1. CASE Return(TRUE)
    BY <2>1 DEF Return
  <2>2. CASE /\ Store([cr EXCEPT !.status = "Failed", !.error = error])
             /\ repeated' = (cr' = cr) /\ Return(FALSE)
    <3>1. cr'.status = "Failed" /\ cr'.phase = cr.phase
      BY <1>0, <2>2, CopyFields DEF Store
    <3>2. synced' => synced /\ cr' = cr
      BY <2>2 DEF Store
    <3>3. queued \/ ~synced \/ cr.phase = "managed"
      BY <1>11 DEF ReportFailure, PhaseLinked
    <3> QED BY <2>2, <3>1, <3>2, <3>3 DEF Return
  <2> QED BY <1>11, <2>1, <2>2 DEF ReportFailure
<1> QED BY <1>1, <1>2, <1>3, <1>4, <1>5, <1>6, <1>7, <1>8, <1>9, <1>10, <1>11
        DEF Next, Reconcile

\* A CA is never forgotten half way, neither in its making nor in its removal, whatever
\* failed and wherever the operator died: what no pass will come for is gone or says in
\* its status what failed twice (ReportFailure, which asks for no retry).
THEOREM Remembered == Spec => []NoneForgotten
<1>1. Init => PhaseLinked /\ NoneForgotten
  BY DEF Init, PhaseLinked, NoneForgotten, AtRest
<1>2. IInv /\ PhaseLinked /\ NoneForgotten /\ [Next]_vars => PhaseLinked' /\ NoneForgotten'
  <2>1. PhaseLinked /\ NoneForgotten /\ UNCHANGED vars => PhaseLinked' /\ NoneForgotten'
    BY DEF PhaseLinked, NoneForgotten, AtRest
  <2> QED BY <2>1, PhaseStep, RestStep
<1> QED BY <1>1, <1>2, IInvInit, IInvStep, PTL DEF Spec

===============================================================================
