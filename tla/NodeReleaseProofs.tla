--------------------------- MODULE NodeReleaseProofs ---------------------------
(* Theorems about NodeRelease, for all kinds and specs and every bound.        *)
EXTENDS NodeRelease, TLAPS

USE DEF Goto, Step, NoFault, NoPass, vars, crVars, queueVars, helmVars, clusterVars, copyVars,
        passVars, historyVars, envVars

-----------------------------------------------------------------------------
(* The types by their parts.                                                  *)

EnvTypeOK == edits \in Nat /\ faults \in Nat /\ crashes \in Nat
WorldTypeOK == /\ kind \in Kinds /\ cr \in Object /\ cache \in Object
               /\ synced \in BOOLEAN /\ queued \in BOOLEAN /\ timer \in BOOLEAN
               /\ service \in BOOLEAN
ClusterTypeOK == /\ release \in Revision \cup {None}
                 /\ before \in Values \cup {None} /\ deployed \in Values \cup {None}
                 /\ applied \in Values \cup {None} /\ rolling \in BOOLEAN
CopyTypeOK == pc \in Labels /\ obj \in Object /\ objFresh \in BOOLEAN
PassTypeOK == /\ pending \in BOOLEAN /\ config \in Values \cup {None}
              /\ state \in {"Pending", "Running"} /\ error \in Errors
HistoryTypeOK == /\ unread \in BOOLEAN /\ skipped \in BOOLEAN /\ leftover \in BOOLEAN
                 /\ repeated \in BOOLEAN

LEMMA TypeParts ==
    /\ TypeOK <=> /\ EnvTypeOK /\ WorldTypeOK /\ ClusterTypeOK
                  /\ CopyTypeOK /\ PassTypeOK /\ HistoryTypeOK
    /\ TypeOK' <=> /\ EnvTypeOK' /\ WorldTypeOK' /\ ClusterTypeOK'
                   /\ CopyTypeOK' /\ PassTypeOK' /\ HistoryTypeOK'
BY DEF TypeOK, EnvTypeOK, WorldTypeOK, ClusterTypeOK, CopyTypeOK, PassTypeOK, HistoryTypeOK

-----------------------------------------------------------------------------
(* What keeps the certificate.  It is the same wherever one is to be found,   *)
(* until one could not be read; a worker that is going to use a revision, or  *)
(* the values it has put together, finds them.                                *)

\* Values c and d do not have different certificates.
SameCert(c, d) == c # None /\ d # None /\ 0 \notin {c.cert, d.cert} => c.cert = d.cert

Released == IF release = None THEN None ELSE release.values
Places == {applied, before, deployed, config, Released}

OneCert == ~unread => \A c, d \in Places : SameCert(c, d)

HelmLabels == {"install", "installing", "upgrade", "upgrading", "rollback", "status"}
HelmLinked ==
    /\ release = None => applied = None /\ before = None /\ deployed = None
    /\ release # None /\ release.status = "pending-upgrade" => before # None
    /\ pc \in {"installing", "upgrading", "rollback", "upgrade"} => release # None
    /\ pc \in {"install", "upgrade"} => config # None
    /\ pc = "install" => release = None
    /\ pc = "status" /\ kind # "console" => applied # None

IInv == TypeOK /\ HelmLinked /\ OneCert

-----------------------------------------------------------------------------
(* What the steps are made of.                                                *)

LEMMA NoneTypes == None \notin Values /\ None \notin Revision
BY NoneAssumption

LEMMA KindTypes == ASSUME WorldTypeOK PROVE Reported[kind] \subseteq Errors
<1>1. kind \in DOMAIN Reported
  BY KindAssumption DEF WorldTypeOK, Reported
<1> QED BY <1>1 DEF Errors

LEMMA ErrorTypes == {"", "patch", "conflict"} \subseteq Errors
<1>1. "" \in Errors /\ "patch" \in Errors
  <2>1. "" \in {"", "patch"} /\ "patch" \in {"", "patch"}
    OBVIOUS
  <2> QED BY <2>1, Zenon DEF Errors
<1>2. "peer" \in DOMAIN Reported /\ "conflict" \in Reported["peer"]
  BY DEF Reported
<1>3. "conflict" \in Errors
  BY <1>2, Zenon DEF Errors
<1> QED BY <1>1, <1>3

LEMMA BlankTypes == \A s \in Specs : Blank(s) \in Object
BY ErrorTypes DEF Blank, Object

LEMMA CountTypes ==
    ASSUME EnvTypeOK, NoFault \/ (\E c : Fault(c)) \/ Edits
    PROVE  EnvTypeOK'
BY DEF EnvTypeOK, Fault, Edits

LEMMA StoreType == ASSUME WorldTypeOK, NEW o \in Object, Store(o)
                   PROVE  cr' \in Object /\ cache' \in Object /\ synced' \in BOOLEAN
BY DEF WorldTypeOK, Store

\* The end of a pass, and a step of one, leave the types of queue, copy and pass alone.
QueueTypeOK == queued \in BOOLEAN /\ timer \in BOOLEAN

LEMMA ReturnType ==
    ASSUME WorldTypeOK, CopyTypeOK, NEW r \in BOOLEAN, NEW d \in BOOLEAN, Return(r, d)
    PROVE  CopyTypeOK' /\ PassTypeOK' /\ QueueTypeOK'
BY ErrorTypes DEF WorldTypeOK, CopyTypeOK, PassTypeOK, QueueTypeOK, Return, Labels

LEMMA StepType ==
    ASSUME WorldTypeOK, CopyTypeOK, PassTypeOK, NEW l \in Labels, Step(l)
    PROVE  CopyTypeOK' /\ PassTypeOK' /\ QueueTypeOK'
BY DEF WorldTypeOK, CopyTypeOK, PassTypeOK, QueueTypeOK

LEMMA FailType ==
    ASSUME WorldTypeOK, CopyTypeOK, PassTypeOK, NEW e, Fail(e)
    PROVE  /\ CopyTypeOK' /\ PassTypeOK' /\ QueueTypeOK'
           /\ pc' \in {"idle", "failed"} /\ config' \in {config, None}
<1>1. CASE e \in Reported[kind]
  BY <1>1, KindTypes DEF Fail, WorldTypeOK, CopyTypeOK, PassTypeOK, QueueTypeOK, Labels
<1>2. CASE e \notin Reported[kind]
  <2>1. Return(TRUE, FALSE)
    BY <1>2 DEF Fail
  <2> QED BY <2>1, ReturnType DEF Return
<1> QED BY <1>1, <1>2

LEMMA ContinueLabel == \A b \in BOOLEAN : Continue(b) \in {"service", "read", "config"}
BY DEF Continue

\* A new revision of what is there to be installed.
LEMMA ReviseType ==
    ASSUME ClusterTypeOK, NEW c \in Values, UNCHANGED clusterVars,
           NEW s \in {"pending-install", "pending-upgrade", "pending-rollback"}, Revise(s, c)
    PROVE  /\ ClusterTypeOK' /\ release' # None /\ before' = Released
           /\ release'.status = s /\ Released' = c
<1>1. release' = [status |-> s, values |-> c] /\ release' \in Revision
  BY DEF Revise, Revision
<1>2. before' = Released /\ before' \in Values \cup {None}
  BY DEF Revise, Released, ClusterTypeOK, Revision
<1>3. release' # None
  BY <1>1, NoneTypes
<1> QED BY <1>1, <1>2, <1>3 DEF ClusterTypeOK, Revise, Released

\* The end of what Helm does, and what it leaves in the cluster.
LEMMA FinishedType ==
    ASSUME ClusterTypeOK, release # None, NEW s \in {"deployed", "failed"},
           Finished(s), MaybeApplied(release.values)
    PROVE  /\ ClusterTypeOK' /\ release' # None /\ release'.status = s
           /\ Released' = Released /\ before' = before
           /\ deployed' \in {deployed, Released} /\ applied' \in {applied, Released}
<1>1. release \in Revision /\ Released = release.values /\ release.values \in Values
  BY DEF ClusterTypeOK, Revision, Released
<1>2. /\ release' = [release EXCEPT !.status = s] /\ release' \in Revision
      /\ release'.values = release.values /\ release'.status = s
  BY <1>1 DEF Finished, Revision
<1>3. release' # None
  BY <1>2, NoneTypes
<1>4. deployed' \in {deployed, Released} /\ before' = before
  BY <1>1 DEF Finished
<1>5. applied' \in {applied, Released} /\ rolling' \in BOOLEAN
  BY <1>1 DEF MaybeApplied, Applied, ClusterTypeOK
<1>6. Released' = Released
  BY <1>1, <1>2, <1>3 DEF Released
<1> QED BY <1>1, <1>2, <1>3, <1>4, <1>5, <1>6 DEF ClusterTypeOK

\* Places with no other certificate than before keep one.
LEMMA FewerPlaces ==
    ASSUME OneCert, unread' = unread,
           \A c \in Places' : c \in Places \/ c = None \/ c.cert = 0
    PROVE  OneCert'
BY DEF OneCert, SameCert

-----------------------------------------------------------------------------
(* The inductive step.                                                        *)

\* There are no certificates and no release at first.
THEOREM IInvInit == Init => IInv
<1> SUFFICES ASSUME Init PROVE IInv OBVIOUS
<1>1. EnvTypeOK /\ HistoryTypeOK /\ ClusterTypeOK
  BY DEF Init, EnvTypeOK, HistoryTypeOK, ClusterTypeOK
<1>2. cr \in Object /\ cache = cr /\ obj = cr
  BY BlankTypes DEF Init
<1>3. WorldTypeOK /\ CopyTypeOK /\ PassTypeOK
  BY <1>2, ErrorTypes DEF Init, WorldTypeOK, CopyTypeOK, PassTypeOK, Labels
<1>4. HelmLinked
  BY DEF Init, HelmLinked
<1>5. OneCert
  BY DEF Init, OneCert, Places, Released, SameCert
<1> QED BY <1>1, <1>3, <1>4, <1>5, TypeParts DEF IInv

\* Users, time and the cluster.
Around == Edit \/ LoseSecrets \/ LoseService \/ CacheSync \/ Timer \/ RolloutDone
LEMMA IInvAround == ASSUME IInv, Around PROVE IInv'
<1> USE DEF Around
<1>0. /\ EnvTypeOK /\ WorldTypeOK /\ ClusterTypeOK /\ CopyTypeOK /\ PassTypeOK /\ HistoryTypeOK
      /\ HelmLinked /\ OneCert
  BY TypeParts DEF IInv
<1>1. EnvTypeOK'
  BY <1>0, CountTypes DEF Edit, LoseSecrets, LoseService, CacheSync, Timer, RolloutDone
<1>2. PassTypeOK' /\ HistoryTypeOK'
  BY <1>0 DEF Edit, LoseSecrets, LoseService, CacheSync, Timer, RolloutDone, PassTypeOK,
              HistoryTypeOK
<1>3. CopyTypeOK' /\ pc' = pc
  BY <1>0 DEF Edit, LoseSecrets, LoseService, CacheSync, Timer, RolloutDone, CopyTypeOK
<1>4. /\ UNCHANGED helmVars /\ Released' = Released /\ UNCHANGED <<config, unread, kind>>
      /\ rolling' \in BOOLEAN
  BY <1>0 DEF Edit, LoseSecrets, LoseService, CacheSync, Timer, RolloutDone, Released,
              ClusterTypeOK
<1>5. /\ applied' \in Values \cup {None} /\ (applied' = None <=> applied = None)
      /\ applied' = applied \/ applied'.cert = 0
  <2>1. CASE LoseSecrets
    <3>1. applied \in Values /\ applied' = [applied EXCEPT !.cert = 0]
      BY <1>0, <2>1 DEF LoseSecrets, ClusterTypeOK
    <3>2. applied' \in Values /\ applied'.cert = 0
      BY <3>1 DEF Values
    <3> QED BY <3>1, <3>2, NoneTypes
  <2>2. CASE ~LoseSecrets
    BY <1>0, <2>2 DEF Edit, LoseService, CacheSync, Timer, RolloutDone, ClusterTypeOK
  <2> QED BY <2>1, <2>2
<1>6. ClusterTypeOK'
  BY <1>0, <1>4, <1>5 DEF ClusterTypeOK
<1>7. WorldTypeOK'
  <2>1. CASE Edit
    <3>1. cr \in Object
      BY <1>0 DEF WorldTypeOK
    <3>2. /\ \A s \in Specs : [cr EXCEPT !.spec = s] \in Object
          /\ \A p \in {"gone", "deleting"} : [cr EXCEPT !.phase = p] \in Object
      BY <3>1 DEF Object
    <3>3. \/ \E s \in Specs : cr' = [cr EXCEPT !.spec = s]
          \/ \E p \in {"gone", "deleting"} : cr' = [cr EXCEPT !.phase = p]
      BY <2>1 DEF Edit
    <3>4. cr' \in Object
      BY <3>2, <3>3, Zenon
    <3> QED BY <1>0, <2>1, <3>4 DEF Edit, WorldTypeOK
  <2>2. CASE ~Edit
    BY <1>0, <2>2 DEF LoseSecrets, LoseService, CacheSync, Timer, RolloutDone, WorldTypeOK
  <2> QED BY <2>1, <2>2
<1>8. HelmLinked'
  BY <1>0, <1>3, <1>4, <1>5 DEF HelmLinked
<1>9. OneCert'
  <2>1. \A c \in Places' : c \in Places \/ c = None \/ c.cert = 0
    BY <1>4, <1>5 DEF Places
  <2> QED BY <1>0, <1>4, <2>1, FewerPlaces
<1> QED BY <1>1, <1>2, <1>3, <1>6, <1>7, <1>8, <1>9, TypeParts DEF IInv

\* What Helm was doing when the operator died may have come to the cluster.
LEMMA IInvCrash == ASSUME IInv, Crash PROVE IInv'
<1>0. /\ EnvTypeOK /\ WorldTypeOK /\ ClusterTypeOK /\ CopyTypeOK /\ PassTypeOK /\ HistoryTypeOK
      /\ HelmLinked /\ OneCert
  BY TypeParts DEF IInv
<1>1. EnvTypeOK'
  <2>1. edits \in Nat /\ faults \in Nat /\ crashes \in Nat
    BY <1>0 DEF EnvTypeOK
  <2>2. edits' = edits /\ faults' = faults /\ crashes' = crashes + 1
    BY DEF Crash
  <2> QED BY <2>1, <2>2 DEF EnvTypeOK
<1>2. HistoryTypeOK'
  BY <1>0 DEF Crash, HistoryTypeOK
<1>3. CopyTypeOK' /\ PassTypeOK'
  BY <1>0, ErrorTypes DEF Crash, CopyTypeOK, PassTypeOK, Labels
<1>4. WorldTypeOK'
  <2>1. queued' \in BOOLEAN
    BY ZenonT(30) DEF Crash
  <2> QED BY <1>0, <2>1 DEF Crash, WorldTypeOK
<1>5. /\ applied' \in {applied, Released} /\ rolling' \in BOOLEAN
      /\ release = None => applied' = applied
  <2>1. CASE pc \in {"installing", "upgrading", "rollback"}
    <3>1. Released = release.values /\ release # None
      BY <1>0, <2>1 DEF HelmLinked, Released
    <3> QED BY <1>0, <2>1, <3>1 DEF Crash, MaybeApplied, Applied, ClusterTypeOK
  <2>2. CASE pc \notin {"installing", "upgrading", "rollback"}
    BY <1>0, <2>2 DEF Crash, ClusterTypeOK
  <2> QED BY <2>1, <2>2
<1>6. UNCHANGED helmVars /\ unread' = unread /\ Released' = Released /\ config' = None
  BY DEF Crash, Released
<1>7. Released \in Values \cup {None}
  BY <1>0 DEF Released, ClusterTypeOK, Revision
<1>8. ClusterTypeOK'
  BY <1>0, <1>5, <1>6, <1>7 DEF ClusterTypeOK
<1>9. HelmLinked'
  BY <1>0, <1>5, <1>6 DEF Crash, HelmLinked
<1>10. \A c \in Places' : c \in Places \/ c = None
  BY <1>5, <1>6 DEF Places
<1>11. OneCert'
  BY <1>0, <1>6, <1>10, FewerPlaces
<1> QED BY <1>1, <1>2, <1>3, <1>4, <1>8, <1>9, <1>11, TypeParts DEF IInv

\* Steps of the worker that leave Helm and what it installed alone.
Looking == \/ Begin \/ Adopt \/ Unserve \/ Release \/ ApplyService \/ ReadCertificate
           \/ Installed \/ ReadState \/ UpdateStatus \/ Mark \/ Report

LEMMA LookingTypes ==
    ASSUME IInv, Looking
    PROVE  /\ WorldTypeOK' /\ CopyTypeOK' /\ PassTypeOK'
           /\ pc' \notin HelmLabels \/ (pc' = "status" /\ ReadState)
           /\ config' \in {config, None}
<1> USE DEF HelmLabels
<1>0. /\ EnvTypeOK /\ WorldTypeOK /\ ClusterTypeOK /\ CopyTypeOK /\ PassTypeOK /\ HistoryTypeOK
      /\ HelmLinked
  BY TypeParts DEF IInv
<1>1. cr \in Object /\ obj \in Object /\ cache \in Object
  BY <1>0 DEF WorldTypeOK, CopyTypeOK
<1>2. \A p \in {"managed", "gone"} : [cr EXCEPT !.phase = p] \in Object
  BY <1>1 DEF Object
<1>3. CASE Begin
  BY <1>0, <1>3 DEF Begin, WorldTypeOK, CopyTypeOK, PassTypeOK, Labels
<1>4. CASE Adopt
  <2>1. CASE Store([cr EXCEPT !.phase = "managed"])
             /\ obj' = cr' /\ pc' = "helm" /\ UNCHANGED <<queueVars, objFresh, passVars>>
    <3>1. cr' \in Object /\ cache' \in Object /\ synced' \in BOOLEAN
      BY <1>0, <1>2, <2>1, StoreType
    <3> QED BY <1>0, <1>4, <2>1, <3>1 DEF Adopt, WorldTypeOK, CopyTypeOK, PassTypeOK, Labels
  <2>2. CASE Fail("update") /\ UNCHANGED crVars
    BY <1>0, <1>4, <2>2, FailType DEF Adopt, WorldTypeOK, QueueTypeOK
  <2> QED BY <1>4, <2>1, <2>2 DEF Adopt
<1>5. CASE Unserve
  BY <1>0, <1>5 DEF Unserve, WorldTypeOK, CopyTypeOK, PassTypeOK, Labels
<1>6. CASE Release
  <2>1. CASE Store([cr EXCEPT !.phase = "gone"]) /\ Return(FALSE, FALSE)
    <3>1. cr' \in Object /\ cache' \in Object /\ synced' \in BOOLEAN
      BY <1>0, <1>2, <2>1, StoreType
    <3> QED BY <1>0, <1>6, <2>1, <3>1, ReturnType DEF Release, WorldTypeOK, QueueTypeOK, Return
  <2>2. CASE Fail("update") /\ UNCHANGED crVars
    BY <1>0, <1>6, <2>2, FailType DEF Release, WorldTypeOK, QueueTypeOK
  <2> QED BY <1>6, <2>1, <2>2 DEF Release
<1>7. CASE ApplyService
  <2>1. CASE service' = TRUE /\ Step(IF release = None THEN "config" ELSE "read")
    BY <1>0, <1>7, <2>1 DEF ApplyService, WorldTypeOK, CopyTypeOK, PassTypeOK, Labels
  <2>2. CASE Fail("service") /\ service' \in {service, TRUE}
    BY <1>0, <1>7, <2>2, FailType DEF ApplyService, WorldTypeOK, QueueTypeOK
  <2> QED BY <1>7, <2>1, <2>2 DEF ApplyService
<1>8. CASE ReadCertificate
  <2>1. CASE Step(IF pending /\ kind = "orderer" THEN "state" ELSE "config")
    BY <1>0, <1>8, <2>1 DEF ReadCertificate, WorldTypeOK, CopyTypeOK, PassTypeOK, Labels
  <2>2. CASE Fail("read") \/ Fail("live")
    BY <1>0, <1>8, <2>2, FailType DEF ReadCertificate, WorldTypeOK, QueueTypeOK
  <2> QED BY <1>8, <2>1, <2>2 DEF ReadCertificate
<1>9. CASE Installed
  <2>1. CASE /\ Return(FALSE, TRUE)
             /\ Store([cr EXCEPT !.status = IF kind = "orderer" THEN @ ELSE "Pending"])
    <3>1. [cr EXCEPT !.status = IF kind = "orderer" THEN @ ELSE "Pending"] \in Object
      BY <1>1 DEF Object
    <3>2. cr' \in Object /\ cache' \in Object /\ synced' \in BOOLEAN
      BY <1>0, <2>1, <3>1, StoreType
    <3> QED BY <1>0, <1>9, <2>1, <3>2, ReturnType DEF Installed, WorldTypeOK, QueueTypeOK, Return
  <2>2. CASE UNCHANGED crVars /\ Return(TRUE, FALSE)
    BY <1>0, <1>9, <2>2, ReturnType DEF Installed, WorldTypeOK, QueueTypeOK, Return
  <2>3. CASE /\ UNCHANGED crVars /\ pc' = "failed" /\ error' = "conflict"
             /\ obj' = [(IF kind = "peer" THEN cache ELSE obj) EXCEPT !.status = "Pending"]
             /\ objFresh' = (IF kind = "console" THEN objFresh ELSE synced)
             /\ UNCHANGED <<queueVars, pending, config, state>>
    <3>1. obj' \in Object
      BY <1>1, <2>3 DEF Object
    <3>2. "conflict" \in Errors
      BY ErrorTypes
    <3> QED BY <1>0, <1>9, <2>3, <3>1, <3>2
            DEF Installed, WorldTypeOK, CopyTypeOK, PassTypeOK, Labels
  <2> QED BY <1>9, <2>1, <2>2, <2>3 DEF Installed
<1>10. CASE ReadState
  <2>1. CASE /\ Goto("status") /\ UNCHANGED <<pending, config, error>>
             /\ state' \in (IF rolling THEN {"Pending", "Running"} ELSE {"Running"})
    BY <1>0, <1>10, <2>1 DEF ReadState, WorldTypeOK, CopyTypeOK, PassTypeOK, Labels
  <2>2. CASE Fail("state")
    BY <1>0, <1>10, <2>2, FailType DEF ReadState, WorldTypeOK, QueueTypeOK
  <2> QED BY <1>10, <2>1, <2>2 DEF ReadState
<1>11. CASE UpdateStatus
  <2> DEFINE new == [obj EXCEPT !.status = state, !.message = IF kind = "console" THEN @ ELSE "",
                                !.cert = IF kind = "console" THEN 0 ELSE applied.cert]
             again == kind # "console" \/ state # "Running"
  <2>1. kind # "console" => applied.cert \in Numbers \cup {0}
    BY <1>0, <1>11 DEF UpdateStatus, HelmLinked, ClusterTypeOK, Values
  <2>2. new \in Object
    BY <1>0, <1>1, <2>1, ErrorTypes DEF Object, PassTypeOK
  <2>3. again \in BOOLEAN
    OBVIOUS
  <2>4. CASE Return(FALSE, again) /\ (UNCHANGED crVars \/ Store(new))
    <3>1. cr' \in Object /\ cache' \in Object /\ synced' \in BOOLEAN
      BY <1>0, <2>2, <2>4, StoreType DEF WorldTypeOK
    <3>2. CopyTypeOK' /\ PassTypeOK' /\ QueueTypeOK'
      BY <1>0, <2>3, <2>4, ReturnType
    <3> QED BY <1>0, <1>11, <2>4, <3>1, <3>2 DEF UpdateStatus, WorldTypeOK, QueueTypeOK, Return
  <2>5. CASE Fail("conflict") /\ UNCHANGED crVars
    BY <1>0, <1>11, <2>5, FailType DEF UpdateStatus, WorldTypeOK, QueueTypeOK
  <2> QED BY <1>11, <2>4, <2>5 DEF UpdateStatus
<1>12. CASE Mark
  <2>1. error \in Errors /\ "patch" \in Errors /\ "" \in Errors
    BY <1>0, ErrorTypes DEF PassTypeOK
  <2>2. CASE obj' = [obj EXCEPT !.message = error, !.reason = error]
             /\ UNCHANGED <<crVars, objFresh>>
    <3>1. obj' \in Object
      BY <1>1, <2>1, <2>2 DEF Object
    <3> QED BY <1>0, <1>12, <2>2, <3>1 DEF Mark, WorldTypeOK, CopyTypeOK, PassTypeOK, Labels
  <2>3. CASE /\ Store([cr EXCEPT !.status = "Failed"])
             /\ obj' = [cr' EXCEPT !.reason = ""] /\ objFresh' = TRUE
    <3>1. [cr EXCEPT !.status = "Failed"] \in Object
      BY <1>1 DEF Object
    <3>2. cr' \in Object /\ cache' \in Object /\ synced' \in BOOLEAN
      BY <1>0, <2>3, <3>1, StoreType
    <3>3. obj' \in Object
      BY <2>1, <2>3, <3>2 DEF Object
    <3> QED BY <1>0, <1>12, <2>3, <3>2, <3>3
            DEF Mark, WorldTypeOK, CopyTypeOK, PassTypeOK, Labels
  <2>4. CASE obj' = [obj EXCEPT !.status = "Failed", !.message = "patch", !.reason = "patch"]
             /\ UNCHANGED <<crVars, objFresh>>
    <3>1. obj' \in Object
      BY <1>1, <2>1, <2>4 DEF Object
    <3> QED BY <1>0, <1>12, <2>4, <3>1 DEF Mark, WorldTypeOK, CopyTypeOK, PassTypeOK, Labels
  <2> QED BY <1>12, <2>2, <2>3, <2>4 DEF Mark
<1>13. CASE Report
  <2>1. CASE /\ Return(FALSE, kind = "peer")
             /\ Store([cr EXCEPT !.status = obj.status, !.message = obj.message,
                                 !.reason = obj.reason])
    <3>1. [cr EXCEPT !.status = obj.status, !.message = obj.message,
                     !.reason = obj.reason] \in Object
      BY <1>1 DEF Object
    <3>2. cr' \in Object /\ cache' \in Object /\ synced' \in BOOLEAN
      BY <1>0, <2>1, <3>1, StoreType
    <3>3. CopyTypeOK' /\ PassTypeOK' /\ QueueTypeOK'
      <4>1. (kind = "peer") \in BOOLEAN
        OBVIOUS
      <4> QED BY <1>0, <2>1, <4>1, ReturnType
    <3> QED BY <1>0, <1>13, <2>1, <3>2, <3>3 DEF Report, WorldTypeOK, QueueTypeOK, Return
  <2>2. CASE Return(TRUE, FALSE) /\ UNCHANGED crVars
    BY <1>0, <1>13, <2>2, ReturnType DEF Report, WorldTypeOK, QueueTypeOK, Return
  <2> QED BY <1>13, <2>1, <2>2 DEF Report
<1> QED BY <1>3, <1>4, <1>5, <1>6, <1>7, <1>8, <1>9, <1>10, <1>11, <1>12, <1>13 DEF Looking

LEMMA IInvLooking == ASSUME IInv, Looking PROVE IInv'
<1>0. /\ EnvTypeOK /\ WorldTypeOK /\ ClusterTypeOK /\ CopyTypeOK /\ PassTypeOK /\ HistoryTypeOK
      /\ HelmLinked /\ OneCert
  BY TypeParts DEF IInv
<1>1. EnvTypeOK'
  BY <1>0, CountTypes
     DEF Looking, Begin, Adopt, Unserve, Release, ApplyService, ReadCertificate, Installed,
         ReadState, UpdateStatus, Mark, Report, Fresh, Refused
<1>2. UNCHANGED <<helmVars, clusterVars, unread, kind>> /\ Released' = Released
  BY DEF Looking, Begin, Adopt, Unserve, Release, ApplyService, ReadCertificate, Installed,
         ReadState, UpdateStatus, Mark, Report, Released
<1>3. HistoryTypeOK'
  <2>1. CASE Report
    BY <1>0, <2>1 DEF Report, HistoryTypeOK
  <2>2. CASE ~Report
    BY <1>0, <2>2 DEF Looking, Begin, Adopt, Unserve, Release, ApplyService, ReadCertificate,
                      Installed, ReadState, UpdateStatus, Mark, HistoryTypeOK
  <2> QED BY <2>1, <2>2
<1>4. WorldTypeOK' /\ CopyTypeOK' /\ PassTypeOK' /\ config' \in {config, None}
  BY LookingTypes
<1>5. ClusterTypeOK'
  BY <1>0, <1>2 DEF ClusterTypeOK
<1>6. HelmLinked'
  <2>1. CASE pc' \notin HelmLabels
    BY <1>0, <1>2, <2>1 DEF HelmLinked, HelmLabels
  <2>2. CASE pc' = "status" /\ ReadState
    <3>1. kind # "console" => applied # None
      BY <2>2 DEF ReadState, Certified, Fail, Return
    <3> QED BY <1>0, <1>2, <2>2, <3>1 DEF HelmLinked
  <2> QED BY <2>1, <2>2, LookingTypes
<1>7. OneCert'
  <2>1. \A c \in Places' : c \in Places \/ c = None
    BY <1>2, <1>4 DEF Places
  <2> QED BY <1>0, <1>2, <2>1, FewerPlaces
<1> QED BY <1>1, <1>3, <1>4, <1>5, <1>6, <1>7, TypeParts DEF IInv

\* Steps that start or finish something in Helm.
Helming == \/ CheckRelease \/ Rollback \/ StartInstall \/ FinishInstall \/ StartUpgrade
           \/ FinishUpgrade

LEMMA HelmingTypes ==
    ASSUME IInv, Helming
    PROVE  CopyTypeOK' /\ PassTypeOK' /\ QueueTypeOK' /\ config' \in {config, None}
<1>0. WorldTypeOK /\ CopyTypeOK /\ PassTypeOK
  BY TypeParts DEF IInv
<1>1. ASSUME NEW l \in Labels, Step(l)
      PROVE  CopyTypeOK' /\ PassTypeOK' /\ QueueTypeOK' /\ config' \in {config, None}
  BY <1>0, <1>1, StepType
<1>2. ASSUME NEW e, Fail(e)
      PROVE  CopyTypeOK' /\ PassTypeOK' /\ QueueTypeOK' /\ config' \in {config, None}
  BY <1>0, <1>2, FailType
<1>3. Continue(TRUE) \in Labels /\ Continue(release # None) \in Labels
  BY ContinueLabel DEF Labels
<1>4. CASE CheckRelease
  <2>1. CASE Goto("rollback") /\ pending' = TRUE /\ UNCHANGED <<config, state, error>>
    BY <1>0, <2>1 DEF WorldTypeOK, CopyTypeOK, PassTypeOK, QueueTypeOK, Labels
  <2>2. CASE Step("rollback")
    BY <1>1, <2>2 DEF Labels
  <2>3. CASE Step(Continue(release # None)) \/ Fail("helm")
    BY <1>1, <1>2, <1>3, <2>3
  <2> QED BY <1>4, <2>1, <2>2, <2>3 DEF CheckRelease
<1>5. CASE Rollback
  BY <1>1, <1>2, <1>3, <1>5 DEF Rollback
<1>6. CASE StartInstall
  <2>1. CASE Return(FALSE, TRUE)
    BY <1>0, <2>1, ReturnType DEF Return
  <2>2. CASE Step("installing")
    BY <1>1, <2>2 DEF Labels
  <2> QED BY <1>6, <2>1, <2>2 DEF StartInstall
<1>7. CASE FinishInstall \/ FinishUpgrade
  BY <1>1, <1>2, <1>7 DEF FinishInstall, FinishUpgrade, Labels
<1>8. CASE StartUpgrade
  BY <1>1, <1>2, <1>8 DEF StartUpgrade, Labels
<1> QED BY <1>4, <1>5, <1>6, <1>7, <1>8 DEF Helming

\* What Helm starts or finishes moves certificates from one place to another.
LEMMA HelmingPlaces ==
    ASSUME IInv, Helming
    PROVE  /\ ClusterTypeOK' /\ HelmLinked'
           /\ {applied', before', deployed', Released', config'} \subseteq Places \cup {None}
<1>0. /\ WorldTypeOK /\ ClusterTypeOK /\ CopyTypeOK /\ PassTypeOK /\ HelmLinked
  BY TypeParts DEF IInv
<1>3. config' \in {config, None}
  BY HelmingTypes
<1>4. UNCHANGED <<kind, crVars, service>>
  BY DEF Helming, CheckRelease, Rollback, StartInstall, FinishInstall, StartUpgrade,
         FinishUpgrade
<1>6. Released \in Values \cup {None}
  BY <1>0 DEF Released, ClusterTypeOK, Revision
<1>7. /\ ClusterTypeOK' /\ HelmLinked'
      /\ {applied', before', deployed', Released'} \subseteq Places \cup {None}
  <2>1. CASE /\ UNCHANGED helmVars /\ UNCHANGED clusterVars /\ pc' \notin HelmLabels
    BY <1>0, <1>4, <2>1 DEF ClusterTypeOK, HelmLinked, HelmLabels, Places, Released
  <2>2. ASSUME NEW s \in {"pending-install", "pending-upgrade", "pending-rollback"},
               NEW c \in Places, c # None, Revise(s, c), UNCHANGED clusterVars,
               s = "pending-upgrade" => release # None,
               pc' \in {"installing", "upgrading", "rollback"}
        PROVE  /\ ClusterTypeOK' /\ HelmLinked'
               /\ {applied', before', deployed', Released'} \subseteq Places \cup {None}
    <3>1. c \in Values
      BY <1>0, <1>6, <2>2 DEF Places, ClusterTypeOK, PassTypeOK
    <3>2. /\ ClusterTypeOK' /\ release' # None /\ before' = Released
          /\ release'.status = s /\ Released' = c
      BY <1>0, <2>2, <3>1, ReviseType
    <3>3. release # None => Released # None
      BY <1>0, NoneTypes DEF Released, ClusterTypeOK, Revision
    <3>4. HelmLinked'
      BY <2>2, <3>2, <3>3 DEF HelmLinked
    <3> QED BY <2>2, <3>2, <3>4 DEF Places, Revise
  <2>3. ASSUME NEW s \in {"deployed", "failed"}, release # None, Finished(s),
               MaybeApplied(release.values), pc' \notin HelmLabels
        PROVE  /\ ClusterTypeOK' /\ HelmLinked'
               /\ {applied', before', deployed', Released'} \subseteq Places \cup {None}
    <3>1. /\ ClusterTypeOK' /\ release' # None /\ release'.status = s
          /\ Released' = Released /\ before' = before
          /\ deployed' \in {deployed, Released} /\ applied' \in {applied, Released}
      BY <1>0, <2>3, FinishedType
    <3> QED BY <2>3, <3>1 DEF HelmLinked, HelmLabels, Places
  <2>4. Continue(TRUE) \notin HelmLabels /\ Continue(release # None) \notin HelmLabels
    BY ContinueLabel DEF HelmLabels
  <2>5. \A e : Fail(e) => pc' \notin HelmLabels
    BY <1>0, FailType DEF HelmLabels
  <2>6. CASE CheckRelease
    <3>1. CASE release # None /\ release.status = "pending-upgrade"
               /\ Revise("pending-rollback", before) /\ pc' = "rollback"
      BY <1>0, <2>2, <2>6, <3>1 DEF CheckRelease, HelmLinked, Places
    <3>2. CASE deployed # None /\ Revise("pending-rollback", deployed) /\ pc' = "rollback"
      BY <2>2, <2>6, <3>2 DEF CheckRelease, Places
    <3>3. CASE UNCHANGED helmVars /\ (Step(Continue(release # None)) \/ Fail("helm"))
      BY <2>1, <2>4, <2>5, <2>6, <3>3 DEF CheckRelease
    <3> QED BY <2>6, <3>1, <3>2, <3>3 DEF CheckRelease
  <2>7. CASE Rollback
    <3>1. release # None
      BY <1>0, <2>7 DEF Rollback, HelmLinked
    <3>2. PICK s \in {"deployed", "failed"} : Finished(s)
      BY <2>7 DEF Rollback
    <3>3. MaybeApplied(release.values)
      BY <2>7 DEF Rollback, MaybeApplied
    <3>4. pc' \notin HelmLabels
      BY <2>4, <2>5, <2>7 DEF Rollback
    <3> QED BY <2>3, <3>1, <3>2, <3>3, <3>4
  <2>8. CASE StartInstall
    <3>1. CASE UNCHANGED helmVars /\ Return(FALSE, TRUE)
      BY <2>1, <2>8, <3>1 DEF StartInstall, Return, HelmLabels
    <3>2. CASE Revise("pending-install", config) /\ Step("installing")
      BY <1>0, <2>2, <2>8, <3>2 DEF StartInstall, HelmLinked, Places
    <3> QED BY <2>8, <3>1, <3>2 DEF StartInstall
  <2>9. CASE FinishInstall \/ FinishUpgrade
    <3>1. release # None
      BY <1>0, <2>9 DEF FinishInstall, FinishUpgrade, HelmLinked
    <3>2. PICK s \in {"deployed", "failed"} : Finished(s)
      BY <2>9 DEF FinishInstall, FinishUpgrade
    <3>3. MaybeApplied(release.values)
      BY <2>9 DEF FinishInstall, FinishUpgrade, MaybeApplied
    <3>4. pc' \notin HelmLabels
      BY <2>5, <2>9 DEF FinishInstall, FinishUpgrade, HelmLabels
    <3> QED BY <2>3, <3>1, <3>2, <3>3, <3>4
  <2>10. CASE StartUpgrade
    <3>1. CASE Revise("pending-upgrade", config) /\ Step("upgrading")
      BY <1>0, <2>2, <2>10, <3>1 DEF StartUpgrade, HelmLinked, Places
    <3>2. CASE UNCHANGED helmVars /\ (Step("state") \/ Fail("busy"))
      BY <2>1, <2>5, <2>10, <3>2 DEF StartUpgrade, HelmLabels
    <3> QED BY <2>10, <3>1, <3>2 DEF StartUpgrade
  <2> QED BY <2>6, <2>7, <2>8, <2>9, <2>10 DEF Helming
<1> QED BY <1>3, <1>7 DEF Places

LEMMA IInvHelming == ASSUME IInv, Helming PROVE IInv'
<1>0. /\ EnvTypeOK /\ WorldTypeOK /\ ClusterTypeOK /\ CopyTypeOK /\ PassTypeOK /\ HistoryTypeOK
      /\ HelmLinked /\ OneCert
  BY TypeParts DEF IInv
<1>1. EnvTypeOK'
  BY <1>0, CountTypes DEF Helming, CheckRelease, Rollback, StartInstall, FinishInstall,
                          StartUpgrade, FinishUpgrade
<1>2. HistoryTypeOK' /\ unread' = unread
  BY <1>0 DEF Helming, CheckRelease, Rollback, StartInstall, FinishInstall, StartUpgrade,
              FinishUpgrade, HistoryTypeOK
<1>3. CopyTypeOK' /\ PassTypeOK' /\ QueueTypeOK' /\ config' \in {config, None}
  BY HelmingTypes
<1>4. UNCHANGED <<kind, crVars, service>>
  BY DEF Helming, CheckRelease, Rollback, StartInstall, FinishInstall, StartUpgrade,
         FinishUpgrade
<1>5. WorldTypeOK'
  BY <1>0, <1>3, <1>4 DEF WorldTypeOK, QueueTypeOK
<1>7. /\ ClusterTypeOK' /\ HelmLinked'
      /\ \A c \in Places' : c \in Places \/ c = None
  BY HelmingPlaces DEF Places
<1>8. OneCert'
  BY <1>0, <1>2, <1>7, FewerPlaces
<1> QED BY <1>1, <1>2, <1>3, <1>5, <1>7, <1>8, TypeParts DEF IInv

\* The release is taken away, and with it every certificate.
LEMMA IInvUninstall == ASSUME IInv, Uninstall PROVE IInv'
<1>0. /\ EnvTypeOK /\ WorldTypeOK /\ ClusterTypeOK /\ CopyTypeOK /\ PassTypeOK /\ HistoryTypeOK
      /\ HelmLinked /\ OneCert
  BY TypeParts DEF IInv
<1>1. EnvTypeOK'
  BY <1>0, CountTypes DEF Uninstall
<1>2. /\ WorldTypeOK' /\ CopyTypeOK' /\ PassTypeOK' /\ HistoryTypeOK'
      /\ UNCHANGED <<config, unread, kind>> /\ pc' = "release"
  <2>1. leftover' \in BOOLEAN
    BY <1>0 DEF Uninstall, HistoryTypeOK
  <2> QED BY <1>0, <2>1
          DEF Uninstall, WorldTypeOK, CopyTypeOK, PassTypeOK, HistoryTypeOK, Labels
<1>3. \/ /\ release' = None /\ before' = None /\ deployed' = None
         /\ applied' = None /\ rolling' = FALSE
      \/ UNCHANGED <<helmVars, clusterVars>>
  BY DEF Uninstall
<1>4. ClusterTypeOK'
  BY <1>0, <1>3 DEF ClusterTypeOK
<1>5. HelmLinked'
  BY <1>0, <1>2, <1>3 DEF HelmLinked
<1>6. \A c \in Places' : c \in Places \/ c = None
  BY <1>2, <1>3 DEF Places, Released
<1>7. OneCert'
  BY <1>0, <1>2, <1>6, FewerPlaces
<1> QED BY <1>1, <1>2, <1>4, <1>5, <1>7, TypeParts DEF IInv

\* The certificate is read and used again, or it is noted that it was not.
LEMMA IInvGetConfig == ASSUME IInv, GetConfig PROVE IInv'
<1>0. /\ EnvTypeOK /\ WorldTypeOK /\ ClusterTypeOK /\ CopyTypeOK /\ PassTypeOK /\ HistoryTypeOK
      /\ HelmLinked /\ OneCert
  BY TypeParts DEF IInv
<1>1. EnvTypeOK'
  BY <1>0, CountTypes DEF GetConfig
<1>2. /\ UNCHANGED <<helmVars, clusterVars, kind, crVars, service>> /\ Released' = Released
      /\ UNCHANGED <<skipped, leftover, repeated>>
  BY DEF GetConfig, Released
<1>3. ClusterTypeOK'
  BY <1>0, <1>2 DEF ClusterTypeOK
<1>4. unread' \in BOOLEAN /\ (unread => unread')
  BY <1>0 DEF GetConfig, HistoryTypeOK
<1>5. CASE Fail("enroll") /\ unread' = unread
  <2>1. /\ CopyTypeOK' /\ PassTypeOK' /\ QueueTypeOK'
        /\ pc' \in {"idle", "failed"} /\ config' \in {config, None}
    BY <1>0, <1>5, FailType
  <2>2. HelmLinked'
    BY <1>0, <1>2, <2>1 DEF HelmLinked
  <2>3. \A c \in Places' : c \in Places \/ c = None
    BY <1>2, <2>1 DEF Places
  <2>4. OneCert'
    BY <1>0, <1>5, <2>3, FewerPlaces
  <2>5. WorldTypeOK' /\ HistoryTypeOK'
    BY <1>0, <1>2, <1>4, <2>1 DEF WorldTypeOK, HistoryTypeOK, QueueTypeOK
  <2> QED BY <1>1, <1>3, <2>1, <2>2, <2>4, <2>5, TypeParts DEF IInv
<1>6. ASSUME AfterConfig, NEW n \in Numbers \cup {0}, Configure(n),
             ~unread' => \/ n = 0
                         \/ applied # None /\ n = applied.cert
                         \/ release = None
      PROVE  IInv'
  <2>1. config' = [spec |-> obj.spec, cert |-> n] /\ config' \in Values
    BY <1>0, <1>6 DEF Configure, CopyTypeOK, Object, Values
  <2>2. WorldTypeOK' /\ CopyTypeOK' /\ PassTypeOK' /\ HistoryTypeOK'
    BY <1>0, <1>2, <1>4, <1>6, <2>1
       DEF AfterConfig, Configure, WorldTypeOK, CopyTypeOK, PassTypeOK, HistoryTypeOK, Labels
  <2>3. HelmLinked'
    BY <1>0, <1>2, <1>6, <2>1, NoneTypes DEF AfterConfig, HelmLinked
  <2>4. OneCert'
    <3> SUFFICES ASSUME ~unread' PROVE \A c, d \in Places' : SameCert(c, d)
      BY DEF OneCert
    <3>1. \A c, d \in Places : SameCert(c, d)
      BY <1>0, <1>4 DEF OneCert
    <3>2. \A c \in Places' : c \in Places \/ c = config'
      BY <1>2 DEF Places
    <3>3. config'.cert = n
      BY <2>1
    <3>4. \A c \in Places' : SameCert(c, config') /\ SameCert(config', c)
      <4>1. CASE n = 0
        BY <3>3, <4>1 DEF SameCert
      <4>2. CASE applied # None /\ n = applied.cert
        BY <3>1, <3>2, <3>3, <4>2 DEF SameCert, Places
      <4>3. CASE release = None
        <5>1. \A c \in Places' : c = None \/ c = config'
          BY <1>0, <1>2, <4>3 DEF HelmLinked, Places, Released
        <5> QED BY <5>1 DEF SameCert
      <4> QED BY <1>6, <4>1, <4>2, <4>3
    <3> QED BY <3>1, <3>2, <3>4
  <2> QED BY <1>1, <1>3, <2>2, <2>3, <2>4, TypeParts DEF IInv
<1>7. CASE kind = "console" /\ AfterConfig /\ Configure(0)
  BY <1>6, <1>7
<1>8. CASE Certified /\ AfterConfig /\ Configure(applied.cert)
  <2>1. applied # None /\ applied.cert \in Numbers \cup {0}
    BY <1>0, <1>8 DEF Certified, ClusterTypeOK, Values
  <2> QED BY <1>6, <1>8, <2>1
<1>9. CASE /\ unread' = TRUE \/ unread' = (unread \/ release # None)
           /\ AfterConfig /\ \E n \in NewNumber : Configure(n)
  <2>1. PICK n \in NewNumber : Configure(n)
    BY <1>9
  <2>2. n \in Numbers \cup {0}
    BY DEF NewNumber, Unused
  <2>3. ~unread' => release = None
    BY <1>9
  <2> QED BY <1>6, <1>9, <2>1, <2>2, <2>3
<1> QED BY <1>5, <1>7, <1>8, <1>9 DEF GetConfig

\* Every step keeps the invariant.
THEOREM IInvStep == IInv /\ [Next]_vars => IInv'
<1> SUFFICES ASSUME IInv, [Next]_vars PROVE IInv' OBVIOUS
<1>1. CASE UNCHANGED vars
  <2>1. Released' = Released
    BY <1>1 DEF Released
  <2> QED BY <1>1, <2>1 DEF IInv, TypeOK, HelmLinked, OneCert, Places
<1>2. CASE Next
  BY <1>2, IInvAround, IInvCrash, IInvLooking, IInvHelming, IInvUninstall, IInvGetConfig
     DEF Next, Reconcile, Around, Looking, Helming
<1> QED BY <1>1, <1>2

-----------------------------------------------------------------------------
(* What follows.                                                              *)

\* Every variable of the node and console controllers keeps to its type.
THEOREM TypeCorrect == Spec => []TypeOK
<1>1. IInv => TypeOK
  BY DEF IInv
<1> QED BY <1>1, IInvInit, IInvStep, PTL DEF Spec

\* What a step puts into the cluster has the certificate that is there.
LEMMA CertStep ==
    ASSUME IInv, [Next]_vars, applied # None, applied' # None, ~unread,
           0 \notin {applied.cert, applied'.cert}
    PROVE  applied'.cert = applied.cert
<1>0. applied \in Values /\ HelmLinked
  BY TypeParts DEF IInv, ClusterTypeOK
<1>1. applied' \in {applied, Released}
  <2>1. CASE Crash \/ Rollback \/ FinishInstall \/ FinishUpgrade
    <3>1. CASE MaybeApplied(release.values) /\ release # None
      BY <3>1 DEF MaybeApplied, Applied, Released
    <3>2. CASE UNCHANGED clusterVars
      BY <3>2
    <3>3. pc \in {"installing", "upgrading", "rollback"} => release # None
      BY <1>0 DEF HelmLinked
    <3> QED BY <2>1, <3>1, <3>2, <3>3
            DEF Crash, Rollback, FinishInstall, FinishUpgrade, MaybeApplied
  <2>2. CASE Uninstall
    BY <2>2 DEF Uninstall
  <2>3. CASE LoseSecrets
    <3>1. applied'.cert = 0
      BY <1>0, <2>3 DEF LoseSecrets, Values
    <3> QED BY <3>1
  <2>4. CASE Edit \/ LoseService \/ CacheSync \/ Timer \/ RolloutDone \/ UNCHANGED vars
    BY <2>4 DEF Edit, LoseService, CacheSync, Timer, RolloutDone
  <2>5. CASE Looking
    BY <2>5 DEF Looking, Begin, Adopt, Unserve, Release, ApplyService, ReadCertificate,
                Installed, ReadState, UpdateStatus, Mark, Report
  <2>6. CASE CheckRelease \/ GetConfig \/ StartInstall \/ StartUpgrade
    BY <2>6 DEF CheckRelease, GetConfig, StartInstall, StartUpgrade
  <2> QED BY <2>1, <2>2, <2>3, <2>4, <2>5, <2>6 DEF Next, Reconcile, Looking
<1>2. SameCert(Released, applied)
  BY DEF IInv, OneCert, Places
<1> QED BY <1>1, <1>2 DEF SameCert

\* A node keeps its certificate through every upgrade, rollback, failure and restart of
\* the operator, as long as every pass could read it.
THEOREM CertKept == Spec => CertificateKept
<1>1. IInv /\ [Next]_vars
        => [applied # None /\ applied' # None /\ ~unread /\ 0 \notin {applied.cert, applied'.cert}
              => applied'.cert = applied.cert]_vars
  BY CertStep
<1> QED BY <1>1, IInvInit, IInvStep, PTL DEF Spec, CertificateKept

-----------------------------------------------------------------------------
(* Nothing is left behind.  What makes it inductive: how far the resource,    *)
(* the cache and the worker are on the way from new to gone.  The worker      *)
(* installs only while the resource is managed or being deleted, and removes  *)
(* the finalizer only after it has removed the rest.                          *)

Removing == {"unserve", "uninstall", "release"}
Reporting == {"failed", "report"}
Working == Labels \ ({"idle", "adopt"} \cup Removing \cup Reporting)

PhaseLinked ==
    /\ synced => cache = cr
    /\ objFresh => pc # "idle" /\ obj.phase = cr.phase
    /\ cache.phase = "managed" => cr.phase \in {"managed", "deleting"}
    /\ cache.phase = "deleting" => cr.phase \in {"deleting", "gone"}
    /\ cache.phase = "gone" => cr.phase = "gone"
    /\ pc = "adopt" => obj.phase = "new"
    /\ pc \in Removing => {cr.phase, cache.phase} \subseteq {"deleting", "gone"}
    /\ pc \in Working => cr.phase \in {"managed", "deleting"}

Gone == release = None /\ applied = None
Left ==
    /\ cr.phase = "new" => Gone /\ ~service
    /\ kind # "peer" => ~service /\ pc # "service"
    /\ pc = "uninstall" => ~service \/ leftover
    /\ pc = "release" => (Gone /\ ~service) \/ leftover
    /\ NothingLeftBehind

\* The phase of a changed copy.
LEMMA PhaseOf ==
    ASSUME NEW o \in Object
    PROVE  /\ \A x : [o EXCEPT !.spec = x].phase = o.phase
           /\ \A x : [o EXCEPT !.status = x].phase = o.phase
           /\ \A x : [o EXCEPT !.phase = x].phase = x
BY DEF Object

\* A new resource has nothing in the cluster yet.
THEOREM LeftInit == Init => PhaseLinked /\ Left
<1> SUFFICES ASSUME Init PROVE PhaseLinked /\ Left OBVIOUS
<1>1. cr.phase = "new" /\ cache = cr
  <2>1. PICK s \in Specs : cr = Blank(s)
    BY DEF Init
  <2>2. Blank(s).phase = "new"
    BY DEF Blank
  <2> QED BY <2>1, <2>2 DEF Init
<1>2. PhaseLinked
  BY <1>1 DEF Init, PhaseLinked, Removing, Working
<1> QED BY <1>1, <1>2 DEF Init, Left, Gone, NothingLeftBehind

\* A step of the worker after which the resource is in the phase it was in before.
LEMMA PhaseKept ==
    ASSUME PhaseLinked, cr'.phase = cr.phase, cache' = cache, synced' => synced /\ cr' = cr,
           objFresh' => pc' # "idle" /\ obj'.phase = cr.phase,
           pc' = "adopt" => pc = "adopt" /\ obj' = obj,
           pc' \in Removing => pc \in Removing, pc' \in Working => pc \in Working
    PROVE  PhaseLinked'
BY DEF PhaseLinked

LEMMA LeftKept ==
    ASSUME Left, UNCHANGED <<kind, release, applied, service, leftover>>, cr'.phase = cr.phase,
           pc' \notin Removing \cup {"service"}
    PROVE  Left'
BY DEF Left, Gone, NothingLeftBehind, Removing

\* While the worker installs, the resource is neither new nor gone.
LEMMA LeftWorking ==
    ASSUME PhaseLinked, Left, pc \in Working, cr'.phase = cr.phase, kind' = kind,
           pc' \notin Removing, pc' = "service" => kind = "peer",
           kind # "peer" => service' = service
    PROVE  Left'
BY DEF PhaseLinked, Left, NothingLeftBehind, Removing

LEMMA StorePhase ==
    ASSUME PhaseLinked, NEW o, Store(o)
    PROVE  cr' = o /\ cache' = cache /\ (synced' => synced /\ cr' = cr)
BY DEF Store

LEMMA FailPhase ==
    ASSUME PhaseLinked, WorldTypeOK, NEW e, Fail(e)
    PROVE  /\ pc' \in {"idle", "failed"} /\ obj' = obj
           /\ objFresh' => objFresh /\ pc' # "idle"
BY DEF Fail, Return

LEMMA LeftAround == ASSUME TypeOK, PhaseLinked, Left, Around PROVE PhaseLinked' /\ Left'
<1>0. cr \in Object
  BY TypeParts DEF WorldTypeOK
<1>1. CASE Edit
  <2>1. \/ cr'.phase = cr.phase /\ cr.phase # "gone"
        \/ cr.phase = "new" /\ cr'.phase = "gone"
        \/ cr.phase = "managed" /\ cr'.phase = "deleting"
    <3>1. CASE cr.phase # "gone" /\ \E s \in Specs \ {cr.spec} : cr' = [cr EXCEPT !.spec = s]
      <4>1. PICK s : cr' = [cr EXCEPT !.spec = s]
        BY <3>1
      <4>2. cr'.phase = cr.phase
        BY <1>0, <4>1, PhaseOf
      <4> QED BY <3>1, <4>2
    <3>2. CASE cr.phase = "new" /\ cr' = [cr EXCEPT !.phase = "gone"]
      <4>1. cr'.phase = "gone"
        BY <1>0, <3>2, PhaseOf
      <4> QED BY <3>2, <4>1
    <3>3. CASE cr.phase = "managed" /\ cr' = [cr EXCEPT !.phase = "deleting"]
      BY <1>0, <3>3, PhaseOf
    <3> QED BY <1>1, <3>1, <3>2, <3>3 DEF Edit
  <2>2. PhaseLinked'
    BY <1>1, <2>1 DEF Edit, PhaseLinked
  <2>3. UNCHANGED <<kind, release, applied, service, leftover, pc>>
    BY <1>1 DEF Edit
  <2>4. Left'
    BY <2>1, <2>3 DEF Left, Gone, NothingLeftBehind
  <2> QED BY <2>2, <2>4
<1>2. CASE LoseSecrets
  <2>1. PhaseLinked'
    BY <1>2 DEF LoseSecrets, PhaseLinked
  <2>2. Left'
    BY <1>2 DEF LoseSecrets, Left, Gone, NothingLeftBehind
  <2> QED BY <2>1, <2>2
<1>3. CASE LoseService
  <2>1. PhaseLinked'
    BY <1>3 DEF LoseService, PhaseLinked
  <2>2. Left'
    BY <1>3 DEF LoseService, Left, Gone, NothingLeftBehind
  <2> QED BY <2>1, <2>2
<1>4. CASE CacheSync
  <2>1. PhaseLinked'
    BY <1>4 DEF CacheSync, PhaseLinked
  <2>2. Left'
    BY <1>4 DEF CacheSync, Left, Gone, NothingLeftBehind
  <2> QED BY <2>1, <2>2
<1>5. CASE Timer \/ RolloutDone
  <2>1. PhaseLinked'
    BY <1>5 DEF Timer, RolloutDone, PhaseLinked
  <2>2. Left'
    BY <1>5 DEF Timer, RolloutDone, Left, Gone, NothingLeftBehind
  <2> QED BY <2>1, <2>2
<1> QED BY <1>1, <1>2, <1>3, <1>4, <1>5 DEF Around

LEMMA LeftCrash == ASSUME IInv, PhaseLinked, Left, Crash PROVE PhaseLinked' /\ Left'
<1>1. PhaseLinked'
  BY DEF Crash, PhaseLinked, Removing, Working
<1>2. /\ UNCHANGED <<kind, cr, release, service, leftover>> /\ pc' = "idle"
      /\ release = None => applied' = applied
  BY DEF Crash, IInv, HelmLinked, MaybeApplied, Applied
<1>3. Left'
  BY <1>2 DEF Left, Gone, NothingLeftBehind
<1> QED BY <1>1, <1>3

\* The steps to the finalizer and from it.
LEMMA LeftFinalizer ==
    ASSUME IInv, PhaseLinked, Left, Begin \/ Adopt \/ Unserve \/ Uninstall \/ Release
    PROVE  PhaseLinked' /\ Left'
<1>0. WorldTypeOK /\ cr \in Object
  BY TypeParts DEF IInv, WorldTypeOK
<1> USE DEF Removing, Working, Reporting
<1>1. CASE Begin
  <2>1. PhaseLinked'
    <3>1. CASE cache.phase = "gone"
      BY <1>1, <3>1 DEF Begin, PhaseLinked
    <3>2. CASE cache.phase # "gone"
      <4>1. /\ obj' = cache /\ objFresh' = synced /\ UNCHANGED crVars
            /\ cache.phase = "new" => pc' = "adopt"
            /\ cache.phase = "deleting" => pc' \in {"unserve", "uninstall"}
            /\ cache.phase \notin {"new", "deleting"} => pc' = "helm"
        BY <1>1, <3>2 DEF Begin
      <4>2. cache.phase \in {"new", "managed", "deleting"}
        BY <1>0, <3>2 DEF WorldTypeOK, Object
      <4> QED BY <4>1, <4>2 DEF PhaseLinked
    <3> QED BY <3>1, <3>2
  <2>2. /\ UNCHANGED <<kind, cr, release, applied, service, leftover>>
        /\ pc' \notin {"service", "release"} /\ (pc' = "uninstall" => kind # "peer" \/ pc' = pc)
    BY <1>1 DEF Begin
  <2>3. Left'
    BY <2>2 DEF Left, Gone, NothingLeftBehind
  <2> QED BY <2>1, <2>3
<1>2. CASE Adopt
  <2>1. CASE Fresh /\ Store([cr EXCEPT !.phase = "managed"])
             /\ obj' = cr' /\ pc' = "helm" /\ UNCHANGED <<queueVars, objFresh, passVars>>
    <3>1. cr.phase = "new" /\ cr'.phase = "managed"
      <4>1. [cr EXCEPT !.phase = "managed"].phase = "managed"
        BY <1>0 DEF Object
      <4> QED BY <1>2, <2>1, <4>1 DEF Store, Adopt, Fresh, PhaseLinked
    <3>2. PhaseLinked'
      BY <2>1, <3>1, StorePhase DEF PhaseLinked
    <3>3. UNCHANGED <<kind, release, applied, service, leftover>>
      BY <1>2 DEF Adopt
    <3>4. Left'
      BY <2>1, <3>1, <3>3 DEF Left, Gone, NothingLeftBehind
    <3> QED BY <3>2, <3>4
  <2>2. CASE Fail("update") /\ UNCHANGED crVars
    <3>1. PhaseLinked'
      BY <1>0, <2>2, FailPhase, PhaseKept DEF PhaseLinked
    <3>2. Left'
      BY <1>0, <1>2, <2>2, FailPhase, LeftKept DEF Adopt
    <3> QED BY <3>1, <3>2
  <2> QED BY <1>2, <2>1, <2>2 DEF Adopt
<1>3. CASE Unserve
  <2>1. PhaseLinked'
    BY <1>3, PhaseKept DEF Unserve, PhaseLinked
  <2>2. /\ UNCHANGED <<kind, cr, release, applied>> /\ pc' = "uninstall"
        /\ \/ ~service' /\ leftover' = leftover
           \/ leftover' /\ service' = service
    BY <1>3 DEF Unserve
  <2>3. Left'
    BY <2>2 DEF Left, Gone, NothingLeftBehind
  <2> QED BY <2>1, <2>3
<1>4. CASE Uninstall
  <2>1. PhaseLinked'
    BY <1>4, PhaseKept DEF Uninstall, PhaseLinked
  <2>2. /\ UNCHANGED <<kind, cr, service>> /\ pc = "uninstall" /\ pc' = "release"
        /\ \/ release' = None /\ applied' = None /\ leftover' = leftover
           \/ leftover' /\ UNCHANGED <<release, applied>>
    BY <1>4 DEF Uninstall
  <2>3. Left'
    BY <2>2 DEF Left, Gone, NothingLeftBehind
  <2> QED BY <2>1, <2>3
<1>5. CASE Release
  <2>1. UNCHANGED <<kind, release, applied, service, leftover>> /\ pc = "release"
    BY <1>5 DEF Release
  <2>2. CASE Store([cr EXCEPT !.phase = "gone"]) /\ Return(FALSE, FALSE)
    <3>1. cr'.phase = "gone" /\ pc' = "idle" /\ objFresh' = FALSE
      <4>1. [cr EXCEPT !.phase = "gone"].phase = "gone"
        BY <1>0 DEF Object
      <4> QED BY <2>2, <4>1 DEF Store, Return
    <3>2. PhaseLinked'
      BY <2>1, <2>2, <3>1, StorePhase DEF PhaseLinked
    <3>3. Left'
      BY <2>1, <3>1 DEF Left, Gone, NothingLeftBehind
    <3> QED BY <3>2, <3>3
  <2>3. CASE Fail("update") /\ UNCHANGED crVars
    <3>1. PhaseLinked'
      BY <1>0, <2>3, FailPhase, PhaseKept DEF PhaseLinked
    <3>2. Left'
      BY <1>0, <2>1, <2>3, FailPhase, LeftKept
    <3> QED BY <3>1, <3>2
  <2> QED BY <1>5, <2>2, <2>3 DEF Release
<1> QED BY <1>1, <1>2, <1>3, <1>4, <1>5

\* The steps in between, which install, upgrade and look.
LEMMA LeftWork ==
    ASSUME IInv, PhaseLinked, Left,
           \/ ApplyService \/ ReadCertificate \/ GetConfig \/ Helming \/ ReadState
    PROVE  PhaseLinked' /\ Left'
<1>0. WorldTypeOK /\ pc \in Labels
  BY TypeParts DEF IInv, CopyTypeOK
<1>1. /\ pc \in Working /\ UNCHANGED <<crVars, kind>>
  BY DEF ApplyService, ReadCertificate, GetConfig, Helming, ReadState, CheckRelease, Rollback,
         StartInstall, FinishInstall, StartUpgrade, FinishUpgrade,
         Working, Labels, Removing, Reporting
<1>2. kind # "peer" => service' = service
  BY DEF ApplyService, ReadCertificate, GetConfig, Helming, ReadState, CheckRelease, Rollback,
         StartInstall, FinishInstall, StartUpgrade, FinishUpgrade, Left
<1>3. /\ \A b : Continue(b) \notin {"idle", "adopt"} \cup Removing
      /\ \A b : Continue(b) = "service" => kind = "peer"
  BY DEF Continue, Removing
<1>4. /\ pc' \notin {"adopt"} \cup Removing /\ (pc' = "service" => kind = "peer")
      /\ objFresh' => pc' # "idle" /\ objFresh /\ obj' = obj
  <2>1. CASE \E e : Fail(e)
    BY <1>0, <2>1, FailPhase DEF Removing
  <2>2. CASE \E r, d : Return(r, d)
    BY <2>2 DEF Return, Removing
  <2>3. CASE \E b : Goto(Continue(b))
    BY <1>3, <2>3
  <2>4. CASE \E l \in {"rollback", "read", "config", "state", "install", "installing",
                       "installed", "upgrade", "upgrading", "status"} : Goto(l)
    BY <2>4 DEF Removing
  <2>5. \/ \E e : Fail(e)
        \/ \E r, d : Return(r, d)
        \/ \E b : Goto(Continue(b))
        \/ \E l \in {"rollback", "read", "config", "state", "install", "installing",
                      "installed", "upgrade", "upgrading", "status"} : Goto(l)
    <3>1. CASE ApplyService \/ ReadCertificate
      BY <3>1 DEF ApplyService, ReadCertificate
    <3>2. CASE GetConfig \/ ReadState
      BY <3>2 DEF GetConfig, AfterConfig, ReadState
    <3>3. CASE CheckRelease
      BY <3>3 DEF CheckRelease
    <3>4. CASE Rollback
      BY <3>4 DEF Rollback
    <3>5. CASE StartInstall \/ FinishInstall
      BY <3>5 DEF StartInstall, FinishInstall
    <3>6. CASE StartUpgrade \/ FinishUpgrade
      BY <3>6 DEF StartUpgrade, FinishUpgrade
    <3> QED BY <3>1, <3>2, <3>3, <3>4, <3>5, <3>6 DEF Helming
  <2> QED BY <2>1, <2>2, <2>3, <2>4, <2>5
<1>5. PhaseLinked'
  BY <1>1, <1>4, PhaseKept DEF PhaseLinked
<1>6. Left'
  BY <1>1, <1>2, <1>4, LeftWorking
<1> QED BY <1>5, <1>6

\* The steps that write the status.
LEMMA LeftStatus ==
    ASSUME IInv, PhaseLinked, Left, Installed \/ UpdateStatus \/ Mark \/ Report
    PROVE  PhaseLinked' /\ Left'
<1>0. WorldTypeOK /\ cr \in Object /\ obj \in Object /\ cache \in Object
  BY TypeParts DEF IInv, WorldTypeOK, CopyTypeOK
<1>1. /\ UNCHANGED <<kind, release, applied, service, leftover>>
      /\ pc \in Working \cup Reporting
  BY DEF Installed, UpdateStatus, Mark, Report, Working, Labels, Removing, Reporting
<1>2. /\ cr'.phase = cr.phase /\ cache' = cache /\ (synced' => synced /\ cr' = cr)
      /\ pc' \in {"idle", "failed", "report"}
      /\ objFresh' => pc' # "idle" /\ obj'.phase = cr.phase
  <2>1. CASE Installed
    <3>1. CASE /\ Return(FALSE, TRUE)
               /\ Store([cr EXCEPT !.status = IF kind = "orderer" THEN @ ELSE "Pending"])
      <4> DEFINE new == [cr EXCEPT !.status = IF kind = "orderer" THEN @ ELSE "Pending"]
      <4>1. new.phase = cr.phase
        BY <1>0 DEF Object
      <4>2. cr' = new /\ cache' = cache /\ (synced' => synced /\ cr' = cr)
        BY <3>1 DEF Store
      <4> QED BY <3>1, <4>1, <4>2 DEF Return
    <3>2. CASE UNCHANGED crVars /\ Return(TRUE, FALSE)
      BY <3>2 DEF Return
    <3>3. CASE /\ UNCHANGED crVars /\ pc' = "failed"
               /\ obj' = [(IF kind = "peer" THEN cache ELSE obj) EXCEPT !.status = "Pending"]
               /\ objFresh' = (IF kind = "console" THEN objFresh ELSE synced) /\ kind # "orderer"
      <4>1. CASE kind = "peer"
        BY <1>0, <3>3, <4>1, PhaseOf DEF PhaseLinked
      <4>2. CASE kind # "peer"
        <5>1. kind = "console"
          BY <1>0, <3>3, <4>2, KindAssumption DEF WorldTypeOK
        <5> QED BY <1>0, <3>3, <5>1, PhaseOf DEF PhaseLinked
      <4> QED BY <4>1, <4>2
    <3> QED BY <2>1, <3>1, <3>2, <3>3 DEF Installed
  <2>2. CASE UpdateStatus
    <3> DEFINE new == [obj EXCEPT !.status = state,
                                  !.message = IF kind = "console" THEN @ ELSE "",
                                  !.cert = IF kind = "console" THEN 0 ELSE applied.cert]
               again == kind # "console" \/ state # "Running"
    <3>1. CASE UNCHANGED crVars /\ Return(FALSE, again)
      BY <3>1 DEF Return
    <3>2. CASE Fresh /\ Store(new) /\ Return(FALSE, again)
      <4>1. new.phase = obj.phase
        BY <1>0 DEF Object
      <4>2. cr' = new /\ cache' = cache /\ (synced' => synced /\ cr' = cr) /\ objFresh
        BY <3>2 DEF Store, Fresh
      <4> HIDE DEF new
      <4> QED BY <3>2, <4>1, <4>2 DEF Return, PhaseLinked
    <3>3. CASE Fail("conflict") /\ UNCHANGED crVars
      BY <1>0, <3>3, FailPhase DEF PhaseLinked
    <3> QED BY <2>2, <3>1, <3>2, <3>3 DEF UpdateStatus
  <2>3. CASE Mark
    <3>1. CASE obj' = [obj EXCEPT !.message = error, !.reason = error]
               /\ UNCHANGED <<crVars, objFresh>>
      BY <1>0, <2>3, <3>1 DEF Mark, PhaseLinked, Object
    <3>2. CASE /\ Store([cr EXCEPT !.status = "Failed"])
               /\ obj' = [cr' EXCEPT !.reason = ""] /\ objFresh' = TRUE
      <4>1. [cr EXCEPT !.status = "Failed"] \in Object
        BY <1>0 DEF Object
      <4>2. [cr EXCEPT !.status = "Failed"].phase = cr.phase
        BY <1>0 DEF Object
      <4>3. cr' = [cr EXCEPT !.status = "Failed"] /\ cache' = cache
            /\ (synced' => synced /\ cr' = cr)
        BY <3>2 DEF Store
      <4>4. obj'.phase = cr'.phase
        BY <3>2, <4>1, <4>3 DEF Object
      <4> QED BY <2>3, <4>2, <4>3, <4>4 DEF Mark
    <3>3. CASE obj' = [obj EXCEPT !.status = "Failed", !.message = "patch", !.reason = "patch"]
               /\ UNCHANGED <<crVars, objFresh>>
      BY <1>0, <2>3, <3>3 DEF Mark, PhaseLinked, Object
    <3> QED BY <2>3, <3>1, <3>2, <3>3 DEF Mark
  <2>4. CASE Report
    <3>1. CASE /\ Return(FALSE, kind = "peer")
               /\ Store([cr EXCEPT !.status = obj.status, !.message = obj.message,
                                   !.reason = obj.reason])
      <4> DEFINE new == [cr EXCEPT !.status = obj.status, !.message = obj.message,
                                   !.reason = obj.reason]
      <4>1. new.phase = cr.phase
        BY <1>0 DEF Object
      <4>2. cr' = new /\ cache' = cache /\ (synced' => synced /\ cr' = cr)
        BY <3>1 DEF Store
      <4> HIDE DEF new
      <4> QED BY <3>1, <4>1, <4>2 DEF Return
    <3>2. CASE Return(TRUE, FALSE) /\ UNCHANGED crVars
      BY <3>2 DEF Return
    <3> QED BY <2>4, <3>1, <3>2 DEF Report
  <2> QED BY <2>1, <2>2, <2>3, <2>4
<1>3. pc' \notin {"adopt", "service"} \cup Removing \cup Working
  BY <1>2 DEF Working, Removing, Reporting
<1>4. PhaseLinked'
  BY <1>2, <1>3, PhaseKept
<1>5. Left'
  BY <1>1, <1>2, <1>3, LeftKept
<1> QED BY <1>4, <1>5

\* Every step keeps the links and what they are for.
THEOREM LeftStep == IInv /\ PhaseLinked /\ Left /\ [Next]_vars => PhaseLinked' /\ Left'
<1> SUFFICES ASSUME IInv, PhaseLinked, Left, [Next]_vars PROVE PhaseLinked' /\ Left' OBVIOUS
<1>1. CASE UNCHANGED vars
  BY <1>1 DEF PhaseLinked, Left, Gone, NothingLeftBehind
<1>2. CASE Next
  <2>1. TypeOK
    BY DEF IInv
  <2> QED BY <1>2, <2>1, LeftAround, LeftCrash, LeftFinalizer, LeftWork, LeftStatus
          DEF Next, Reconcile, Around, Helming
<1> QED BY <1>1, <1>2

\* A resource that is gone has left nothing behind, however its removal was interrupted,
\* unless a removal that failed was passed over.
THEOREM Removed == Spec => []NothingLeftBehind
<1>1. Left => NothingLeftBehind
  BY DEF Left
<1> QED BY <1>1, IInvInit, IInvStep, LeftInit, LeftStep, PTL DEF Spec

-----------------------------------------------------------------------------
(* Running means deployed.  What makes it inductive: the copy of a worker     *)
(* whose pass no other will follow is the resource as it is; that worker puts *)
(* its copy's spec into the cluster; and what has not been installed yet is   *)
(* not reported Running.                                                      *)

\* There is a pass to come.
Awaited == queued \/ ~synced

CopyLinked ==
    /\ pc \notin Reporting \cup {"idle"} /\ (objFresh \/ ~Awaited) => obj = cr
    /\ pc = "report" => obj.status = "Failed"

WorkLinked ==
    /\ pending => skipped \/ pc = "rollback"
    /\ pc = "upgrading" => ~pending /\ release.values.spec = obj.spec
    /\ pc \in {"install", "upgrade"} => config.spec = obj.spec
    /\ pc \in {"read", "state", "status"} => release # None
    /\ pc \in {"state", "status"} => skipped \/ (applied # None /\ applied.spec = obj.spec)

\* A console has no certificates.
Bare == kind = "console" => \A c \in Places : c = None \/ c.cert = 0

StatusLinked ==
    /\ release = None \/ pc \in {"install", "installing", "installed"} =>
           cr.status # "Running" \/ cr.phase \in {"deleting", "gone"}
    /\ RunningMeansDeployed

\* At first nothing is deployed and nothing reported.
LEMMA DeployInit == Init => CopyLinked /\ WorkLinked /\ Bare /\ StatusLinked
<1> SUFFICES ASSUME Init PROVE CopyLinked /\ WorkLinked /\ Bare /\ StatusLinked OBVIOUS
<1>1. cr.status = ""
  <2>1. PICK s \in Specs : cr = Blank(s)
    BY DEF Init
  <2> QED BY <2>1 DEF Blank
<1>2. CopyLinked /\ WorkLinked
  BY DEF Init, CopyLinked, WorkLinked, Reporting
<1>3. Bare
  BY DEF Init, Bare, Places, Released
<1> QED BY <1>1, <1>2, <1>3 DEF Init, StatusLinked, RunningMeansDeployed

\* The steps that leave resource and copy alone.
Inside == \/ Unserve \/ Uninstall \/ ApplyService \/ ReadCertificate \/ GetConfig
          \/ Helming \/ ReadState

LEMMA InsideStep ==
    ASSUME HelmLinked, Inside
    PROVE  /\ UNCHANGED crVars /\ pc \notin {"idle"} \cup Reporting
           /\ \/ UNCHANGED <<queueVars, copyVars>> /\ pc' \notin {"idle", "adopt", "report"}
              \/ pc' = "idle" /\ (queued' \/ (release = None /\ release' = release))
<1> USE DEF Reporting, Fail, Return
<1>1. \A b : Continue(b) \in {"service", "read", "config"}
  BY DEF Continue
<1>2. CASE Unserve \/ Uninstall \/ ApplyService \/ ReadCertificate
  BY <1>2 DEF Unserve, Uninstall, ApplyService, ReadCertificate
<1>3. CASE GetConfig \/ ReadState
  BY <1>3 DEF GetConfig, ReadState, AfterConfig
<1>4. CASE CheckRelease
  BY <1>1, <1>4 DEF CheckRelease
<1>5. CASE Rollback
  BY <1>1, <1>5 DEF Rollback
<1>6. CASE StartInstall \/ FinishInstall
  BY <1>6 DEF StartInstall, FinishInstall, HelmLinked
<1>7. CASE StartUpgrade \/ FinishUpgrade
  BY <1>7 DEF StartUpgrade, FinishUpgrade
<1> QED BY <1>2, <1>3, <1>4, <1>5, <1>6, <1>7 DEF Inside, Helming

\* Whatever the worker copies is current until something else happens to the resource.
LEMMA CopyStep == ASSUME IInv, PhaseLinked, CopyLinked, Next PROVE CopyLinked'
<1> USE DEF Reporting
<1>0. WorldTypeOK /\ CopyTypeOK /\ cr \in Object /\ obj \in Object /\ cache \in Object
  BY TypeParts DEF IInv, WorldTypeOK, CopyTypeOK
<1>1. CASE Edit \/ LoseSecrets \/ LoseService \/ CacheSync \/ RolloutDone
  BY <1>1 DEF CopyLinked, Awaited, Edit, LoseSecrets, LoseService, CacheSync, RolloutDone,
              PhaseLinked
<1>2. CASE Timer \/ Crash
  BY <1>2 DEF Timer, Crash, CopyLinked
<1>3. CASE Inside
  BY <1>3, InsideStep DEF IInv, CopyLinked, Awaited
<1>4. CASE Begin
  <2>1. CASE cache.phase = "gone"
    BY <1>4, <2>1 DEF Begin, CopyLinked
  <2>2. CASE cache.phase # "gone"
    <3>1. obj' = cache /\ objFresh' = synced /\ UNCHANGED crVars /\ pc' # "report"
      BY <1>4, <2>2 DEF Begin
    <3> QED BY <3>1 DEF CopyLinked, Awaited, PhaseLinked
  <2> QED BY <2>1, <2>2
<1>5. CASE Adopt \/ Release
  <2>1. CASE obj' = cr' /\ pc' = "helm"
    BY <2>1 DEF CopyLinked
  <2>2. CASE pc' \in {"idle", "failed"}
    BY <2>2 DEF CopyLinked
  <2> QED BY <1>5, <2>1, <2>2 DEF Adopt, Release, Fail, Return
<1>6. CASE Installed \/ UpdateStatus \/ Report
  <2>1. pc' \in {"idle", "failed"}
    BY <1>6 DEF Installed, UpdateStatus, Report, Fail, Return
  <2> QED BY <2>1 DEF CopyLinked
<1>7. CASE Mark
  <2>1. obj'.status = "Failed"
    <3>1. CASE obj.status = "Failed" /\ obj' = [obj EXCEPT !.message = error, !.reason = error]
      BY <1>0, <3>1 DEF Object
    <3>2. CASE Store([cr EXCEPT !.status = "Failed"]) /\ obj' = [cr' EXCEPT !.reason = ""]
      <4>1. [cr EXCEPT !.status = "Failed"] \in Object
            /\ [cr EXCEPT !.status = "Failed"].status = "Failed"
        BY <1>0 DEF Object
      <4>2. cr' = [cr EXCEPT !.status = "Failed"]
        BY <3>2 DEF Store
      <4> QED BY <3>2, <4>1, <4>2 DEF Object
    <3>3. CASE obj' = [obj EXCEPT !.status = "Failed", !.message = "patch", !.reason = "patch"]
      BY <1>0, <3>3 DEF Object
    <3> QED BY <1>7, <3>1, <3>2, <3>3 DEF Mark
  <2> QED BY <1>7, <2>1 DEF Mark, CopyLinked
<1> QED BY <1>1, <1>2, <1>3, <1>4, <1>5, <1>6, <1>7 DEF Next, Reconcile, Inside, Helming

\* No step puts certificates of a console anywhere.
LEMMA BareStep == ASSUME IInv, Bare, Next PROVE Bare'
<1>0. ClusterTypeOK /\ HelmLinked
  BY TypeParts DEF IInv
<1>1. kind' = kind
  BY DEF Next, Reconcile, Edit, LoseSecrets, LoseService, CacheSync, Timer, RolloutDone, Crash,
         Begin, Adopt, Unserve, Uninstall, Release, CheckRelease, Rollback, ApplyService,
         ReadCertificate, GetConfig, StartInstall, FinishInstall, Installed, StartUpgrade,
         FinishUpgrade, ReadState, UpdateStatus, Mark, Report
<1>2. CASE GetConfig
  <2>1. UNCHANGED <<helmVars, applied>> /\ Released' = Released
    BY <1>2 DEF GetConfig, Released
  <2>2. kind = "console" => config' = None \/ config'.cert = 0 \/ config' = config
    BY <1>2 DEF GetConfig, Configure, Fail, Return
  <2> QED BY <1>1, <2>1, <2>2 DEF Bare, Places
<1>3. ASSUME ~GetConfig, NEW c \in Places' PROVE c \in Places \/ c = None \/ c.cert = 0
  <2>1. CASE Helming
    BY <2>1, HelmingPlaces DEF Places
  <2>2. CASE Looking
    <3>1. UNCHANGED <<helmVars, applied>> /\ Released' = Released
      BY <2>2 DEF Looking, Begin, Adopt, Unserve, Release, ApplyService, ReadCertificate,
                  Installed, ReadState, UpdateStatus, Mark, Report, Released
    <3>2. config' \in {config, None}
      BY <2>2, LookingTypes
    <3> QED BY <1>3, <3>1, <3>2 DEF Places
  <2>3. CASE Uninstall
    BY <1>3, <2>3 DEF Uninstall, Places, Released
  <2>4. CASE LoseSecrets
    <3>1. applied \in Values /\ applied' = [applied EXCEPT !.cert = 0]
      BY <1>0, <2>4 DEF LoseSecrets, ClusterTypeOK
    <3>2. applied'.cert = 0
      BY <3>1 DEF Values
    <3> QED BY <1>3, <2>4, <3>2 DEF LoseSecrets, Places, Released
  <2>5. CASE Edit \/ LoseService \/ CacheSync \/ Timer \/ RolloutDone
    BY <1>3, <2>5 DEF Edit, LoseService, CacheSync, Timer, RolloutDone, Places, Released
  <2>6. CASE Crash
    <3>1. UNCHANGED helmVars /\ Released' = Released /\ config' = None
      BY <2>6 DEF Crash, Released
    <3>2. applied' \in {applied, Released}
      BY <1>0, <2>6 DEF Crash, HelmLinked, MaybeApplied, Applied, Released
    <3> QED BY <1>3, <3>1, <3>2 DEF Places
  <2> QED BY <1>3, <2>1, <2>2, <2>3, <2>4, <2>5, <2>6 DEF Next, Reconcile, Looking, Helming
<1>4. CASE ~GetConfig
  BY <1>1, <1>3, <1>4 DEF Bare
<1> QED BY <1>2, <1>4

\* Where a worker that reports nothing yet has to know nothing.
LEMMA WorkAway ==
    ASSUME pc' \notin {"upgrading", "install", "upgrade", "read", "state", "status"},
           pending' => skipped'
    PROVE  WorkLinked'
BY DEF WorkLinked

LEMMA FailAway ==
    ASSUME NEW e, Fail(e), pending => skipped'
    PROVE  WorkLinked'
BY WorkAway DEF Fail, Return

\* What a worker is about to report has come into the cluster.
LEMMA WorkStep == ASSUME IInv, WorkLinked, Next PROVE WorkLinked'
<1>0. ClusterTypeOK /\ HelmLinked /\ PassTypeOK /\ CopyTypeOK
  BY TypeParts DEF IInv
<1>1. CASE Edit \/ LoseService \/ CacheSync \/ Timer \/ RolloutDone
  BY <1>1 DEF WorkLinked, Edit, LoseService, CacheSync, Timer, RolloutDone
<1>2. CASE LoseSecrets
  <2>1. applied' # None /\ applied'.spec = applied.spec
    <3>1. applied \in Values /\ applied' = [applied EXCEPT !.cert = 0]
      BY <1>0, <1>2 DEF LoseSecrets, ClusterTypeOK
    <3>2. applied' \in Values /\ applied'.spec = applied.spec
      BY <3>1 DEF Values
    <3> QED BY <3>2, NoneTypes
  <2> QED BY <1>2, <2>1 DEF WorkLinked, LoseSecrets
<1>3. CASE Crash
  BY <1>3 DEF WorkLinked, Crash
<1>4. CASE Begin \/ Unserve \/ Uninstall \/ Installed \/ UpdateStatus \/ Mark \/ Report
  <2>1. pc # "rollback" /\ skipped' = skipped /\ (pending' => pending)
        /\ pc' \notin {"upgrading", "install", "upgrade", "read", "state", "status"}
    <3>1. CASE Begin \/ Unserve \/ Uninstall
      BY <3>1 DEF Begin, Unserve, Uninstall
    <3>2. CASE Installed
      BY <3>2 DEF Installed, Return
    <3>3. CASE UpdateStatus
      BY <3>3 DEF UpdateStatus, Fail, Return
    <3>4. CASE Mark
      <4>1. pc = "failed" /\ pc' = "report" /\ skipped' = skipped /\ pending' = pending
        BY <3>4 DEF Mark
      <4> QED BY <4>1
    <3>5. CASE Report
      <4>1. pc = "report" /\ skipped' = skipped /\ pc' = "idle" /\ ~pending'
        BY <3>5 DEF Report, Return
      <4> QED BY <4>1
    <3> QED BY <1>4, <3>1, <3>2, <3>3, <3>4, <3>5
  <2> QED BY <2>1, WorkAway DEF WorkLinked
<1>5. CASE Adopt \/ Release
  <2>1. pc # "rollback" /\ skipped' = skipped /\ (pending' => pending)
        /\ pc' \notin {"upgrading", "install", "upgrade", "read", "state", "status"}
    BY <1>5 DEF Adopt, Release, Fail, Return
  <2> QED BY <2>1, WorkAway DEF WorkLinked
<1>6. CASE CheckRelease
  <2>1. Continue(release # None) = "read" => release # None
    BY DEF Continue
  <2>2. pc = "helm" /\ skipped' = skipped
    BY <1>6 DEF CheckRelease
  <2>3. CASE Fail("helm")
    BY <2>2, <2>3, FailAway DEF WorkLinked
  <2>4. CASE pc' = "rollback"
    BY <2>4 DEF WorkLinked
  <2>5. CASE Step(Continue(release # None)) /\ UNCHANGED helmVars
    BY <2>1, <2>2, <2>5, ContinueLabel DEF WorkLinked
  <2> QED BY <1>6, <2>3, <2>4, <2>5 DEF CheckRelease
<1>7. CASE Rollback
  <2>1. release # None /\ skipped'
    BY <1>0, <1>7 DEF Rollback, HelmLinked
  <2>2. CASE Fail("rollback")
    BY <2>1, <2>2, FailAway
  <2>3. CASE Finished("deployed") /\ Applied(release.values) /\ Step(Continue(TRUE))
    <3>1. release' # None
      BY <1>0, <2>1, <2>3, FinishedType DEF MaybeApplied
    <3> QED BY <2>1, <2>3, <3>1, ContinueLabel DEF WorkLinked
  <2> QED BY <1>7, <2>2, <2>3 DEF Rollback
<1>8. CASE ApplyService \/ ReadCertificate
  <2>1. pc \in {"service", "read"} /\ UNCHANGED <<skipped, release>>
    BY <1>8 DEF ApplyService, ReadCertificate
  <2>2. CASE \E e : Fail(e)
    BY <2>1, <2>2, FailAway DEF WorkLinked
  <2>3. CASE ApplyService /\ Step(IF release = None THEN "config" ELSE "read")
    BY <2>1, <2>3 DEF ApplyService, WorkLinked
  <2>4. CASE ReadCertificate /\ Step(IF pending /\ kind = "orderer" THEN "state" ELSE "config")
    BY <2>1, <2>4 DEF ReadCertificate, WorkLinked
  <2> QED BY <1>8, <2>2, <2>3, <2>4 DEF ApplyService, ReadCertificate
<1>9. CASE GetConfig
  <2>1. skipped' = skipped /\ pc = "config" /\ release' = release
    BY <1>9 DEF GetConfig
  <2>2. CASE Fail("enroll")
    BY <2>1, <2>2, FailAway DEF WorkLinked
  <2>3. CASE AfterConfig /\ \E n : Configure(n)
    BY <2>1, <2>3 DEF AfterConfig, Configure, WorkLinked
  <2> QED BY <1>9, <2>2, <2>3 DEF GetConfig
<1>10. CASE StartInstall \/ FinishInstall
  <2>1. pc # "rollback" /\ skipped' = skipped /\ (pending' => pending)
        /\ pc' \notin {"upgrading", "install", "upgrade", "read", "state", "status"}
    BY <1>10 DEF StartInstall, FinishInstall, Fail, Return
  <2> QED BY <2>1, WorkAway DEF WorkLinked
<1>11. CASE StartUpgrade
  <2>1. release # None /\ config \in Values
    BY <1>0, <1>11 DEF StartUpgrade, HelmLinked, PassTypeOK
  <2>2. CASE ~pending /\ Revise("pending-upgrade", config) /\ Step("upgrading")
    <3>1. release'.values = config /\ UNCHANGED <<pending, obj>> /\ pc' = "upgrading"
          /\ pc = "upgrade"
      BY <1>11, <2>2 DEF Revise, StartUpgrade
    <3> QED BY <2>2, <3>1 DEF WorkLinked
  <2>3. CASE ~(Revise("pending-upgrade", config) /\ Step("upgrading"))
    BY <1>11, <2>1, <2>3, FailAway DEF StartUpgrade, WorkLinked
  <2> QED BY <1>11, <2>2, <2>3 DEF StartUpgrade
<1>12. CASE FinishUpgrade
  <2>1. release # None /\ release.values \in Values /\ pc = "upgrading"
    BY <1>0, <1>12 DEF FinishUpgrade, HelmLinked, ClusterTypeOK, Revision
  <2>2. CASE Fail("upgrade") /\ UNCHANGED skipped
    BY <2>1, <2>2, FailAway DEF WorkLinked
  <2>3. CASE Finished("deployed") /\ Applied(release.values) /\ Step("state")
    <3>1. release' # None
      BY <1>0, <2>1, <2>3, FinishedType DEF MaybeApplied
    <3>2. applied' = release.values /\ applied' # None
      BY <2>1, <2>3, NoneTypes DEF Applied
    <3> QED BY <2>1, <2>3, <3>1, <3>2 DEF WorkLinked
  <2> QED BY <1>12, <2>2, <2>3 DEF FinishUpgrade
<1>13. CASE ReadState
  BY <1>13, FailAway DEF ReadState, WorkLinked
<1> QED BY <1>1, <1>2, <1>3, <1>4, <1>5, <1>6, <1>7, <1>8, <1>9, <1>10, <1>11, <1>12, <1>13
        DEF Next, Reconcile

\* A status other than Running, or a resource that is no longer managed, promises nothing.
LEMMA NothingPromised ==
    ASSUME cr'.status # "Running" \/ cr'.phase \in {"deleting", "gone"}
    PROVE  StatusLinked'
BY DEF StatusLinked, RunningMeansDeployed

\* Neither does one that another pass follows.
LEMMA PassToCome ==
    ASSUME StatusLinked, pc' # "idle" \/ Awaited',
           cr'.status = cr.status \/ release' # None, cr'.phase = cr.phase \/ release' # None,
           release' = None => release = None, pc' \notin {"install", "installing", "installed"}
    PROVE  StatusLinked'
BY DEF StatusLinked, RunningMeansDeployed, Quiet, Awaited

\* While Helm is at work there is a release, or there will be the first one.
LEMMA ReleaseStays ==
    ASSUME IInv, Inside, ~Uninstall,
           release' = None \/ pc' \in {"install", "installing", "installed"}
    PROVE  release = None \/ pc \in {"install", "installing", "installed"}
<1>0. ClusterTypeOK /\ HelmLinked
  BY TypeParts DEF IInv
<1>1. CASE ~Helming
  BY <1>1 DEF Inside, Unserve, ApplyService, ReadCertificate, GetConfig, ReadState,
              AfterConfig, Fail, Return
<1>2. CASE CheckRelease \/ StartUpgrade
  <2>1. HelmLinked' /\ (release' = release \/ pc' \in {"rollback", "upgrading"})
    BY <1>2, HelmingPlaces DEF Helming, CheckRelease, StartUpgrade, Revise, Fail, Return
  <2>2. pc' \notin {"install", "installing", "installed"}
    BY <1>2, ContinueLabel DEF CheckRelease, StartUpgrade, Fail, Return
  <2> QED BY <2>1, <2>2 DEF HelmLinked
<1>3. CASE Rollback \/ FinishUpgrade
  <2>1. release # None
    BY <1>0, <1>3 DEF Rollback, FinishUpgrade, HelmLinked
  <2>2. PICK s \in {"deployed", "failed"} : Finished(s)
    BY <1>3 DEF Rollback, FinishUpgrade
  <2>3. MaybeApplied(release.values)
    BY <1>3 DEF Rollback, FinishUpgrade, MaybeApplied
  <2>4. release' # None
    BY <1>0, <2>1, <2>2, <2>3, FinishedType
  <2>5. pc' \notin {"install", "installing", "installed"}
    BY <1>3, ContinueLabel DEF Rollback, FinishUpgrade, Fail, Return
  <2> QED BY <2>4, <2>5
<1>4. CASE StartInstall \/ FinishInstall
  BY <1>0, <1>4 DEF StartInstall, FinishInstall, HelmLinked
<1> QED BY <1>1, <1>2, <1>3, <1>4 DEF Helming

\* Nothing else makes a settled resource Running.
LEMMA StatusStep ==
    ASSUME IInv, PhaseLinked, CopyLinked, WorkLinked, Bare, StatusLinked, Next
    PROVE  StatusLinked'
<1>0. /\ WorldTypeOK /\ CopyTypeOK /\ ClusterTypeOK /\ HelmLinked
      /\ cr \in Object /\ obj \in Object
  BY TypeParts DEF IInv, WorldTypeOK, CopyTypeOK
<1>1. CASE Edit
  <2>1. /\ cr'.status = cr.status
        /\ cr'.phase = cr.phase \/ cr'.phase \in {"deleting", "gone"}
    BY <1>0, <1>1 DEF Edit, Object
  <2>2. ~synced' /\ UNCHANGED <<pc, release>>
    BY <1>1 DEF Edit
  <2> QED BY <2>1, <2>2 DEF StatusLinked, RunningMeansDeployed, Quiet
<1>2. CASE LoseSecrets
  <2>1. applied \in Values /\ applied' = [applied EXCEPT !.cert = 0]
    BY <1>0, <1>2 DEF LoseSecrets, ClusterTypeOK
  <2>2. applied' # None /\ applied'.spec = applied.spec /\ applied'.cert = 0
    BY <2>1, NoneTypes DEF Values
  <2> QED BY <1>2, <2>2 DEF LoseSecrets, StatusLinked, RunningMeansDeployed, Quiet
<1>3. CASE CacheSync \/ Timer \/ LoseService \/ RolloutDone
  BY <1>3 DEF CacheSync, Timer, LoseService, RolloutDone, StatusLinked, RunningMeansDeployed,
              Quiet
<1>4. CASE Crash
  BY <1>0, <1>4 DEF Crash, StatusLinked, RunningMeansDeployed, Quiet
<1>5. CASE Begin
  <2>1. CASE cache.phase = "gone"
    BY <1>5, <2>1, NothingPromised DEF Begin, PhaseLinked
  <2>2. CASE cache.phase # "gone"
    BY <1>5, <2>2, PassToCome DEF Begin
  <2> QED BY <2>1, <2>2
<1>6. CASE Uninstall
  BY <1>6, NothingPromised DEF Uninstall, PhaseLinked, Removing
<1>7. CASE Inside /\ ~Uninstall
  <2>1. UNCHANGED cr /\ (pc' # "idle" \/ Awaited' \/ (release = None /\ release' = None))
    BY <1>0, <1>7, InsideStep DEF Awaited
  <2> QED BY <1>7, <2>1, ReleaseStays DEF StatusLinked, RunningMeansDeployed, Quiet, Awaited
<1>8. CASE Adopt
  <2>1. CASE Fresh /\ Store([cr EXCEPT !.phase = "managed"]) /\ pc' = "helm"
    <3>1. cr'.status = cr.status /\ cr.phase = "new"
      BY <1>0, <1>8, <2>1 DEF Store, Object, Adopt, Fresh, PhaseLinked
    <3> QED BY <1>8, <2>1, <3>1
            DEF Adopt, StatusLinked, RunningMeansDeployed, Quiet
  <2>2. CASE Fail("update") /\ UNCHANGED crVars
    BY <1>8, <2>2, PassToCome DEF Adopt, Fail, Return, Awaited
  <2> QED BY <1>8, <2>1, <2>2 DEF Adopt
<1>9. CASE Release
  <2>1. CASE Store([cr EXCEPT !.phase = "gone"])
    <3>1. cr'.phase = "gone"
      BY <1>0, <2>1 DEF Store, Object
    <3> QED BY <3>1, NothingPromised
  <2>2. CASE Fail("update") /\ UNCHANGED crVars
    BY <1>9, <2>2, PassToCome DEF Release, Fail, Return, Awaited
  <2> QED BY <1>9, <2>1, <2>2 DEF Release
<1>10. CASE Installed
  <2>1. cr.status # "Running" \/ cr.phase \in {"deleting", "gone"}
    BY <1>10 DEF Installed, StatusLinked
  <2>2. CASE Store([cr EXCEPT !.status = IF kind = "orderer" THEN @ ELSE "Pending"])
    <3>1. cr'.phase = cr.phase /\ (cr'.status = cr.status \/ cr'.status = "Pending")
      BY <1>0, <2>2 DEF Store, Object
    <3> QED BY <2>1, <3>1, NothingPromised
  <2>3. CASE UNCHANGED crVars
    BY <2>1, <2>3, NothingPromised
  <2> QED BY <1>10, <2>2, <2>3 DEF Installed
<1>11. CASE Mark
  <2>1. UNCHANGED release /\ pc' = "report"
    BY <1>11 DEF Mark
  <2>2. CASE Store([cr EXCEPT !.status = "Failed"])
    <3>1. cr'.status = "Failed"
      BY <1>0, <2>2 DEF Store, Object
    <3> QED BY <3>1, NothingPromised
  <2>3. CASE UNCHANGED crVars
    BY <2>1, <2>3, PassToCome
  <2> QED BY <1>11, <2>2, <2>3 DEF Mark
<1>12. CASE Report
  <2>1. CASE Store([cr EXCEPT !.status = obj.status, !.message = obj.message,
                              !.reason = obj.reason])
    <3>1. cr'.status = obj.status
      BY <1>0, <2>1 DEF Store, Object
    <3> QED BY <1>12, <3>1, NothingPromised DEF Report, CopyLinked
  <2>2. CASE Return(TRUE, FALSE) /\ UNCHANGED crVars
    BY <1>12, <2>2, PassToCome DEF Report, Return, Awaited
  <2> QED BY <1>12, <2>1, <2>2 DEF Report
<1>13. CASE UpdateStatus
  <2> DEFINE new == [obj EXCEPT !.status = state,
                                !.message = IF kind = "console" THEN @ ELSE "",
                                !.cert = IF kind = "console" THEN 0 ELSE applied.cert]
             again == kind # "console" \/ state # "Running"
  <2>1. UNCHANGED <<release, applied, skipped, kind>> /\ release # None
    BY <1>13 DEF UpdateStatus, WorkLinked
  <2>2. CASE Fail("conflict") /\ UNCHANGED crVars
    BY <2>1, <2>2, PassToCome DEF Fail, Return, Awaited
  <2>3. CASE new # obj /\ Fresh /\ Store(new) /\ Return(FALSE, again)
    <3>1. obj = cr
      BY <1>13, <2>3 DEF UpdateStatus, Fresh, CopyLinked, Reporting
    <3>2. ~synced' /\ pc' = "idle"
      BY <2>3, <3>1 DEF Store, Return
    <3> QED BY <2>1, <3>2, PassToCome DEF Awaited
  <2>4. CASE new = obj /\ Return(FALSE, again) /\ UNCHANGED crVars
    <3>1. pc' = "idle" /\ (queued => queued')
      <4> HIDE DEF again
      <4> QED BY <2>4 DEF Return
    <3>2. CASE Awaited \/ skipped
      BY <2>1, <2>4, <3>1, <3>2
         DEF StatusLinked, RunningMeansDeployed, Quiet, Awaited
    <3>3. CASE ~Awaited /\ ~skipped
      <4>1. obj = cr /\ applied # None /\ applied.spec = cr.spec
        BY <1>13, <3>3 DEF UpdateStatus, CopyLinked, WorkLinked, Reporting
      <4>2. new.cert = IF kind = "console" THEN 0 ELSE applied.cert
        BY <1>0 DEF Object
      <4>3. kind = "console" => applied.cert = 0
        BY <4>1 DEF Bare, Places
      <4>4. applied.cert # 0 => cr.cert = applied.cert
        BY <2>4, <4>1, <4>2, <4>3
      <4> QED BY <2>1, <2>4, <3>1, <4>1, <4>4
              DEF StatusLinked, RunningMeansDeployed, Quiet
    <3> QED BY <3>2, <3>3
  <2> QED BY <1>13, <2>2, <2>3, <2>4 DEF UpdateStatus
<1> QED BY <1>1, <1>2, <1>3, <1>4, <1>5, <1>6, <1>7, <1>8, <1>9, <1>10, <1>11, <1>12, <1>13
        DEF Next, Reconcile, Inside, Helming

\* A node or console that is reported Running, with nothing pending, is deployed as its
\* spec says and shows the certificate in use, unless it was rolled back: no edit,
\* conflict, failure or restart leaves an older Running behind.
THEOREM RunningDeployed == Spec => []RunningMeansDeployed
<1> DEFINE DInv == CopyLinked /\ WorkLinked /\ Bare /\ StatusLinked
<1>1. IInv /\ PhaseLinked /\ DInv /\ [Next]_vars => DInv'
  <2> SUFFICES ASSUME IInv, PhaseLinked, DInv, [Next]_vars PROVE DInv' OBVIOUS
  <2>1. CASE Next
    BY <2>1, CopyStep, WorkStep, BareStep, StatusStep
  <2>2. CASE UNCHANGED vars
    <3>1. Bare'
      BY <2>2 DEF Bare, Places, Released
    <3>2. CopyLinked' /\ WorkLinked'
      BY <2>2 DEF CopyLinked, Awaited, WorkLinked
    <3>3. StatusLinked'
      BY <2>2 DEF StatusLinked, RunningMeansDeployed, Quiet
    <3> QED BY <3>1, <3>2, <3>3
  <2> QED BY <2>1, <2>2
<1>2. Init => DInv
  BY DeployInit
<1>3. DInv => RunningMeansDeployed
  BY DEF StatusLinked
<1> QED BY <1>1, <1>2, <1>3, IInvInit, IInvStep, LeftInit, LeftStep, PTL DEF Spec

-----------------------------------------------------------------------------
(* No resource is forgotten.  A pass ends with a delay, with an error for     *)
(* which the key is added again, or with a write that brings another pass; it *)
(* ends for good only with a console that runs and with an orderer or a       *)
(* console whose status says already what has failed.                         *)

\* Nothing is going on, and nothing will before somebody changes something.
AtRest == Quiet /\ ~timer

Done == /\ kind # "peer"
        /\ \/ cr.status = "Failed" /\ repeated
           \/ cr.status = "Running" /\ kind = "console"

NoneForgotten == AtRest /\ cr.phase # "gone" => Done

LEMMA RestStatus ==
    ASSUME IInv, PhaseLinked, CopyLinked, NoneForgotten, Installed \/ UpdateStatus \/ Mark \/ Report
    PROVE  NoneForgotten'
<1> USE DEF NoneForgotten, AtRest, Quiet
<1>0. WorldTypeOK /\ cr \in Object /\ obj \in Object
  BY TypeParts DEF IInv, WorldTypeOK, CopyTypeOK
<1>1. CASE Installed \/ Mark
  BY <1>1 DEF Installed, Mark, Return
<1>2. CASE UpdateStatus
  <2> DEFINE new == [obj EXCEPT !.status = state,
                                !.message = IF kind = "console" THEN @ ELSE "",
                                !.cert = IF kind = "console" THEN 0 ELSE applied.cert]
             again == kind # "console" \/ state # "Running"
  <2>1. kind' = kind /\ pc = "status"
    BY <1>2 DEF UpdateStatus
  <2>2. new.status = state
    BY <1>0 DEF Object
  <2>3. CASE new = obj /\ Return(FALSE, again) /\ UNCHANGED crVars
    <3>1. CASE queued \/ ~synced \/ again
      BY <2>3, <3>1 DEF Return
    <3>2. CASE ~queued /\ synced /\ ~again
      <4>1. obj = cr
        BY <2>1, <3>2 DEF CopyLinked, Awaited, Reporting
      <4> HIDE DEF new
      <4>2. cr'.status = "Running" /\ kind' = "console"
        BY <2>1, <2>2, <2>3, <3>2, <4>1
      <4> QED BY <4>2 DEF Done
    <3> QED BY <3>1, <3>2
  <2>4. CASE Store(new) /\ Return(FALSE, again)
    <3> HIDE DEF new
    <3>1. CASE again
      BY <2>4, <3>1 DEF Return
    <3>2. CASE ~again
      <4>1. cr'.status = "Running" /\ kind' = "console"
        BY <2>1, <2>2, <2>4, <3>2 DEF Store
      <4> QED BY <4>1 DEF Done
    <3> QED BY <3>1, <3>2
  <2>5. CASE Fail("conflict")
    BY <2>5 DEF Fail, Return
  <2> QED BY <1>2, <2>3, <2>4, <2>5 DEF UpdateStatus
<1>3. CASE Report
  <2>1. CASE Return(TRUE, FALSE)
    BY <2>1 DEF Return
  <2>2. CASE /\ Return(FALSE, kind = "peer")
             /\ Store([cr EXCEPT !.status = obj.status, !.message = obj.message,
                                 !.reason = obj.reason])
             /\ repeated' = (cr' = cr /\ kind # "peer")
    <3> DEFINE new == [cr EXCEPT !.status = obj.status, !.message = obj.message,
                                 !.reason = obj.reason]
    <3>1. new.status = "Failed" /\ kind' = kind
      BY <1>0, <1>3 DEF Report, CopyLinked, Object
    <3> HIDE DEF new
    <3>2. cr'.status = "Failed" /\ (synced' => cr' = cr)
      BY <2>2, <3>1 DEF Store, new
    <3>3. CASE kind = "peer"
      BY <2>2, <3>3 DEF Return
    <3>4. CASE kind # "peer" /\ synced'
      BY <2>2, <3>1, <3>2, <3>4 DEF Done
    <3>5. CASE ~synced'
      BY <3>5
    <3> QED BY <3>3, <3>4, <3>5
  <2> QED BY <1>3, <2>1, <2>2 DEF Report
<1> QED BY <1>1, <1>2, <1>3

LEMMA RestStep ==
    ASSUME IInv, PhaseLinked, CopyLinked, NoneForgotten, Next PROVE NoneForgotten'
<1> USE DEF NoneForgotten, AtRest, Quiet
<1>0. WorldTypeOK /\ cr \in Object
  BY TypeParts DEF IInv, WorldTypeOK
<1>1. CASE Edit \/ CacheSync \/ Timer \/ Crash
  BY <1>1 DEF Edit, CacheSync, Timer, Crash
<1>2. CASE LoseSecrets \/ LoseService \/ RolloutDone
  BY <1>2 DEF LoseSecrets, LoseService, RolloutDone, Done
<1>3. CASE Begin
  BY <1>3 DEF Begin, PhaseLinked
<1>4. CASE Adopt
  BY <1>4 DEF Adopt, Fail, Return
<1>5. CASE Release
  <2>1. [cr EXCEPT !.phase = "gone"].phase = "gone"
    BY <1>0 DEF Object
  <2> QED BY <1>5, <2>1 DEF Release, Fail, Return, Store
<1>6. CASE StartInstall
  BY <1>6 DEF StartInstall, Return
<1>7. CASE Inside /\ ~StartInstall
  <2>1. \A b : Continue(b) \in {"service", "read", "config"}
    BY DEF Continue
  <2>2. pc' # "idle" \/ queued'
    <3> USE DEF Fail, Return
    <3>1. CASE Unserve \/ Uninstall \/ ApplyService \/ ReadCertificate
      BY <3>1 DEF Unserve, Uninstall, ApplyService, ReadCertificate
    <3>2. CASE GetConfig \/ ReadState
      BY <3>2 DEF GetConfig, ReadState, AfterConfig
    <3>3. CASE CheckRelease \/ Rollback
      BY <2>1, <3>3 DEF CheckRelease, Rollback
    <3>4. CASE FinishInstall \/ StartUpgrade \/ FinishUpgrade
      BY <3>4 DEF FinishInstall, StartUpgrade, FinishUpgrade
    <3> QED BY <1>7, <3>1, <3>2, <3>3, <3>4 DEF Inside, Helming
  <2> QED BY <2>2
<1>8. CASE Installed \/ UpdateStatus \/ Mark \/ Report
  BY <1>8, RestStatus
<1> QED BY <1>1, <1>2, <1>3, <1>4, <1>5, <1>6, <1>7, <1>8 DEF Next, Reconcile, Inside, Helming

\* A peer, an orderer or a console is never forgotten half way, whatever failed and
\* wherever the operator died: what no pass will come for is gone, runs (a console), or
\* says in its status what failed twice (an orderer or a console, Report).
THEOREM Remembered == Spec => []NoneForgotten
<1>1. Init => NoneForgotten
  BY DEF Init, NoneForgotten, AtRest, Quiet
<1>2. IInv /\ PhaseLinked /\ CopyLinked /\ [Next]_vars => CopyLinked'
  <2>1. CopyLinked /\ UNCHANGED vars => CopyLinked'
    BY DEF CopyLinked, Awaited
  <2> QED BY <2>1, CopyStep
<1>3. IInv /\ PhaseLinked /\ CopyLinked /\ NoneForgotten /\ [Next]_vars => NoneForgotten'
  <2>1. NoneForgotten /\ UNCHANGED vars => NoneForgotten'
    BY DEF NoneForgotten, AtRest, Quiet, Done
  <2> QED BY <2>1, RestStep
<1> QED BY <1>1, <1>2, <1>3, IInvInit, IInvStep, LeftInit, LeftStep, DeployInit, PTL DEF Spec

===============================================================================
