------------------------------ MODULE NodeRelease ------------------------------
(***************************************************************************)
(* The Helm release of a peer, an orderer node or a console from its       *)
(* install to its removal (controllers/peer, controllers/ordnode,          *)
(* controllers/console; operatorapi and operatorui are copies of the       *)
(* console's): one resource, of a kind fixed at the start, and the release *)
(* that is upgraded in every pass.  What a pass does when it has to renew  *)
(* certificates is the subject of CertRenewal and left out here.           *)
(*                                                                         *)
(* The kinds run through one skeleton; they differ in the errors that are  *)
(* reported in the status, in what follows a report, in the release of an  *)
(* operator that died, and in the certificates consoles do not have.       *)
(***************************************************************************)
EXTENDS Integers

CONSTANTS
    Kinds,         \* which of "peer", "orderer" and "console" there may be
    Specs,         \* what the spec may say
    Bootable,      \* the specs an orderer can be installed with: it has a genesis
                   \* block, or needs none
    Numbers,       \* bound: numbers to tell certificates in use apart
    None,          \* no release, nothing in the cluster
    Faulty,        \* the calls that may fail
    MaxEdits,      \* bound: changes by users
    MaxFaults,     \* bound: failed calls
    MaxCrashes,    \* bound: restarts of the operator
    MaxTotal       \* bound: all of these together

\* What Helm installs: the spec and the certificates, by a number for all of them; 0 for
\* a console and for Secrets that are not there.
Values == [spec : Specs, cert : Numbers \cup {0}]

ASSUME KindAssumption == Kinds \subseteq {"peer", "orderer", "console"}
ASSUME SpecAssumption == Specs # {} /\ Bootable \subseteq Specs
ASSUME NumberAssumption == Numbers \subseteq Nat \ {0}
ASSUME LimitAssumption == {MaxEdits, MaxFaults, MaxCrashes, MaxTotal} \subseteq Nat

VARIABLES
    kind,                          \* the kind of the resource
    cr, cache, synced,             \* API server and informer
    queued, timer,                 \* work queue, key to be added after a delay
    release, before, deployed,     \* Helm: last revision, values of the one before and
                                   \* of the last one that was deployed
    applied, rolling, service,     \* what is in the cluster, pods being replaced, the
                                   \* Service of a peer
    pc, obj, objFresh,             \* the worker and its copy of the resource
    pending, config, state, error, \* an upgrade was found unfinished, values to upgrade
                                   \* to, status found, error to be reported
    unread,                        \* history: certificates could not be read
    skipped,                       \* history: rolled back and not upgraded since
    leftover,                      \* history: a failed removal was passed over
    repeated,                      \* history: the last pass reported the error that was
                                   \* there already
    edits, faults, crashes         \* what the bounds bound

crVars == <<cr, cache, synced>>
queueVars == <<queued, timer>>
helmVars == <<release, before, deployed>>
clusterVars == <<applied, rolling>>
copyVars == <<obj, objFresh>>
passVars == <<pending, config, state, error>>
historyVars == <<unread, skipped, leftover, repeated>>
envVars == <<edits, faults, crashes>>
vars == <<kind, crVars, queueVars, helmVars, clusterVars, service, pc, copyVars, passVars,
          historyVars, envVars>>

\* The calls whose errors a kind reports in the status; any other error is returned, and
\* the key added again.
Reported == [peer    |-> {"update", "service", "live", "enroll", "busy", "upgrade", "state",
                          "install", "conflict"},
             orderer |-> {"live", "busy", "upgrade", "install", "conflict"},
             console |-> {"update", "helm", "busy", "upgrade", "state", "install", "conflict"}]
Errors == (UNION {Reported[k] : k \in DOMAIN Reported}) \cup {"", "patch"}

Revision == [status : {"deployed", "failed", "pending-install", "pending-upgrade",
                       "pending-rollback"}, values : Values]
ASSUME NoneAssumption == None \notin Values \cup Revision
Pending(r) == r.status \in {"pending-install", "pending-upgrade", "pending-rollback"}

\* The Secrets with the certificates are there.
Certified == applied # None /\ applied.cert # 0

\* reason is that of the condition Failed.
Object == [spec : Specs, status : {"", "Pending", "Running", "Failed"}, message : Errors,
           reason : Errors, cert : Numbers \cup {0},
           phase : {"new", "managed", "deleting", "gone"}]

Labels == {"idle", "adopt", "unserve", "uninstall", "release", "helm", "rollback", "service",
           "read", "config", "upgrade", "upgrading", "state", "status", "install",
           "installing", "installed", "failed", "report"}

Blank(s) == [spec |-> s, status |-> "", message |-> "", reason |-> "", cert |-> 0,
             phase |-> "new"]

Init ==
    /\ kind \in Kinds
    /\ \E s \in Specs : cr = Blank(s)
    /\ cache = cr /\ synced = TRUE /\ queued = TRUE /\ timer = FALSE
    /\ release = None /\ before = None /\ deployed = None
    /\ applied = None /\ rolling = FALSE /\ service = FALSE
    /\ pc = "idle" /\ obj = cr /\ objFresh = FALSE
    /\ pending = FALSE /\ config = None /\ state = "Pending" /\ error = ""
    /\ unread = FALSE /\ skipped = FALSE /\ leftover = FALSE /\ repeated = FALSE
    /\ edits = 0 /\ faults = 0 /\ crashes = 0

-----------------------------------------------------------------------------
(* Users, the cluster and the manager around the reconciler.               *)

WithinTotal == edits + faults + crashes < MaxTotal

Edits == WithinTotal /\ edits < MaxEdits /\ edits' = edits + 1 /\ UNCHANGED <<faults, crashes>>

\* A user changes the spec or deletes the resource.
Edit ==
    /\ Edits
    /\ \/ cr.phase # "gone" /\ \E s \in Specs \ {cr.spec} : cr' = [cr EXCEPT !.spec = s]
       \/ cr.phase = "new" /\ cr' = [cr EXCEPT !.phase = "gone"]
       \/ cr.phase = "managed" /\ cr' = [cr EXCEPT !.phase = "deleting"]
    /\ synced' = FALSE /\ objFresh' = FALSE
    /\ UNCHANGED <<kind, cache, queueVars, helmVars, clusterVars, service, pc, obj, passVars,
                   historyVars>>

\* A user deletes the Secrets with the certificates, or the Service of a peer.
LoseSecrets ==
    /\ Edits /\ applied # None /\ applied.cert # 0 /\ applied' = [applied EXCEPT !.cert = 0]
    /\ UNCHANGED <<kind, crVars, queueVars, helmVars, rolling, service, pc, copyVars, passVars,
                   historyVars>>
LoseService ==
    /\ Edits /\ service /\ service' = FALSE
    /\ UNCHANGED <<kind, crVars, queueVars, helmVars, clusterVars, pc, copyVars, passVars,
                   historyVars>>

\* The informer delivers the last version.
CacheSync ==
    /\ ~synced /\ synced' = TRUE /\ cache' = cr /\ queued' = TRUE
    /\ UNCHANGED <<kind, cr, timer, helmVars, clusterVars, service, pc, copyVars, passVars,
                   historyVars, envVars>>

\* The delay of a key is over, seconds or an hour: longer than the informer and a pass
\* that was asked for in between take.
Timer ==
    /\ timer /\ synced /\ ~queued /\ pc = "idle" /\ timer' = FALSE /\ queued' = TRUE
    /\ UNCHANGED <<kind, crVars, helmVars, clusterVars, service, pc, copyVars, passVars,
                   historyVars, envVars>>

\* The Deployment is owned by the release, not by the resource: its events queue nothing.
RolloutDone ==
    /\ rolling /\ kind # "console" => Certified
    /\ rolling' = FALSE
    /\ UNCHANGED <<kind, crVars, queueVars, helmVars, applied, service, pc, copyVars, passVars,
                   historyVars, envVars>>

NoPass == pending' = FALSE /\ config' = None /\ state' = "Pending" /\ error' = ""

\* What Helm installs, upgrades to or rolls back to; it may have come to it or not.
Applied(v) == applied' = v /\ rolling' = (rolling \/ applied # v)
MaybeApplied(v) == Applied(v) \/ UNCHANGED clusterVars

\* The operator dies, in the middle of what Helm does for it if need be, and another
\* instance starts, which lists everything.
Crash ==
    /\ WithinTotal /\ crashes < MaxCrashes /\ crashes' = crashes + 1
    /\ cache' = cr /\ synced' = TRUE /\ queued' = (cr.phase # "gone") /\ timer' = FALSE
    /\ pc' = "idle" /\ objFresh' = FALSE /\ NoPass
    /\ IF pc \in {"installing", "upgrading", "rollback"} THEN MaybeApplied(release.values)
       ELSE UNCHANGED clusterVars
    /\ UNCHANGED <<kind, cr, helmVars, service, obj, historyVars, edits, faults>>

-----------------------------------------------------------------------------
(* The steps of one reconcile.                                             *)

Fault(call) == /\ call \in Faulty /\ WithinTotal /\ faults < MaxFaults
               /\ faults' = faults + 1 /\ UNCHANGED <<edits, crashes>>
NoFault == UNCHANGED envVars

\* The API server stores o; an equal object makes no new version.
Store(o) == /\ cr' = o /\ synced' = (synced /\ o = cr) /\ UNCHANGED cache

\* Reconcile returns; with an error the key is added again at once, or else after a delay.
Return(retry, delay) ==
    /\ pc' = "idle" /\ queued' = (queued \/ retry) /\ timer' = (timer \/ delay)
    /\ objFresh' = FALSE /\ NoPass /\ UNCHANGED obj

Goto(l) == pc' = l /\ UNCHANGED <<queueVars, copyVars>>
Step(l) == Goto(l) /\ UNCHANGED passVars

\* An error ends the pass: it is reported or returned.
Fail(e) ==
    IF e \in Reported[kind]
    THEN Goto("failed") /\ error' = e /\ UNCHANGED <<pending, config, state>>
    ELSE Return(TRUE, FALSE)

\* A write of the worker's copy, to the version it was made from.
Fresh == objFresh /\ NoFault
Refused(call) == \/ ~objFresh /\ NoFault
                 \/ Fault(call)

\* r.Get from the cache; only a resource that is not gone is worked on.
Begin ==
    /\ pc = "idle" /\ queued /\ queued' = FALSE /\ NoFault
    /\ IF cache.phase = "gone"
       THEN UNCHANGED <<pc, copyVars>>
       ELSE /\ obj' = cache /\ objFresh' = synced
            /\ pc' = CASE cache.phase = "new" -> "adopt"
                       [] cache.phase = "deleting" ->
                              (IF kind = "peer" THEN "unserve" ELSE "uninstall")
                       [] OTHER -> "helm"
    /\ UNCHANGED <<kind, crVars, timer, helmVars, clusterVars, service, passVars, historyVars>>

\* addFinalizer.
Adopt ==
    /\ pc = "adopt"
    /\ \/ /\ Fresh /\ Store([cr EXCEPT !.phase = "managed"])
          /\ obj' = cr' /\ pc' = "helm" /\ UNCHANGED <<queueVars, objFresh, passVars>>
       \/ Refused("update") /\ Fail("update") /\ UNCHANGED crVars
    /\ UNCHANGED <<kind, helmVars, clusterVars, service, historyVars>>

\* finalizePeer and finalizeOrderer: the Service of a peer, then the release; whatever
\* fails is passed over.
Unserve ==
    /\ pc = "unserve" /\ Step("uninstall")
    /\ \/ NoFault /\ service' = FALSE /\ UNCHANGED leftover
       \/ Fault("uninstall") /\ leftover' = TRUE /\ UNCHANGED service
    /\ UNCHANGED <<kind, crVars, helmVars, clusterVars, unread, skipped, repeated>>

Uninstall ==
    /\ pc = "uninstall" /\ Step("release")
    /\ \/ /\ NoFault /\ release' = None /\ before' = None /\ deployed' = None
          /\ applied' = None /\ rolling' = FALSE /\ UNCHANGED leftover
       \/ Fault("uninstall") /\ leftover' = TRUE /\ UNCHANGED <<helmVars, clusterVars>>
    /\ UNCHANGED <<kind, crVars, service, unread, skipped, repeated>>

\* Mutant of Release: the finalizer is removed whatever version of the resource there is,
\* with what was removed left to a pass that does not come.
ReleaseFirst ==
    /\ pc \in {"unserve", "uninstall"} /\ NoFault
    /\ Store([cr EXCEPT !.phase = "gone"]) /\ Return(FALSE, FALSE)
    /\ UNCHANGED <<kind, helmVars, clusterVars, service, historyVars>>

\* The finalizer is removed: the resource is gone.
Release ==
    /\ pc = "release"
    /\ \/ Fresh /\ Store([cr EXCEPT !.phase = "gone"]) /\ Return(FALSE, FALSE)
       \/ Refused("update") /\ Fail("update") /\ UNCHANGED crVars
    /\ UNCHANGED <<kind, helmVars, clusterVars, service, historyVars>>

\* Helm starts on a new revision.
Revise(status, v) ==
    /\ release' = [status |-> status, values |-> v]
    /\ before' = IF release = None THEN None ELSE release.values
    /\ UNCHANGED deployed

\* What follows for a release that is there, or for one that is not.
Continue(exists) == CASE kind = "peer" -> "service"
                      [] kind = "orderer" /\ exists -> "read"
                      [] OTHER -> "config"

\* Mutant of CheckRelease: an install that was not finished is rolled back as well, to a
\* revision there never was.
RollbackInstall ==
    /\ pc = "helm" /\ NoFault
    /\ LET s == IF release = None \/ kind = "console" THEN "" ELSE release.status IN
       \/ /\ s \in {"pending-upgrade", "pending-install"}
          /\ Revise("pending-rollback", before)
          /\ Goto("rollback") /\ pending' = TRUE /\ UNCHANGED <<config, state, error>>
       \/ /\ s \notin {"pending-upgrade", "pending-install"}
          /\ Step(Continue(release # None)) /\ UNCHANGED helmVars
    /\ UNCHANGED <<kind, crVars, clusterVars, service, historyVars>>

\* For nodes, an upgrade that was not finished is rolled back to the revision before, a
\* rollback to the last one deployed, if there is one.
CheckRelease ==
    /\ pc = "helm"
    /\ LET s == IF release = None \/ kind = "console" THEN "" ELSE release.status IN
       \/ /\ NoFault /\ s = "pending-upgrade"
          /\ Revise("pending-rollback", before)
          /\ Goto("rollback") /\ pending' = TRUE /\ UNCHANGED <<config, state, error>>
       \/ /\ NoFault /\ s = "pending-rollback" /\ deployed # None
          /\ Revise("pending-rollback", deployed) /\ Step("rollback")
       \/ /\ NoFault
          /\ s # "pending-upgrade" /\ (s = "pending-rollback" => deployed = None)
          /\ Step(Continue(release # None)) /\ UNCHANGED helmVars
       \/ Fault("helm") /\ Fail("helm") /\ UNCHANGED helmVars
    /\ UNCHANGED <<kind, crVars, clusterVars, service, historyVars>>

Finished(status) == /\ release' = [release EXCEPT !.status = status]
                    /\ deployed' = IF status = "deployed" THEN release.values ELSE deployed
                    /\ UNCHANGED before

Rollback ==
    /\ pc = "rollback" /\ skipped' = TRUE
    /\ \/ NoFault /\ Finished("deployed") /\ Applied(release.values) /\ Step(Continue(TRUE))
       \/ /\ Fault("rollback") /\ Finished("failed") /\ MaybeApplied(release.values)
          /\ Fail("rollback")
    /\ UNCHANGED <<kind, crVars, service, unread, leftover, repeated>>

\* createPeerService creates the Service or updates it.
ApplyService ==
    /\ pc = "service"
    /\ \/ /\ NoFault /\ service' = TRUE /\ Step(IF release = None THEN "config" ELSE "read")
       \/ Fault("service") /\ Fail("service") /\ service' \in {service, TRUE}
    /\ UNCHANGED <<kind, crVars, helmVars, clusterVars, historyVars>>

\* The resource is read from the API server and the TLS certificate from its Secret: for
\* what may have to be renewed.  An orderer that was rolled back is not upgraded.
ReadCertificate ==
    /\ pc = "read"
    /\ \/ /\ NoFault /\ Certified
          /\ Step(IF pending /\ kind = "orderer" THEN "state" ELSE "config")
       \/ NoFault /\ ~Certified /\ Fail("read")
       \/ Fault("live") /\ Fail("live")
       \/ Fault("read") /\ Fail("read")
    /\ UNCHANGED <<kind, crVars, helmVars, clusterVars, service, historyVars>>

\* The certificates that are to be found anywhere, and a number for one that is made.
InUse == {applied, before, deployed, config, IF release = None THEN None ELSE release.values}
             \ {None}
Unused == Numbers \ ({v.cert : v \in InUse} \cup {cr.cert, cache.cert, obj.cert})
NewNumber == {n \in Unused : \A m \in Unused : n <= m}

AfterConfig == Goto(IF release = None THEN "install" ELSE "upgrade")
Configure(n) == config' = [spec |-> obj.spec, cert |-> n] /\ UNCHANGED <<pending, state, error>>

\* Mutant of GetConfig: every pass enrols.
GetConfigEnrols ==
    /\ pc = "config" /\ NoFault /\ AfterConfig
    /\ IF kind = "console" THEN Configure(0) ELSE \E n \in NewNumber : Configure(n)
    /\ UNCHANGED <<kind, crVars, helmVars, clusterVars, service, historyVars>>

\* GetConfig: certificates that can be read are used again; any error leads to an
\* enrollment.
GetConfig ==
    /\ pc = "config"
    /\ \/ /\ kind = "console" /\ NoFault /\ AfterConfig /\ Configure(0) /\ UNCHANGED unread
       \/ /\ kind # "console" /\ Certified /\ NoFault
          /\ AfterConfig /\ Configure(applied.cert) /\ UNCHANGED unread
       \/ /\ kind # "console"
          /\ \/ Certified /\ Fault("read") /\ unread' = TRUE
             \/ ~Certified /\ NoFault /\ unread' = (unread \/ release # None)
          /\ AfterConfig /\ \E n \in NewNumber : Configure(n)
       \/ kind # "console" /\ ~Certified /\ Fault("enroll") /\ Fail("enroll") /\ UNCHANGED unread
    /\ UNCHANGED <<kind, crVars, helmVars, clusterVars, service, skipped, leftover, repeated>>

\* The release is installed, that of an orderer with a genesis block only: it looks again
\* after two seconds.
StartInstall ==
    /\ pc = "install" /\ NoFault
    /\ \/ /\ kind = "orderer" /\ obj.spec \notin Bootable
          /\ Return(FALSE, TRUE) /\ UNCHANGED helmVars
       \/ /\ kind = "orderer" => obj.spec \in Bootable
          /\ Revise("pending-install", config) /\ Step("installing")
    /\ UNCHANGED <<kind, crVars, clusterVars, service, historyVars>>

FinishInstall ==
    /\ pc = "installing"
    /\ \/ NoFault /\ Finished("deployed") /\ Applied(release.values) /\ Step("installed")
       \/ /\ Fault("install") /\ Finished("failed") /\ MaybeApplied(release.values)
          /\ Fail("install")
    /\ UNCHANGED <<kind, crVars, service, historyVars>>

\* The status becomes Pending: that of the worker's copy (console), or of the resource as
\* the cache has it by now (peer).  An orderer's copy is read again after the change,
\* which is lost.
Installed ==
    /\ pc = "installed"
    /\ LET fresh == IF kind = "console" THEN objFresh ELSE synced IN
       \/ /\ fresh /\ NoFault /\ Return(FALSE, TRUE)
          /\ Store([cr EXCEPT !.status = IF kind = "orderer" THEN @ ELSE "Pending"])
       \/ /\ (~fresh /\ NoFault) \/ Fault("status")
          /\ UNCHANGED crVars
          /\ IF kind = "orderer" THEN Return(TRUE, FALSE)
             ELSE /\ pc' = "failed" /\ error' = "conflict"
                  /\ obj' = [(IF kind = "peer" THEN cache ELSE obj) EXCEPT !.status = "Pending"]
                  /\ objFresh' = fresh /\ UNCHANGED <<queueVars, pending, config, state>>
    /\ UNCHANGED <<kind, helmVars, clusterVars, service, historyVars>>

\* The release is upgraded, unless it has just been rolled back (peer); Helm refuses to
\* while another revision is pending.
StartUpgrade ==
    /\ pc = "upgrade" /\ NoFault
    /\ \/ pending /\ Step("state") /\ UNCHANGED helmVars
       \/ ~pending /\ Pending(release) /\ Fail("busy") /\ UNCHANGED helmVars
       \/ ~pending /\ ~Pending(release) /\ Revise("pending-upgrade", config) /\ Step("upgrading")
    /\ UNCHANGED <<kind, crVars, clusterVars, service, historyVars>>

\* Mutant of FinishUpgrade: a failed upgrade is passed over.
UpgradeUnheard ==
    /\ pc = "upgrading"
    /\ \/ NoFault /\ Finished("deployed") /\ Applied(release.values) /\ skipped' = FALSE
       \/ /\ Fault("upgrade") /\ Finished("failed") /\ MaybeApplied(release.values)
          /\ UNCHANGED skipped
    /\ Step("state")
    /\ UNCHANGED <<kind, crVars, service, unread, leftover, repeated>>

FinishUpgrade ==
    /\ pc = "upgrading"
    /\ \/ /\ NoFault /\ Finished("deployed") /\ Applied(release.values) /\ Step("state")
          /\ skipped' = FALSE
       \/ /\ Fault("upgrade") /\ Finished("failed") /\ MaybeApplied(release.values)
          /\ Fail("upgrade") /\ UNCHANGED skipped
    /\ UNCHANGED <<kind, crVars, service, unread, leftover, repeated>>

\* GetPeerState, GetOrdererState, GetConsoleState.  While pods are replaced the state may
\* be that of an old or of a new one.
ReadState ==
    /\ pc = "state"
    /\ LET there == kind # "console" => Certified IN
       \/ /\ NoFault /\ there /\ Goto("status")
          /\ state' \in (IF rolling THEN {"Pending", "Running"} ELSE {"Running"})
          /\ UNCHANGED <<pending, config, error>>
       \/ NoFault /\ ~there /\ Fail("state")
       \/ Fault("state") /\ Fail("state")
    /\ UNCHANGED <<kind, crVars, helmVars, clusterVars, service, historyVars>>

\* The status is written if it is news.  A node is looked at again after a while, a
\* console only if it does not run.
UpdateStatus ==
    /\ pc = "status"
    /\ LET new == [obj EXCEPT !.status = state, !.message = IF kind = "console" THEN @ ELSE "",
                              !.cert = IF kind = "console" THEN 0 ELSE applied.cert]
           again == kind # "console" \/ state # "Running"
       IN  \/ new = obj /\ NoFault /\ Return(FALSE, again) /\ UNCHANGED crVars
           \/ new # obj /\ Fresh /\ Store(new) /\ Return(FALSE, again)
           \/ new # obj /\ Refused("status") /\ Fail("conflict") /\ UNCHANGED crVars
    /\ repeated' = FALSE
    /\ UNCHANGED <<kind, helmVars, clusterVars, service, unread, skipped, leftover>>

-----------------------------------------------------------------------------
(* setConditionStatus and updateCRStatusOrFailReconcile of a failure.      *)

\* A status that is not Failed yet is patched, whatever version there is; the answer of
\* the patch takes the place of the error.
Mark ==
    /\ pc = "failed" /\ pc' = "report" /\ UNCHANGED <<queueVars, passVars>>
    /\ \/ /\ obj.status = "Failed" /\ NoFault
          /\ obj' = [obj EXCEPT !.message = error, !.reason = error]
          /\ UNCHANGED <<crVars, objFresh>>
       \/ /\ obj.status # "Failed" /\ NoFault /\ Store([cr EXCEPT !.status = "Failed"])
          /\ obj' = [cr' EXCEPT !.reason = ""] /\ objFresh' = TRUE
       \/ /\ obj.status # "Failed" /\ Fault("patch")
          /\ obj' = [obj EXCEPT !.status = "Failed", !.message = "patch", !.reason = "patch"]
          /\ UNCHANGED <<crVars, objFresh>>
    /\ UNCHANGED <<kind, helmVars, clusterVars, service, historyVars>>

\* Mutant of Report: a peer is not looked at again, either.
ReportOnce ==
    /\ pc = "report" /\ Fresh /\ Return(FALSE, FALSE)
    /\ Store([cr EXCEPT !.status = obj.status, !.message = obj.message, !.reason = obj.reason])
    /\ UNCHANGED <<kind, helmVars, clusterVars, service, historyVars>>

\* A peer is looked at again a minute later; an orderer or a console only if this write
\* changes something, or fails.
Report ==
    /\ pc = "report"
    /\ \/ /\ Fresh /\ Return(FALSE, kind = "peer")
          /\ Store([cr EXCEPT !.status = obj.status, !.message = obj.message,
                              !.reason = obj.reason])
          /\ repeated' = (cr' = cr /\ kind # "peer")
       \/ Refused("status") /\ Return(TRUE, FALSE) /\ UNCHANGED <<crVars, repeated>>
    /\ UNCHANGED <<kind, helmVars, clusterVars, service, unread, skipped, leftover>>

Reconcile ==
    \/ Begin \/ Adopt \/ Unserve \/ Uninstall \/ Release \/ CheckRelease \/ Rollback
    \/ ApplyService \/ ReadCertificate \/ GetConfig \/ StartInstall \/ FinishInstall
    \/ Installed \/ StartUpgrade \/ FinishUpgrade \/ ReadState \/ UpdateStatus \/ Mark
    \/ Report

Next == \/ Edit \/ LoseSecrets \/ LoseService \/ CacheSync \/ Timer \/ RolloutDone \/ Crash
        \/ Reconcile

Spec == Init /\ [][Next]_vars

\* The manager keeps the worker running and the informer delivering, delays end, and
\* Kubernetes finishes rollouts.
FairSpec == /\ Spec /\ WF_vars(Reconcile) /\ WF_vars(CacheSync) /\ WF_vars(Timer)
            /\ WF_vars(RolloutDone)
-----------------------------------------------------------------------------
(* What must hold.                                                         *)

TypeOK ==
    /\ kind \in Kinds /\ {cr, cache, obj} \subseteq Object
    /\ {synced, queued, timer, rolling, service, objFresh, pending} \subseteq BOOLEAN
    /\ {unread, skipped, leftover, repeated} \subseteq BOOLEAN
    /\ release \in Revision \cup {None}
    /\ {before, deployed, applied, config} \subseteq Values \cup {None}
    /\ pc \in Labels /\ state \in {"Pending", "Running"} /\ error \in Errors
    /\ {edits, faults, crashes} \subseteq Nat

\* A resource that is gone has left no release and no Service behind, however its
\* removal was interrupted, unless a failed removal was passed over (finalizePeer,
\* finalizeOrderer).
NothingLeftBehind ==
    cr.phase = "gone" /\ ~leftover => release = None /\ applied = None /\ ~service

\* Everything has been delivered and worked off; what comes next is a delay that ends.
Quiet == pc = "idle" /\ ~queued /\ synced

\* Then Running means that what the spec asks for is in the cluster, and the certificate
\* in the status is the one in use: an edit during a pass, a conflict or a failed upgrade
\* never leaves an older Running behind.  Only a release that was rolled back for an
\* upgrade that had not been finished is Running with the values before (Reconcile).
RunningMeansDeployed ==
    Quiet /\ cr.phase = "managed" /\ cr.status = "Running" /\ ~skipped =>
        /\ applied # None /\ applied.spec = cr.spec
        /\ applied.cert # 0 => cr.cert = applied.cert

\* As long as it can be read, a node keeps its certificate, which the channels of an
\* orderer know it by: no edit, no failed upgrade and no rollback replaces it (GetConfig).
CertificateKept ==
    [][applied # None /\ applied' # None /\ ~unread /\ 0 \notin {applied.cert, applied'.cert}
           => applied'.cert = applied.cert]_vars

\* What the operator cannot get out of again by itself: certificates that are gone while
\* there is a release; a revision nothing rolls back, an unfinished install or any of a
\* console; an error that is reported twice, which no event retries; and an orderer
\* without a genesis block.
Stuck ==
    \/ kind # "console" /\ release # None /\ ~Certified
    \/ /\ release # None /\ Pending(release)
       /\ kind = "console" \/ deployed = None
    \/ repeated
    \/ kind = "orderer" /\ release = None /\ cr.spec \notin Bootable

\* In the end, the release is what the spec says and the status is Running, for a node
\* without an error, whatever failed and wherever the operator died (Reconcile).
Converges ==
    <>[](cr.phase \in {"new", "managed"} /\ ~Stuck
             => /\ applied # None /\ applied.spec = cr.spec
                /\ cr.status = "Running" /\ cr.cert = applied.cert
                /\ kind # "console" => cr.message = ""
                /\ kind = "peer" => service)
===============================================================================
