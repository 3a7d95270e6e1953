------------------------- MODULE CertificateAuthority -------------------------
(***************************************************************************)
(* A certificate authority (controllers/ca/ca_controller.go): one FabricCA *)
(* and the Helm release installed for it, whose chart makes the Deployment *)
(* and the Secrets with the certificates of the CA.  Each pass reads the   *)
(* certificates back from the Secrets, makes what it cannot read, and      *)
(* upgrades the release with them.  CAs share nothing; one stands for all. *)
(*                                                                         *)
(* The root of the signing CA stands for that of the TLS CA as well, which *)
(* is treated alike.  Helm is external: of its history there are the last  *)
(* revision, the one before and the last one that was deployed.            *)
(***************************************************************************)
EXTENDS Integers

CONSTANTS
    Hosts,         \* the host names the spec may give the TLS certificate; of its IP
                   \* addresses a change is not noticed, they are left out
    First,         \* what it says at first
    Numbers,       \* bound: numbers to tell certificates in use apart
    None,          \* no release, no Secrets
    Faulty,        \* the calls that may fail
    MaxEdits,      \* bound: changes by users
    MaxFaults,     \* bound: failed calls
    MaxCrashes,    \* bound: restarts of the operator
    MaxTotal       \* bound: all of these together

\* The certificates of a CA: the TLS certificate, by number, with the hosts it is made
\* for, and the root, by number.
Crypto == [hosts : Hosts, tls : Numbers, root : Numbers]

ASSUME HostAssumption == First \in Hosts
ASSUME NumberAssumption == Numbers \subseteq Nat
ASSUME LimitAssumption == {MaxEdits, MaxFaults, MaxCrashes, MaxTotal} \subseteq Nat

VARIABLES
    cr, cache, synced, queued,     \* API server, informer and work queue
    release, before, deployed,     \* Helm: last revision, certificates in the one before
                                   \* and in the last one that was deployed
    secrets,                       \* certificates in the cluster
    rolling,                       \* pods are being replaced
    pc, obj, objFresh,             \* the worker and its copy of the resource
    state, pending, config,        \* what it found, whether it found an upgrade that was
                                   \* not finished, the certificates to upgrade with
    error,                         \* the error to be reported
    unread,                        \* history: a pass could not read the root
    repeated,                      \* history: the last pass reported the error that was
                                   \* there already
    edits, faults, crashes         \* what the bounds bound

crVars == <<cr, cache, synced>>
helmVars == <<release, before, deployed>>
clusterVars == <<secrets, rolling>>
copyVars == <<obj, objFresh>>
passVars == <<state, pending, config, error>>
historyVars == <<unread, repeated>>
envVars == <<edits, faults, crashes>>
vars == <<crVars, queued, helmVars, clusterVars, pc, copyVars, passVars, historyVars, envVars>>

Errors == {"", "busy", "install", "upgrade"}
Revision == [status : {"deployed", "failed", "pending-install", "pending-upgrade",
                       "pending-rollback"}, crypto : Crypto]
ASSUME NoneAssumption == None \notin Crypto \cup Revision
Pending(r) == r.status \in {"pending-install", "pending-upgrade", "pending-rollback"}

Object == [hosts : Hosts, status : {"", "Pending", "Running", "Failed"}, error : Errors,
           certs : Crypto \cup {None}, phase : {"new", "managed", "deleting", "gone"}]

\* GetCAState: the state of the pods and the certificates to be shown in the status.
State == [status : {"Pending", "Running"}, certs : Crypto \cup {None}]

Labels == {"idle", "adopt", "uninstall", "release", "helm", "rollback", "state", "config",
           "install", "installing", "installed", "upgrade", "upgrading", "failed", "status"}

Blank == [hosts |-> First, status |-> "", error |-> "", certs |-> None, phase |-> "new"]
NoState == [status |-> "Pending", certs |-> None]

Init ==
    /\ cr = Blank /\ cache = cr /\ synced = TRUE /\ queued = TRUE
    /\ release = None /\ before = None /\ deployed = None
    /\ secrets = None /\ rolling = FALSE
    /\ unread = FALSE /\ repeated = FALSE
    /\ pc = "idle" /\ obj = Blank /\ objFresh = FALSE
    /\ state = NoState /\ pending = FALSE /\ config = None /\ error = ""
    /\ edits = 0 /\ faults = 0 /\ crashes = 0

-----------------------------------------------------------------------------
(* Users, the cluster and the manager around the reconciler.               *)

WithinTotal == edits + faults + crashes < MaxTotal

Edits == WithinTotal /\ edits < MaxEdits /\ edits' = edits + 1 /\ UNCHANGED <<faults, crashes>>

\* A user changes the hosts or deletes the CA.
Edit ==
    /\ Edits
    /\ \/ cr.phase # "gone" /\ \E h \in Hosts \ {cr.hosts} : cr' = [cr EXCEPT !.hosts = h]
       \/ cr.phase = "new" /\ cr' = [cr EXCEPT !.phase = "gone"]
       \/ cr.phase = "managed" /\ cr' = [cr EXCEPT !.phase = "deleting"]
    /\ synced' = FALSE /\ objFresh' = FALSE
    /\ UNCHANGED <<cache, queued, helmVars, clusterVars, pc, obj, passVars, historyVars>>

\* A user deletes the Secrets.
LoseSecrets ==
    /\ Edits /\ secrets # None /\ secrets' = None
    /\ UNCHANGED <<crVars, queued, helmVars, rolling, pc, copyVars, passVars, historyVars>>

\* The informer delivers the last version.
CacheSync == /\ ~synced /\ synced' = TRUE /\ cache' = cr /\ queued' = TRUE
             /\ UNCHANGED <<cr, helmVars, clusterVars, pc, copyVars, passVars, historyVars,
                            envVars>>

RolloutDone ==
    /\ rolling /\ secrets # None /\ rolling' = FALSE
    /\ UNCHANGED <<crVars, queued, helmVars, secrets, pc, copyVars, passVars, historyVars,
                   envVars>>

NoPass == state' = NoState /\ pending' = FALSE /\ config' = None /\ error' = ""

\* What Helm installs, upgrades to or rolls back to; it may have come to it or not.
Applied(c) == /\ secrets' = c /\ rolling' = (rolling \/ secrets # c)
MaybeApplied(c) == Applied(c) \/ UNCHANGED clusterVars

\* The operator dies, in the middle of what Helm does for it if need be, and another
\* instance starts, which lists everything.
Crash ==
    /\ WithinTotal /\ crashes < MaxCrashes /\ crashes' = crashes + 1
    /\ cache' = cr /\ synced' = TRUE /\ queued' = (cr.phase # "gone")
    /\ pc' = "idle" /\ obj' = Blank /\ objFresh' = FALSE /\ NoPass
    /\ IF pc \in {"installing", "upgrading", "rollback"} THEN MaybeApplied(release.crypto)
       ELSE UNCHANGED clusterVars
    /\ UNCHANGED <<cr, helmVars, historyVars, edits, faults>>

-----------------------------------------------------------------------------
(* The steps of one reconcile.                                             *)

Fault(call) == /\ call \in Faulty /\ WithinTotal /\ faults < MaxFaults
               /\ faults' = faults + 1 /\ UNCHANGED <<edits, crashes>>
NoFault == UNCHANGED envVars

\* The API server stores o; an equal object makes no new version.
Store(o) == /\ cr' = o /\ synced' = (synced /\ o = cr) /\ UNCHANGED cache

\* Reconcile returns; with an error or a delay the key is added again.
Return(requeue) ==
    /\ pc' = "idle" /\ queued' = (queued \/ requeue)
    /\ obj' = Blank /\ objFresh' = FALSE /\ NoPass

Goto(l) == pc' = l /\ UNCHANGED <<queued, copyVars>>

\* A write of the worker's copy, to the version it was made from.
Fresh == objFresh /\ NoFault
Refused(call) == \/ ~objFresh /\ NoFault
                 \/ Fault(call)

\* r.Get from the cache; only a resource that is not gone is worked on.
Begin ==
    /\ pc = "idle" /\ queued /\ queued' = FALSE /\ NoFault
    /\ IF cache.phase = "gone"
       THEN UNCHANGED <<pc, copyVars>>
       ELSE /\ obj' = cache /\ objFresh' = synced
            /\ pc' = CASE cache.phase = "new" -> "adopt"
                       [] cache.phase = "deleting" -> "uninstall"
                       [] OTHER -> "helm"
    /\ UNCHANGED <<crVars, helmVars, clusterVars, passVars, historyVars>>

\* addFinalizer.
Adopt ==
    /\ pc = "adopt"
    /\ \/ /\ Fresh /\ Store([cr EXCEPT !.phase = "managed"])
          /\ obj' = cr' /\ pc' = "helm" /\ UNCHANGED <<queued, objFresh, passVars>>
       \/ Refused("update") /\ Return(TRUE) /\ UNCHANGED crVars
    /\ UNCHANGED <<helmVars, clusterVars, historyVars>>

\* finalizeCA: any error but "Release not loaded" is taken for a success.
Uninstall ==
    /\ pc = "uninstall" /\ Goto("release")
    /\ \/ /\ NoFault /\ release' = None /\ before' = None /\ deployed' = None
          /\ secrets' = None /\ rolling' = FALSE
       \/ Fault("uninstall") /\ UNCHANGED <<helmVars, clusterVars>>
    /\ UNCHANGED <<crVars, passVars, historyVars>>

\* The finalizer is removed: the resource is gone.
Release ==
    /\ pc = "release"
    /\ \/ Fresh /\ Store([cr EXCEPT !.phase = "gone"]) /\ Return(FALSE)
       \/ Refused("update") /\ Return(TRUE) /\ UNCHANGED crVars
    /\ UNCHANGED <<helmVars, clusterVars, historyVars>>

\* Helm starts on a new revision.
Revise(status, c) ==
    /\ release' = [status |-> status, crypto |-> c]
    /\ before' = IF release = None THEN None ELSE release.crypto
    /\ UNCHANGED deployed

\* Mutant of CheckRelease: a rollback that was not finished is rolled back to the last
\* deployed revision, whether there is one or not.
CheckNotDeployed ==
    /\ pc = "helm" /\ NoFault
    /\ LET s == IF release = None THEN "absent" ELSE release.status IN
       \/ /\ s = "pending-upgrade" /\ pending' = TRUE /\ Revise("pending-rollback", before)
          /\ Goto("rollback") /\ UNCHANGED <<state, config, error>>
       \/ /\ s = "pending-rollback" /\ Revise("pending-rollback", deployed)
          /\ Goto("rollback") /\ UNCHANGED passVars
       \/ /\ s \notin {"pending-upgrade", "pending-rollback"}
          /\ Goto(IF s = "absent" THEN "config" ELSE "state") /\ UNCHANGED <<helmVars, passVars>>
    /\ UNCHANGED <<crVars, clusterVars, historyVars>>

\* An upgrade that was not finished is rolled back to the revision before, a rollback to
\* the last one deployed, if there is one.
CheckRelease ==
    /\ pc = "helm"
    /\ LET s == IF release = None THEN "absent" ELSE release.status IN
       \/ /\ NoFault /\ s = "pending-upgrade"
          /\ pending' = TRUE /\ Revise("pending-rollback", before)
          /\ Goto("rollback") /\ UNCHANGED <<state, config, error>>
       \/ /\ NoFault /\ s = "pending-rollback" /\ deployed # None
          /\ Revise("pending-rollback", deployed)
          /\ Goto("rollback") /\ UNCHANGED passVars
       \/ /\ NoFault /\ s = "absent" /\ Goto("config") /\ UNCHANGED <<helmVars, passVars>>
       \/ /\ NoFault
          /\ \/ s \in {"deployed", "failed", "pending-install"}
             \/ s = "pending-rollback" /\ deployed = None
          /\ Goto("state") /\ UNCHANGED <<helmVars, passVars>>
       \/ Fault("helm") /\ Return(TRUE) /\ UNCHANGED helmVars
    /\ UNCHANGED <<crVars, clusterVars, historyVars>>

Finished(status) == /\ release' = [release EXCEPT !.status = status]
                    /\ deployed' = IF status = "deployed" THEN release.crypto ELSE deployed
                    /\ UNCHANGED before

Rollback ==
    /\ pc = "rollback"
    /\ \/ /\ NoFault /\ Finished("deployed") /\ Applied(release.crypto)
          /\ Goto("state") /\ UNCHANGED passVars
       \/ /\ Fault("rollback") /\ Finished("failed") /\ MaybeApplied(release.crypto)
          /\ Return(TRUE)
    /\ UNCHANGED <<crVars, historyVars>>

\* GetCAState, then r.Get once more.  While pods are replaced the state may be that of
\* an old or of a new one.  Without the Secrets the pass ends here.
ReadState ==
    /\ pc = "state"
    /\ \/ /\ NoFault /\ secrets # None /\ cache.phase # "gone"
          /\ \E s \in (IF rolling THEN {"Pending", "Running"} ELSE {"Running"}) :
                 state' = [status |-> s, certs |-> secrets]
          /\ obj' = cache /\ objFresh' = synced
          /\ pc' = IF pending THEN "status" ELSE "config"
          /\ UNCHANGED <<queued, pending, config, error>>
       \/ NoFault /\ secrets # None /\ cache.phase = "gone" /\ Return(FALSE)
       \/ NoFault /\ secrets = None /\ Return(TRUE)
       \/ Fault("state") /\ Return(TRUE)
    /\ UNCHANGED <<crVars, helmVars, clusterVars, historyVars>>

\* The certificates that are to be found anywhere, and a number for one that is made.
InUse == {secrets, before, deployed, config, cr.certs, cache.certs, obj.certs, state.certs,
          IF release = None THEN None ELSE release.crypto} \ {None}
Unused == Numbers \ UNION {{c.tls, c.root} : c \in InUse}
NewNumber == {n \in Unused : \A m \in Unused : n <= m}

\* Mutant of MakeConfig: new hosts make a new root as well.
MakeEverything(tlsRead, rootRead) ==
    \E n \in NewNumber :
        config' = IF tlsRead /\ rootRead /\ secrets.hosts = obj.hosts THEN secrets
                  ELSE [hosts |-> obj.hosts, tls |-> n, root |-> n]

\* GetConfig: what can be read is used again, except a TLS certificate made for other
\* hosts; anything that cannot be read is made.
MakeConfig(tlsRead, rootRead) ==
    \E n \in NewNumber :
        config' = [hosts |-> obj.hosts,
                   tls   |-> IF tlsRead /\ secrets.hosts = obj.hosts THEN secrets.tls ELSE n,
                   root  |-> IF rootRead THEN secrets.root ELSE n]

GetConfig ==
    /\ pc = "config"
    /\ Goto(IF release = None THEN "install" ELSE "upgrade")
    /\ \/ /\ NoFault /\ MakeConfig(secrets # None, secrets # None)
          /\ unread' = (unread \/ (release # None /\ secrets = None))
       \/ /\ secrets # None /\ Fault("read")
          /\ \/ MakeConfig(FALSE, TRUE) /\ UNCHANGED unread
             \/ MakeConfig(TRUE, FALSE) /\ unread' = TRUE
    /\ UNCHANGED <<crVars, helmVars, clusterVars, state, pending, error, repeated>>

Fail(e) == Goto("failed") /\ error' = e /\ UNCHANGED <<state, pending, config>>

\* The release is installed.
StartInstall ==
    /\ pc = "install" /\ NoFault /\ Revise("pending-install", config) /\ Goto("installing")
    /\ UNCHANGED <<crVars, clusterVars, passVars, historyVars>>

FinishInstall ==
    /\ pc = "installing"
    /\ \/ /\ NoFault /\ Finished("deployed") /\ Applied(release.crypto)
          /\ Goto("installed") /\ UNCHANGED passVars
       \/ /\ Fault("install") /\ Finished("failed") /\ MaybeApplied(release.crypto)
          /\ Fail("install")
    /\ UNCHANGED <<crVars, historyVars>>

Installed ==
    /\ pc = "installed" /\ Return(TRUE)
    /\ \/ Fresh /\ Store([cr EXCEPT !.status = "Pending"]) /\ repeated' = FALSE
       \/ Refused("status") /\ UNCHANGED <<crVars, repeated>>
    /\ UNCHANGED <<helmVars, clusterVars, unread>>

\* The release is upgraded; Helm refuses to while another revision is pending.
StartUpgrade ==
    /\ pc = "upgrade" /\ NoFault
    /\ \/ Pending(release) /\ Fail("busy") /\ UNCHANGED helmVars
       \/ /\ ~Pending(release) /\ Revise("pending-upgrade", config)
          /\ Goto("upgrading") /\ UNCHANGED passVars
    /\ UNCHANGED <<crVars, clusterVars, historyVars>>

FinishUpgrade ==
    /\ pc = "upgrading"
    /\ \/ /\ NoFault /\ Finished("deployed") /\ Applied(release.crypto)
          /\ Goto("status") /\ UNCHANGED passVars
       \/ /\ Fault("upgrade") /\ Finished("failed") /\ MaybeApplied(release.crypto)
          /\ Fail("upgrade")
    /\ UNCHANGED <<crVars, historyVars>>

\* setConditionStatus and updateCRStatusOrFailReconcile: no delay, and no retry but for
\* an error of this write.
ReportFailure ==
    /\ pc = "failed"
    /\ \/ /\ Fresh /\ Store([cr EXCEPT !.status = "Failed", !.error = error])
          /\ repeated' = (cr' = cr) /\ Return(FALSE)
       \/ Refused("status") /\ Return(TRUE) /\ UNCHANGED <<crVars, repeated>>
    /\ UNCHANGED <<helmVars, clusterVars, unread>>

\* Mutant of UpdateStatus: a CA that runs is not looked at again.
UpdateOnce ==
    /\ pc = "status" /\ Return(state.status # "Running")
    /\ LET new == [obj EXCEPT !.status = state.status, !.error = "", !.certs = state.certs] IN
       \/ new = obj /\ NoFault /\ UNCHANGED crVars
       \/ /\ new # obj /\ Fresh
          /\ Store([cr EXCEPT !.status = new.status, !.error = "", !.certs = new.certs])
    /\ repeated' = FALSE /\ UNCHANGED <<helmVars, clusterVars, unread>>

\* The state as found before the upgrade is written if it is news; in any case the key
\* is added again, after ten seconds or an hour.
UpdateStatus ==
    /\ pc = "status" /\ Return(TRUE)
    /\ LET new == [obj EXCEPT !.status = state.status, !.error = "", !.certs = state.certs] IN
       \/ new = obj /\ NoFault /\ repeated' = FALSE /\ UNCHANGED crVars
       \/ /\ new # obj /\ Fresh /\ repeated' = FALSE
          /\ Store([cr EXCEPT !.status = new.status, !.error = "", !.certs = new.certs])
       \/ new # obj /\ Refused("status") /\ UNCHANGED <<crVars, repeated>>
    /\ UNCHANGED <<helmVars, clusterVars, unread>>

Reconcile ==
    \/ Begin \/ Adopt \/ Uninstall \/ Release \/ CheckRelease \/ Rollback \/ ReadState
    \/ GetConfig \/ StartInstall \/ FinishInstall \/ Installed \/ StartUpgrade
    \/ FinishUpgrade \/ ReportFailure \/ UpdateStatus

Next == Edit \/ LoseSecrets \/ CacheSync \/ RolloutDone \/ Crash \/ Reconcile

Spec == Init /\ [][Next]_vars

\* The manager keeps the worker running and the informer delivering, Kubernetes finishes
\* rollouts.
FairSpec == Spec /\ WF_vars(Reconcile) /\ WF_vars(CacheSync) /\ WF_vars(RolloutDone)
-----------------------------------------------------------------------------
(* What must hold.                                                         *)

TypeOK ==
    /\ {cr, cache, obj} \subseteq Object
    /\ {synced, queued, rolling, objFresh, pending, unread, repeated} \subseteq BOOLEAN
    /\ release \in Revision \cup {None}
    /\ {before, deployed, secrets, config} \subseteq Crypto \cup {None}
    /\ pc \in Labels /\ state \in State /\ error \in Errors
    /\ {edits, faults, crashes} \subseteq Nat

\* As long as every pass can read the root, it stays what it is: no change of the hosts,
\* no failed or unfinished upgrade and no rollback replaces it (GetConfig, Reconcile).
RootSurvives == [][secrets # None /\ secrets' # None /\ ~unread
                   => secrets'.root = secrets.root]_vars

\* What the operator cannot get out of again by itself: Secrets that are gone while there
\* is a release, and an error that is reported twice, which no event retries.
Stuck == (release # None /\ secrets = None) \/ repeated

\* In the end, the CA has a TLS certificate for the hosts in its spec and the status shows
\* it, whatever failed and wherever the operator died (Reconcile).
Converges ==
    <>[](cr.phase \in {"new", "managed"} /\ ~Stuck
             => /\ secrets # None /\ secrets.hosts = cr.hosts
                /\ cr.status = "Running" /\ cr.certs = secrets)
===============================================================================
