----------------------------- MODULE CertRenewal -----------------------------
(***************************************************************************)
(* Certificate renewal of the peers, or of the orderer nodes, of one       *)
(* namespace: the existing-release branch of the two reconcilers           *)
(*   controllers/peer/peer_controller.go        Reconcile (IsPeer = TRUE)  *)
(*   controllers/ordnode/ordnode_controller.go  Reconcile (IsPeer = FALSE) *)
(* with the lease of controllers/utils/lease.go that all nodes of a kind   *)
(* share, the informer cache the reconcilers read from, and the Helm       *)
(* release they upgrade.                                                   *)
(*                                                                         *)
(* Each node has a custom resource on the API server (cr), the copy of it  *)
(* in the informer cache (cache) and, while it is reconciled, the copy the *)
(* worker mutates (obj).  resourceVersions are abstracted to three sets:   *)
(* synced (the cache has the last version), objFresh (so has the worker)   *)
(* and leaseFresh (the worker's Lease is the stored one): an Update        *)
(* succeeds exactly when its copy is fresh.  Time is counted down: the     *)
(* lease has lease.left ticks to live, guard[n] is what is left of the     *)
(* five minutes LastCertificateUpdate lies in the future (-1: it was never *)
(* set), spent[n] is how long node n has been renewing.                    *)
(***************************************************************************)
EXTENDS Integers, FiniteSets

CONSTANTS
    Nodes,         \* the custom resources of one kind in one namespace
    Holders,       \* values of a Lease's HolderIdentity
    NoHolder,      \* the empty HolderIdentity
    HolderOf,      \* the identity a node's reconcile uses: POD_NAME, or its own
    IsPeer,        \* TRUE: FabricPeer; FALSE: FabricOrdererNode
    Wait,          \* the renewal's Helm upgrade waits for the rollout
    AutoRenew,     \* --auto-renew-peer-certificates / -orderer-certificates
    TTL,           \* lease duration, in ticks
    Timeout,       \* Helm timeout of an upgrade that waits, in ticks
    Skew,          \* how far ahead LastCertificateUpdate is written, in ticks
    SectionBound,  \* bound: ticks a node spends between acquiring and returning
    MaxTries,      \* attempts to acquire the lease in one reconcile
    MaxEdits,      \* bound: updates of specs and certificates nearing expiry
    MaxFaults,     \* bound: failed or unanswered calls, pods that are not running
    MaxCrashes     \* bound: restarts of the operator

ASSUME HolderAssumption == /\ NoHolder \notin Holders
                           /\ HolderOf \in [Nodes -> Holders]
ASSUME ModeAssumption == {IsPeer, Wait, AutoRenew} \subseteq BOOLEAN
ASSUME TimeAssumption == /\ {TTL, Timeout, Skew} \subseteq Nat
                         /\ SectionBound \in Nat
ASSUME BoundAssumption == /\ MaxTries \in Nat \ {0}
                          /\ {MaxEdits, MaxFaults, MaxCrashes} \subseteq Nat

VARIABLES
    cr, guard,                          \* API server: custom resources
    lease, leaseFresh,                  \* API server: the Lease
    cache, synced, queue,               \* informer cache and work queue
    helm, rolling, applied, expiring,   \* releases, pods, certificates
    pc, obj, objFresh, need, skip, tries,   \* the worker reconciling a node
    renewing, spent,                    \* who has acquired the lease, since when
    edits, faults, crashes              \* what the bounds bound

apiVars == <<cr, guard>>
leaseVars == <<lease, leaseFresh>>
cacheVars == <<cache, synced, queue>>
clusterVars == <<helm, rolling, applied, expiring>>
workVars == <<pc, obj, objFresh, need, skip, tries, renewing, spent>>
envVars == <<edits, faults, crashes>>
vars == <<apiVars, leaseVars, cacheVars, clusterVars, workVars, envVars>>

Statuses == {"Pending", "Running", "UpdatingCertificates", "Failed"}

\* A copy of a custom resource: status.status; status.certRenewalLeaseHeld;
\* error: the Failed condition carries an error text; due: spec.updateCertificateTime
\* is after the LastCertificateUpdate the API server has; old: this copy's own
\* LastCertificateUpdate is an earlier one.
Object == [status : Statuses, held : BOOLEAN, error : BOOLEAN,
           due : BOOLEAN, old : BOOLEAN]

HelmStatuses == {"deployed", "failed", "pending-upgrade", "pending-rollback"}

Labels == {"idle", "rollback", "rollingBack", "decide",
           "releaseGet", "releaseWrite", "unflag",
           "acquireGet", "acquireWrite", "renewWrite",
           "flag", "mark", "refresh", "await",
           "plain", "plainAwait", "persist", "fail", "failWrite"}

Blank == [status |-> "Running", held |-> FALSE, error |-> FALSE,
          due |-> FALSE, old |-> FALSE]

Init ==
    /\ cr = [n \in Nodes |-> Blank]
    /\ guard = [n \in Nodes |-> -1]
    /\ lease = [holder |-> NoHolder, left |-> -1]
    /\ leaseFresh = {}
    /\ cache = cr /\ synced = Nodes /\ queue = Nodes
    /\ helm = [n \in Nodes |-> "deployed"]
    /\ rolling = {} /\ applied = {} /\ expiring = {}
    /\ pc = [n \in Nodes |-> "idle"]
    /\ obj = cr /\ objFresh = {} /\ need = {} /\ skip = {}
    /\ tries = [n \in Nodes |-> 0]
    /\ renewing = {} /\ spent = [n \in Nodes |-> 0]
    /\ edits = 0 /\ faults = 0 /\ crashes = 0

-----------------------------------------------------------------------------
(* Users, time, the cluster and the manager around the reconcilers.        *)

\* A user updates the custom resource: every copy but the stored one is stale.
Touch(n) == /\ edits < MaxEdits /\ edits' = edits + 1
            /\ synced' = synced \ {n} /\ objFresh' = objFresh \ {n}
            /\ UNCHANGED <<guard, leaseVars, cache, queue, helm, rolling,
                           pc, obj, need, skip, tries, renewing, spent,
                           faults, crashes>>

\* kubectl hlf peer renew / ordnode renew: spec.updateCertificateTime = now.
\* It is after LastCertificateUpdate only once the skew has run out.
UserRenew(n) == /\ Touch(n)
                /\ cr' = [cr EXCEPT ![n].due = @ \/ guard[n] <= 0]
                /\ applied' = applied \ {n}
                /\ UNCHANGED expiring

\* Any other change of the spec.
EditSpec(n) == Touch(n) /\ UNCHANGED <<cr, applied, expiring>>

\* The TLS certificate, unless just issued, comes within AutoRenewCertificatesDelta
\* of its end.
CertNearsExpiry(n) ==
    /\ AutoRenew /\ n \notin expiring /\ n \notin applied
    /\ edits < MaxEdits /\ edits' = edits + 1
    /\ expiring' = expiring \cup {n}
    /\ UNCHANGED <<apiVars, leaseVars, cacheVars, helm, rolling, applied, workVars,
                   faults, crashes>>

\* The informer delivers the last version: an event for the work queue.
CacheSync(n) == /\ n \notin synced
                /\ cache' = [cache EXCEPT ![n] = cr[n]]
                /\ synced' = synced \cup {n} /\ queue' = queue \cup {n}
                /\ UNCHANGED <<apiVars, leaseVars, clusterVars, workVars, envVars>>

\* The pods of a node run with the certificates last applied.
RolloutDone(n) == /\ n \in rolling /\ rolling' = rolling \ {n}
                  /\ UNCHANGED <<apiVars, leaseVars, cacheVars, helm, applied,
                                 expiring, workVars, envVars>>

\* Time passes; not beyond the bound on what a renewing node still has to do.
Tick ==
    /\ \A n \in renewing : spent[n] < SectionBound
    /\ lease' = [lease EXCEPT !.left = IF @ >= 0 THEN @ - 1 ELSE @]
    /\ guard' = [n \in Nodes |-> IF guard[n] > 0 THEN guard[n] - 1 ELSE guard[n]]
    /\ spent' = [n \in Nodes |-> IF n \in renewing THEN spent[n] + 1 ELSE spent[n]]
    /\ UNCHANGED <<cr, leaseFresh, cacheVars, clusterVars, pc, obj, objFresh,
                   need, skip, tries, renewing, envVars>>

\* The operator dies and another instance starts: workers and cache are lost,
\* every object is listed and queued.  The cluster and the Lease stay.
Crash ==
    /\ crashes < MaxCrashes /\ crashes' = crashes + 1
    /\ cache' = cr /\ synced' = Nodes /\ queue' = Nodes
    /\ pc' = [n \in Nodes |-> "idle"]
    /\ obj' = [n \in Nodes |-> Blank] /\ objFresh' = {} /\ leaseFresh' = {}
    /\ need' = {} /\ skip' = {} /\ tries' = [n \in Nodes |-> 0]
    /\ renewing' = {} /\ spent' = [n \in Nodes |-> 0]
    /\ UNCHANGED <<apiVars, lease, clusterVars, edits, faults>>

-----------------------------------------------------------------------------
(* The steps of one reconcile.                                             *)

At(n, l) == pc[n] = l
Goto(n, l) == pc' = [pc EXCEPT ![n] = l]

\* A call that fails, or whose answer is lost.
Fault == faults < MaxFaults /\ faults' = faults + 1 /\ UNCHANGED <<edits, crashes>>
NoFault == UNCHANGED envVars

\* The API server stores o for n; an equal object makes no new version.
Store(n, o) == /\ cr' = [cr EXCEPT ![n] = o]
               /\ synced' = IF o = cr[n] THEN synced ELSE synced \ {n}
               /\ UNCHANGED cache

\* A status write leaves the spec alone.
StatusOf(n, o) == [o EXCEPT !.due = cr[n].due, !.old = FALSE]

\* The answer of a write decoded into the worker's copy.  certRenewalLeaseHeld
\* is omitempty: FALSE is not in the answer and does not overwrite TRUE.
Decode(o, answer) == [answer EXCEPT !.held = @ \/ o.held]

\* Reconcile returns; the key is added again after a delay or with an error.
Return(n, requeue) ==
    /\ Goto(n, "idle")
    /\ queue' = IF requeue THEN queue \cup {n} ELSE queue
    /\ obj' = [obj EXCEPT ![n] = Blank] /\ objFresh' = objFresh \ {n}
    /\ need' = need \ {n} /\ skip' = skip \ {n}
    /\ tries' = [tries EXCEPT ![n] = 0]
    /\ renewing' = renewing \ {n} /\ spent' = [spent EXCEPT ![n] = 0]

\* Mutant: a failed reconcile is not added to the queue again.
ReturnErrorSilent(n) == /\ Return(n, FALSE)
                        /\ UNCHANGED <<apiVars, leaseVars, cache, synced>>

ReturnError(n) == /\ Return(n, TRUE)
                  /\ UNCHANGED <<apiVars, leaseVars, cache, synced>>

\* r.Get from the cache, then the status of the Helm release.
Begin(n) ==
    /\ At(n, "idle") /\ n \in queue
    /\ queue' = queue \ {n}
    /\ obj' = [obj EXCEPT ![n] = cache[n]]
    /\ objFresh' = IF n \in synced THEN objFresh \cup {n} ELSE objFresh \ {n}
    /\ skip' = IF helm[n] = "pending-upgrade" THEN skip \cup {n} ELSE skip \ {n}
    /\ Goto(n, IF helm[n] \in {"pending-upgrade", "pending-rollback"}
               THEN "rollback" ELSE "decide")
    /\ NoFault
    /\ UNCHANGED <<apiVars, leaseVars, cache, synced, clusterVars, need, tries,
                   renewing, spent>>

\* A release left pending is rolled back: a new revision, pending-rollback ...
StartRollback(n) ==
    /\ At(n, "rollback")
    /\ \/ /\ helm' = [helm EXCEPT ![n] = "pending-rollback"]
          /\ Goto(n, "rollingBack") /\ NoFault
          /\ UNCHANGED <<apiVars, leaseVars, cacheVars, obj, objFresh, need,
                         skip, tries, renewing, spent>>
       \/ Fault /\ ReturnError(n) /\ UNCHANGED helm
    /\ UNCHANGED <<rolling, applied, expiring>>

\* ... whose manifest, with the certificates of the earlier revision, is applied.
FinishRollback(n) ==
    /\ At(n, "rollingBack")
    /\ \/ /\ helm' = [helm EXCEPT ![n] = "deployed"]
          /\ rolling' = IF n \in applied THEN rolling \cup {n} ELSE rolling
          /\ expiring' \in {expiring} \cup
                 (IF AutoRenew /\ n \in applied THEN {expiring \cup {n}} ELSE {})
          /\ applied' = applied \ {n}
          /\ Goto(n, "decide") /\ NoFault
          /\ UNCHANGED <<apiVars, leaseVars, cacheVars, obj, objFresh, need,
                         skip, tries, renewing, spent>>
       \/ /\ Fault /\ ReturnError(n)
          /\ helm' = [helm EXCEPT ![n] = "failed"]
          /\ UNCHANGED <<rolling, applied, expiring>>

\* What follows once it is known whether the certificates are to be renewed.
AfterRelease(n, renew) == IF renew THEN "acquireGet"
                          ELSE IF n \in skip THEN "persist" ELSE "plain"

\* The cached spec.updateCertificateTime is after the live LastCertificateUpdate,
\* or the TLS certificate in the cluster is near its end.  Of a peer that never
\* renewed, the live spec is looked at.
NeedsRenewal(n) == \/ obj[n].due \/ n \in expiring
                   \/ IsPeer /\ guard[n] = -1 /\ cr[n].due

\* Mutant: the lease is given back while the node does not run yet, never after.
MayReleaseNotRunning(n) == obj[n].held /\ obj[n].status # "Running"

\* The cached status says that the lease is held and the node runs again.
MayRelease(n) == obj[n].held /\ obj[n].status = "Running"

Decide(n) ==
    /\ At(n, "decide")
    /\ \/ /\ need' = IF NeedsRenewal(n) THEN need \cup {n} ELSE need
          /\ Goto(n, IF MayRelease(n) THEN "releaseGet"
                     ELSE AfterRelease(n, NeedsRenewal(n)))
          /\ NoFault
          /\ UNCHANGED <<apiVars, leaseVars, cacheVars, obj, objFresh, skip,
                         tries, renewing, spent>>
       \/ /\ Fault                       \* the live Get fails
          /\ Goto(n, "fail")
          /\ UNCHANGED <<apiVars, leaseVars, cacheVars, obj, objFresh, need,
                         skip, tries, renewing, spent>>
       \/ Fault /\ ReturnError(n)        \* the TLS secret cannot be read
    /\ UNCHANGED clusterVars

\* Mutant: whoever holds the Lease, it is released.
ReleaseGetAny(n) ==
    /\ At(n, "releaseGet") /\ NoFault
    /\ Goto(n, "releaseWrite") /\ leaseFresh' = leaseFresh \cup {n}
    /\ UNCHANGED <<apiVars, lease, cacheVars, clusterVars, obj, objFresh, need,
                   skip, tries, renewing, spent>>

\* ReleaseLease: Get the Lease; only its holder goes on to write.
ReleaseGet(n) ==
    /\ At(n, "releaseGet")
    /\ \/ /\ NoFault
          /\ IF lease.holder = HolderOf[n]
             THEN Goto(n, "releaseWrite") /\ leaseFresh' = leaseFresh \cup {n}
             ELSE Goto(n, "unflag") /\ UNCHANGED leaseFresh
       \/ Fault /\ Goto(n, "unflag") /\ UNCHANGED leaseFresh
    /\ UNCHANGED <<apiVars, lease, cacheVars, clusterVars, obj, objFresh, need,
                   skip, tries, renewing, spent>>

\* Update the Lease with an empty holder; a conflict or an error is only logged.
ReleaseWrite(n) ==
    /\ At(n, "releaseWrite")
    /\ \/ /\ n \in leaseFresh /\ NoFault
          /\ lease' = [lease EXCEPT !.holder = NoHolder]
          /\ leaseFresh' = {}
       \/ /\ n \notin leaseFresh /\ NoFault
          /\ UNCHANGED lease /\ leaseFresh' = leaseFresh \ {n}
       \/ Fault /\ UNCHANGED lease /\ leaseFresh' = leaseFresh \ {n}
    /\ Goto(n, "unflag")
    /\ UNCHANGED <<apiVars, cacheVars, clusterVars, obj, objFresh, need, skip,
                   tries, renewing, spent>>

\* Status().Update of the flag, whose error is only logged.
WriteFlag(n, held, next) ==
    /\ \/ /\ n \in objFresh /\ NoFault
          /\ Store(n, StatusOf(n, [obj[n] EXCEPT !.held = held]))
          /\ obj' = [obj EXCEPT ![n] = StatusOf(n, [@ EXCEPT !.held = held])]
       \/ /\ \/ n \notin objFresh /\ NoFault
             \/ Fault
          /\ obj' = [obj EXCEPT ![n].held = held]
          /\ UNCHANGED <<cr, cache, synced>>
    /\ Goto(n, next)
    /\ UNCHANGED <<guard, leaseVars, queue, clusterVars, objFresh, need, skip,
                   tries, renewing, spent>>

Unflag(n) == At(n, "unflag") /\ WriteFlag(n, FALSE, AfterRelease(n, n \in need))

\* Mutant: a Lease in its last tick is taken for an expired one.
AcquireGetEarly(n) ==
    /\ At(n, "acquireGet")
    /\ leaseFresh' = leaseFresh \cup {n}
    /\ \/ /\ lease.holder = NoHolder \/ lease.left <= 0
          /\ Goto(n, "acquireWrite")
       \/ /\ lease.holder = HolderOf[n] /\ lease.left > 0
          /\ Goto(n, "renewWrite")
    /\ NoFault
    /\ UNCHANGED <<apiVars, lease, cacheVars, clusterVars, obj, objFresh, need,
                   skip, tries, renewing, spent>>

\* One attempt of AcquireLease: Get the Lease.  A missing Lease is a free one.
AcquireGet(n) ==
    /\ At(n, "acquireGet")
    /\ leaseFresh' = leaseFresh \cup {n}
    /\ \/ /\ lease.holder = NoHolder \/ lease.left < 0
          /\ Goto(n, "acquireWrite")
       \/ /\ lease.holder = HolderOf[n] /\ lease.left >= 0
          /\ Goto(n, "renewWrite")
    /\ NoFault
    /\ UNCHANGED <<apiVars, lease, cacheVars, clusterVars, obj, objFresh, need,
                   skip, tries, renewing, spent>>

\* Mutant: one attempt too many.
AttemptFailsOnceMore(n) ==
    IF tries[n] + 1 <= MaxTries
    THEN /\ tries' = [tries EXCEPT ![n] = @ + 1] /\ Goto(n, "acquireGet")
         /\ UNCHANGED <<queue, obj, objFresh, need, skip, renewing, spent>>
    ELSE Return(n, TRUE)

\* Mutant: the renewal is skipped and the node not requeued.
AttemptFailsForGood(n) ==
    IF tries[n] + 1 < MaxTries
    THEN /\ tries' = [tries EXCEPT ![n] = @ + 1] /\ Goto(n, "acquireGet")
         /\ UNCHANGED <<queue, obj, objFresh, need, skip, renewing, spent>>
    ELSE Return(n, FALSE)

\* An attempt fails: the next one a second later, or the renewal is skipped and
\* the node requeued.
AttemptFails(n) ==
    IF tries[n] + 1 < MaxTries
    THEN /\ tries' = [tries EXCEPT ![n] = @ + 1] /\ Goto(n, "acquireGet")
         /\ UNCHANGED <<queue, obj, objFresh, need, skip, renewing, spent>>
    ELSE Return(n, TRUE)

\* The Lease is another's and has not expired, or Get fails and so does Create.
AcquireRefused(n) ==
    /\ At(n, "acquireGet")
    /\ \/ lease.holder \notin {NoHolder, HolderOf[n]} /\ lease.left >= 0 /\ NoFault
       \/ Fault
    /\ AttemptFails(n)
    /\ UNCHANGED <<apiVars, leaseVars, cache, synced, clusterVars>>

\* Mutant: the Update does not carry the resourceVersion that was read.
AcquireWriteStale(n) ==
    /\ pc[n] \in {"acquireWrite", "renewWrite"}
    /\ lease' = [holder |-> HolderOf[n], left |-> TTL]
    /\ leaseFresh' = {}
    /\ Goto(n, "flag")
    /\ renewing' = renewing \cup {n} /\ spent' = [spent EXCEPT ![n] = 0]
    /\ NoFault
    /\ UNCHANGED <<apiVars, cacheVars, clusterVars, obj, objFresh, need, skip, tries>>

\* Update (or Create) the Lease: it is the node's for TTL ticks from now.
AcquireWrite(n) ==
    /\ pc[n] \in {"acquireWrite", "renewWrite"} /\ n \in leaseFresh
    /\ lease' = [holder |-> HolderOf[n], left |-> TTL]
    /\ leaseFresh' = {}
    /\ Goto(n, "flag")
    /\ renewing' = renewing \cup {n} /\ spent' = [spent EXCEPT ![n] = 0]
    /\ NoFault
    /\ UNCHANGED <<apiVars, cacheVars, clusterVars, obj, objFresh, need, skip, tries>>

\* The Update conflicts with another's, or its answer is lost: applied or not,
\* the attempt counts as failed.
AcquireWriteFails(n) ==
    /\ pc[n] \in {"acquireWrite", "renewWrite"}
    /\ \/ /\ (n \notin leaseFresh /\ NoFault) \/ Fault
          /\ UNCHANGED lease /\ leaseFresh' = leaseFresh \ {n}
       \/ /\ n \in leaseFresh /\ Fault
          /\ lease' = [holder |-> HolderOf[n], left |-> TTL]
          /\ leaseFresh' = {}
    /\ AttemptFails(n)
    /\ UNCHANGED <<apiVars, cache, synced, clusterVars>>

\* The node has the lease: flag it, then mark the status UpdatingCertificates by
\* a merge patch, which does not conflict and brings the worker's copy up to date.
Flag(n) == At(n, "flag") /\ WriteFlag(n, TRUE, "mark")

PatchStatus(n, status) ==
    LET answer == [cr[n] EXCEPT !.status = status]
    IN  /\ Store(n, answer)
        /\ obj' = [obj EXCEPT ![n] = Decode(@, answer)]
        /\ objFresh' = objFresh \cup {n}

Mark(n) ==
    /\ At(n, "mark")
    /\ \/ /\ obj[n].status # "UpdatingCertificates" /\ NoFault
          /\ PatchStatus(n, "UpdatingCertificates")
       \/ /\ obj[n].status = "UpdatingCertificates" /\ NoFault
          /\ UNCHANGED <<cr, cache, synced, obj, objFresh>>
       \/ /\ obj[n].status # "UpdatingCertificates" /\ Fault
          /\ obj' = [obj EXCEPT ![n].status = "UpdatingCertificates"]
          /\ UNCHANGED <<cr, cache, synced, objFresh>>
    /\ Goto(n, "refresh")
    /\ UNCHANGED <<guard, leaseVars, queue, clusterVars, need, skip, tries,
                   renewing, spent>>

\* updateCerts: getConfig reenrolls the certificates and the chart is upgraded
\* with them; the pods start to roll.
Renew(n) ==
    /\ At(n, "refresh")
    /\ \/ /\ helm' = [helm EXCEPT ![n] = "pending-upgrade"]
          /\ rolling' = rolling \cup {n} /\ applied' = applied \cup {n}
          /\ expiring' = expiring \ {n}
          /\ Goto(n, "await") /\ NoFault
       \/ Goto(n, "fail") /\ Fault /\ UNCHANGED clusterVars
    /\ UNCHANGED <<apiVars, leaseVars, cacheVars, obj, objFresh, need, skip,
                   tries, renewing, spent>>

\* Mutant: the upgrade does not wait for the rollout.
AwaitDoneEarly(n) ==
    /\ At(n, "await")
    /\ helm' = [helm EXCEPT ![n] = "deployed"]
    /\ Goto(n, "persist") /\ NoFault
    /\ UNCHANGED <<apiVars, leaseVars, cacheVars, rolling, applied, expiring,
                   obj, objFresh, need, skip, tries, renewing, spent>>

\* The upgrade ends: once the pods run when it waits for them, and in any case
\* when it has waited for the timeout.
AwaitDone(n) ==
    /\ At(n, "await")
    /\ Wait => n \notin rolling
    /\ helm' = [helm EXCEPT ![n] = "deployed"]
    /\ Goto(n, "persist") /\ NoFault
    /\ UNCHANGED <<apiVars, leaseVars, cacheVars, rolling, applied, expiring,
                   obj, objFresh, need, skip, tries, renewing, spent>>

\* Mutant: the error of the upgrade is dropped.
AwaitFailsIgnored(n) ==
    /\ At(n, "await")
    /\ \/ Wait /\ n \in rolling /\ spent[n] >= Timeout /\ NoFault
       \/ Fault
    /\ helm' = [helm EXCEPT ![n] = "failed"]
    /\ Goto(n, "persist")
    /\ UNCHANGED <<apiVars, leaseVars, cacheVars, rolling, applied, expiring,
                   obj, objFresh, need, skip, tries, renewing, spent>>

AwaitFails(n) ==
    /\ At(n, "await")
    /\ \/ Wait /\ n \in rolling /\ spent[n] >= Timeout /\ NoFault
       \/ Fault
    /\ helm' = [helm EXCEPT ![n] = "failed"]
    /\ Goto(n, "fail")
    /\ UNCHANGED <<apiVars, leaseVars, cacheVars, rolling, applied, expiring,
                   obj, objFresh, need, skip, tries, renewing, spent>>

\* No renewal: the chart is upgraded with the values of the spec and the
\* certificates it has, which starts no rollout of certificates.
Plain(n) ==
    /\ At(n, "plain")
    /\ \/ /\ helm' = [helm EXCEPT ![n] = "pending-upgrade"]
          /\ Goto(n, "plainAwait") /\ NoFault
          /\ UNCHANGED <<apiVars, leaseVars, cacheVars, obj, objFresh, need,
                         skip, tries, renewing, spent>>
       \/ /\ IsPeer /\ Fault /\ Goto(n, "fail")
          /\ UNCHANGED <<helm, apiVars, leaseVars, cacheVars, obj, objFresh,
                         need, skip, tries, renewing, spent>>
       \/ ~IsPeer /\ Fault /\ ReturnError(n) /\ UNCHANGED helm
    /\ UNCHANGED <<rolling, applied, expiring>>

PlainDone(n) ==
    /\ At(n, "plainAwait")
    /\ \/ /\ helm' = [helm EXCEPT ![n] = "deployed"]
          /\ Goto(n, "persist") /\ NoFault
       \/ /\ helm' = [helm EXCEPT ![n] = "failed"]
          /\ Goto(n, "fail") /\ Fault
    /\ UNCHANGED <<apiVars, leaseVars, cacheVars, rolling, applied, expiring,
                   obj, objFresh, need, skip, tries, renewing, spent>>

\* GetPeerState / GetOrdererState: what the pods of the node look like.  While
\* they roll, a pod that is not ready may be pending, running or failed.
PodStatus(n, s) ==
    \/ s = "Running" /\ NoFault
    \/ s \in {"Pending", "Failed"} /\ n \in rolling /\ NoFault
    \/ s \in {"Pending", "Failed"} /\ n \notin rolling /\ Fault

\* What the reconcile wants stored, and whether it differs from its own copy.
Final(n, s) == [obj[n] EXCEPT !.status = s, !.error = @ /\ s # "Failed"]
Differs(n, s) == n \in need \/ obj[n].old \/ Final(n, s) # obj[n]

\* Status().Update of the final status and of LastCertificateUpdate, which after
\* a renewal is Skew in the future: the request is then served.
Persist(n) ==
    /\ At(n, "persist")
    /\ \E s \in Statuses : PodStatus(n, s) /\ Differs(n, s) /\ n \in objFresh
         /\ IF n \in need
            THEN /\ cr' = [cr EXCEPT ![n] = [Final(n, s) EXCEPT !.due = FALSE,
                                                                !.old = FALSE]]
                 /\ cache' = [cache EXCEPT ![n] = [@ EXCEPT !.due = FALSE, !.old = TRUE]]
                 /\ synced' = synced \ {n}
                 /\ guard' = [guard EXCEPT ![n] = Skew]
                 /\ applied' = applied \ {n}
            ELSE Store(n, StatusOf(n, Final(n, s))) /\ UNCHANGED <<guard, applied>>
    /\ Return(n, TRUE)
    /\ UNCHANGED <<leaseVars, helm, rolling, expiring>>

\* Nothing to store.
PersistSame(n) ==
    /\ At(n, "persist")
    /\ \E s \in Statuses : PodStatus(n, s) /\ ~Differs(n, s)
    /\ Return(n, TRUE)
    /\ UNCHANGED <<apiVars, leaseVars, cache, synced, clusterVars>>

\* The update conflicts or fails: LastCertificateUpdate is lost.
PersistFails(n) ==
    /\ At(n, "persist")
    /\ \/ \E s \in Statuses : PodStatus(n, s) /\ Differs(n, s) /\ n \notin objFresh
       \/ \E s \in Statuses : (s = "Running" \/ n \in rolling) /\ Differs(n, s) /\ Fault
    /\ Goto(n, "fail")
    /\ UNCHANGED <<apiVars, leaseVars, cacheVars, clusterVars, obj, objFresh,
                   need, skip, tries, renewing, spent>>

\* The state of the node cannot be read.
StateFails(n) ==
    /\ At(n, "persist") /\ Fault
    /\ \/ ~IsPeer /\ ReturnError(n)
       \/ /\ IsPeer /\ Goto(n, "fail")
          /\ UNCHANGED <<apiVars, leaseVars, cacheVars, obj, objFresh, need,
                         skip, tries, renewing, spent>>
    /\ UNCHANGED clusterVars

\* setConditionStatus(Failed): a merge patch, whose result replaces the error to
\* record; an object that already is Failed only has the error recorded.
Fail(n) ==
    /\ At(n, "fail")
    /\ \/ /\ obj[n].status # "Failed" /\ NoFault
          /\ LET answer == [cr[n] EXCEPT !.status = "Failed"]
             IN  /\ Store(n, answer)
                 /\ obj' = [obj EXCEPT ![n] = [Decode(@, answer) EXCEPT !.error = FALSE]]
                 /\ objFresh' = objFresh \cup {n}
       \/ /\ \/ obj[n].status # "Failed" /\ Fault
             \/ obj[n].status = "Failed" /\ NoFault
          /\ obj' = [obj EXCEPT ![n] = [@ EXCEPT !.status = "Failed", !.error = TRUE]]
          /\ UNCHANGED <<cr, cache, synced, objFresh>>
    /\ Goto(n, "failWrite")
    /\ UNCHANGED <<guard, leaseVars, queue, clusterVars, need, skip, tries,
                   renewing, spent>>

\* Mutant: a node whose failure is recorded is not requeued.
FailWriteSilent(n) ==
    /\ At(n, "failWrite")
    /\ \/ /\ n \in objFresh /\ NoFault
          /\ Store(n, StatusOf(n, obj[n]))
          /\ Return(n, FALSE)
       \/ /\ \/ n \notin objFresh /\ NoFault
             \/ Fault
          /\ Return(n, TRUE)
          /\ UNCHANGED <<cr, cache, synced>>
    /\ UNCHANGED <<guard, leaseVars, clusterVars>>

\* updateCRStatusOrFailReconcile: a peer is requeued after a minute, an orderer
\* only if the update fails.
FailWrite(n) ==
    /\ At(n, "failWrite")
    /\ \/ /\ n \in objFresh /\ NoFault
          /\ Store(n, StatusOf(n, obj[n]))
          /\ Return(n, IsPeer)
       \/ /\ \/ n \notin objFresh /\ NoFault
             \/ Fault
          /\ Return(n, TRUE)
          /\ UNCHANGED <<cr, cache, synced>>
    /\ UNCHANGED <<guard, leaseVars, clusterVars>>

Acquire(n) == AcquireGet(n) \/ AcquireRefused(n) \/ AcquireWrite(n) \/ AcquireWriteFails(n)
Release(n) == ReleaseGet(n) \/ ReleaseWrite(n) \/ Unflag(n)
RollBack(n) == StartRollback(n) \/ FinishRollback(n)
Upgrade(n) == Flag(n) \/ Mark(n) \/ Renew(n) \/ AwaitDone(n) \/ AwaitFails(n)
Record(n) == Persist(n) \/ PersistSame(n) \/ PersistFails(n) \/ StateFails(n)

\* The worker that reconciles n.
Reconcile(n) == \/ Begin(n) \/ RollBack(n) \/ Decide(n) \/ Release(n) \/ Acquire(n)
                \/ Upgrade(n) \/ Plain(n) \/ PlainDone(n)
                \/ Record(n) \/ Fail(n) \/ FailWrite(n)

User(n) == UserRenew(n) \/ EditSpec(n) \/ CertNearsExpiry(n)

Next == \/ \E n \in Nodes : User(n) \/ CacheSync(n) \/ RolloutDone(n) \/ Reconcile(n)
        \/ Tick \/ Crash

Spec == Init /\ [][Next]_vars

\* Workers run, the informer delivers, pods start and time passes.  Users,
\* faults and crashes are never obliged to happen.
Fairness == /\ \A n \in Nodes : /\ WF_vars(Reconcile(n))
                                /\ WF_vars(CacheSync(n))
                                /\ WF_vars(RolloutDone(n))
            /\ WF_vars(Tick)

FairSpec == Spec /\ Fairness

-----------------------------------------------------------------------------
TypeOK ==
    /\ cr \in [Nodes -> Object] /\ cache \in [Nodes -> Object]
    /\ obj \in [Nodes -> Object]
    /\ guard \in [Nodes -> -1..Skew]
    /\ lease \in [holder : Holders \cup {NoHolder}, left : -1..TTL]
    /\ leaseFresh \subseteq Nodes /\ synced \subseteq Nodes /\ queue \subseteq Nodes
    /\ rolling \subseteq Nodes /\ applied \subseteq Nodes /\ expiring \subseteq Nodes
    /\ objFresh \subseteq Nodes /\ need \subseteq Nodes /\ skip \subseteq Nodes
    /\ renewing \subseteq Nodes
    /\ helm \in [Nodes -> HelmStatuses]
    /\ pc \in [Nodes -> Labels]
    /\ tries \in [Nodes -> 0..MaxTries-1]
    /\ spent \in [Nodes -> 0..SectionBound]
    /\ edits \in 0..MaxEdits /\ faults \in 0..MaxFaults /\ crashes \in 0..MaxCrashes

\* The lease is a "global lock" (ordnode_controller.go:254): two nodes are never
\* both between acquiring it and the end of that reconcile.
MutualExclusion == \A n, m \in renewing : n = m

\* A node that renews still has the lease: nobody took it over, released it or
\* saw it expire since it was acquired.
RenewerHoldsLease == \A n \in renewing : lease.holder = HolderOf[n] /\ lease.left >= 0

\* At most one node at a time restarts because of new certificates: what the lock
\* is for, since a rollout takes the node down.
OneRolloutAtATime == \A n, m \in rolling : n = m

\* A request is taken off only by the node's own renewal, after the certificates
\* it asked for were applied and, if the upgrade waits, the pods run with them.
ServedMeansRenewed ==
    [][\A n \in Nodes : cr[n].due /\ ~cr'[n].due =>
           n \in renewing /\ n \in applied /\ (Wait => n \notin rolling)]_vars

\* The lock, seen from outside: who wants new certificates and who is at work.
Wanted == {n \in Nodes : cr[n].due \/ n \in expiring}

Lock == INSTANCE RenewalLock WITH wanted <- Wanted, working <- renewing

\* Acquiring, renewing and recording implement the lock of RenewalLock.
ImplementsLock == Lock!Spec

\* A request for new certificates is eventually served.
RequestServed == \A n \in Nodes : cr[n].due ~> ~cr[n].due

\* A flagged lease is eventually given back.
FlagCleared == \A n \in Nodes : cr[n].held ~> ~cr[n].held

\* A node reported Failed eventually runs again.
FailureRetried == \A n \in Nodes : cr[n].status = "Failed" ~> cr[n].status = "Running"

-----------------------------------------------------------------------------
(* Inductive strengthenings, for the proofs.                               *)

SectionLabels == {"flag", "mark", "refresh", "await", "persist", "fail", "failWrite"}

\* Who renews is past acquiring, has the lease, and for what is left of the TTL;
\* and what a worker whose copy of the Lease is current has read is still true.
LockInv ==
    /\ \A n \in renewing : /\ pc[n] \in SectionLabels
                           /\ lease.holder = HolderOf[n]
                           /\ lease.left + spent[n] >= TTL
    /\ \A n \in leaseFresh :
          /\ pc[n] = "acquireWrite" => lease.holder = NoHolder \/ lease.left < 0
          /\ pc[n] \in {"renewWrite", "releaseWrite"} => lease.holder = HolderOf[n]

\* A node that goes for the lease wants new certificates; one that renews or
\* records them has the lease.
NeedPart(n) ==
    /\ n \in need /\ pc[n] \in {"releaseGet", "releaseWrite", "unflag",
                                "acquireGet", "acquireWrite", "renewWrite"}
          => n \in Wanted
    /\ pc[n] \in {"acquireGet", "acquireWrite", "renewWrite"} => n \in need
    /\ pc[n] \in {"flag", "mark", "refresh", "await"} => n \in renewing
    /\ pc[n] = "persist" /\ n \in need => n \in renewing
    /\ pc[n] \in {"idle", "rollback", "rollingBack", "decide", "plain", "plainAwait"}
          => n \notin need

\* A copy that is due is a copy of an object that is.
WantInv == \A n \in Nodes : /\ cache[n].due => cr[n].due
                            /\ obj[n].due => cr[n].due
                            /\ NeedPart(n)

\* Certificates waited for are the ones applied for what the worker's copy, if it
\* is current, asks; a renewal about to be recorded has rolled out.
AppliedInv ==
    \A n \in Nodes :
        /\ n \in objFresh /\ (pc[n] = "await" \/ (pc[n] = "persist" /\ n \in need))
              => n \in applied
        /\ pc[n] = "persist" /\ n \in need /\ Wait => n \notin rolling
=============================================================================
