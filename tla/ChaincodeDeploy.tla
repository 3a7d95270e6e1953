---------------------------- MODULE ChaincodeDeploy ----------------------------
(***************************************************************************)
(* The deployment of a chaincode as a service                              *)
(* (controllers/chaincode/deploy/chaincode_deploy_controller.go): one      *)
(* FabricChaincode, the Deployment, Service and Secret made for it, and    *)
(* the pods.  Chaincodes share nothing but the template they may take      *)
(* their defaults from; one stands for all of them.                        *)
(*                                                                         *)
(* No pass asks to be called again, unless its last write fails: what      *)
(* retries a failure is the event of the status it wrote.                  *)
(***************************************************************************)
EXTENDS Integers, Conditions

CONSTANTS
    Specs,         \* what the spec of the chaincode may be
    First,         \* the one it is created with
    TLS,           \* the specs with credentials for a certificate
    Templated,     \* the specs that take defaults from the template
    Selector,      \* the pod labels of a spec
    Templates,     \* what the template may say
    Default,       \* what it says at first
    None,          \* no Deployment, no template
    Faulty,        \* the calls that may fail
    MaxEdits,      \* bound: changes by users
    MaxFaults,     \* bound: failed or unanswered calls
    MaxCrashes,    \* bound: restarts of the operator
    MaxTotal       \* bound: all of these together

ASSUME SpecAssumption == /\ First \in Specs /\ TLS \subseteq Specs
                         /\ Templated \subseteq Specs /\ Default \in Templates
                         /\ DOMAIN Selector = Specs /\ None \notin Templates
ASSUME NoneAssumption ==
    None \notin [spec : Specs, template : Templates \cup {None}, restart : Nat]
ASSUME LimitAssumption == {MaxEdits, MaxFaults, MaxCrashes, MaxTotal} \subseteq Nat

VARIABLES
    cr,                              \* API server: the custom resource
    cache, synced, queued,           \* informer and work queue
    template, announced,             \* the template; its last event was delivered
    secret, issued,                  \* certificate in the Secret, last one the CA issued
    deployment, service,             \* the other objects of the chaincode
    pods, rolling,                   \* certificate the pods run with; being replaced
    pc, obj, objFresh,               \* the worker and its copy of the resource
    defaults, read, crypto, result,  \* template and Secret as read, crypto material,
                                     \* status and message to be written
    missed,                          \* history: a pass that had a new certificate
                                     \* ended before it restarted the pods
    repeated,                        \* history: the last pass reported the error that
                                     \* was there already
    edits, faults, crashes           \* what the bounds bound

crVars == <<cr, cache, synced>>
quietVars == <<template, announced, repeated>>   \* what no step but the last changes
cryptoVars == <<secret, issued>>
podVars == <<pods, rolling, missed>>
clusterVars == <<deployment, service, podVars>>
copyVars == <<obj, objFresh>>
passVars == <<defaults, read, crypto, result>>
envVars == <<edits, faults, crashes>>
vars == <<crVars, queued, quietVars, cryptoVars, clusterVars, pc, copyVars,
          passVars, envVars>>

\* Messages: the calls that fail, each with a text of its own.
Messages == {"", "template", "read", "enroll", "conflict", "store", "deploy", "immutable",
             "service", "patch"}

Object == [spec : Specs, phase : {"new", "managed", "deleting", "gone"},
           status : {"", "Failed", "Running"}, message : Messages,
           conditions : UNION {[T -> [status : {"True", "False"}, reason : Messages]] :
                               T \in SUBSET {"Failed", "Running"}}]

Result == [status : {"Failed", "Running"}, message : Messages]

Absent == -1    \* no Secret; 0 is one that lacks a key
NoCrypto == [cert |-> 0, updated |-> FALSE]
Success == [status |-> "Running", message |-> ""]
Failure(e) == [status |-> "Failed", message |-> e]

Labels == {"idle", "adopt", "deleteDeployment", "deleteService", "deleteSecret",
           "release", "template", "secret", "enroll", "store", "deploy", "service",
           "mark", "status"}

Blank == [spec |-> First, phase |-> "new", status |-> "", message |-> "",
          conditions |-> NoConditions]

Init ==
    /\ cr = Blank
    /\ cache = cr /\ synced = TRUE /\ queued = TRUE
    /\ template = Default /\ announced = TRUE
    /\ secret = Absent /\ issued = 0
    /\ deployment = None /\ service = FALSE
    /\ pods = 0 /\ rolling = FALSE /\ missed = FALSE /\ repeated = FALSE
    /\ pc = "idle" /\ obj = Blank /\ objFresh = FALSE
    /\ defaults = None /\ read = "" /\ crypto = NoCrypto /\ result = Success
    /\ edits = 0 /\ faults = 0 /\ crashes = 0

-----------------------------------------------------------------------------
(* Users, the cluster and the manager around the reconciler.               *)

WithinTotal == edits + faults + crashes < MaxTotal

\* A change by a user, within the bound.
Edits == WithinTotal /\ edits < MaxEdits /\ edits' = edits + 1 /\ UNCHANGED <<faults, crashes>>

\* A user updates the chaincode or deletes it.
Edit == /\ Edits
        /\ \/ /\ cr.phase # "gone"
              /\ \E s \in Specs \ {cr.spec} : cr' = [cr EXCEPT !.spec = s]
           \/ cr.phase = "new" /\ cr' = [cr EXCEPT !.phase = "gone"]
           \/ cr.phase = "managed" /\ cr' = [cr EXCEPT !.phase = "deleting"]
        /\ synced' = FALSE /\ objFresh' = FALSE
        /\ UNCHANGED <<cache, queued, quietVars, cryptoVars, clusterVars, pc, obj,
                       passVars>>

\* A user updates the template.
EditTemplate ==
    /\ Edits
    /\ template' \in Templates \ {template} /\ announced' = FALSE
    /\ UNCHANGED <<crVars, queued, cryptoVars, clusterVars, pc, copyVars, passVars, repeated>>

\* A user deletes the Secret or empties it.
LoseSecret ==
    /\ Edits /\ secret > 0
    /\ secret' \in {Absent, 0}
    /\ read' = IF read = "current" THEN "stale" ELSE read
    /\ UNCHANGED <<crVars, queued, quietVars, issued, clusterVars, pc, copyVars,
                   defaults, crypto, result>>

\* The informer delivers the last version of the chaincode ...
CacheSync == /\ ~synced /\ synced' = TRUE /\ cache' = cr /\ queued' = TRUE
             /\ UNCHANGED <<cr, quietVars, cryptoVars, clusterVars, pc, copyVars,
                            passVars, envVars>>

\* ... or of the template, for which all chaincodes that are listed are queued.
TemplateEvent ==
    /\ ~announced /\ announced' = TRUE
    /\ queued' = (queued \/ cache.phase # "gone")
    /\ UNCHANGED <<crVars, template, cryptoVars, clusterVars, pc, copyVars, passVars,
                   repeated, envVars>>

\* The pods of a rollout read the certificate when they start.
RolloutDone ==
    /\ rolling /\ deployment # None /\ (deployment.spec \in TLS => secret > 0)
    /\ pods' = IF deployment.spec \in TLS THEN secret ELSE 0
    /\ rolling' = FALSE /\ missed' = FALSE
    /\ UNCHANGED <<crVars, queued, quietVars, cryptoVars, deployment, service, pc,
                   copyVars, passVars, envVars>>

\* What is left of a pass that ends before the Deployment knows its certificate.
Missed == missed \/ crypto.updated

NoPass == defaults' = None /\ read' = "" /\ crypto' = NoCrypto /\ result' = Success

\* The operator dies and another instance starts, which lists everything.
Crash ==
    /\ WithinTotal /\ crashes < MaxCrashes /\ crashes' = crashes + 1
    /\ cache' = cr /\ synced' = TRUE /\ queued' = (cr.phase # "gone")
    /\ announced' = TRUE
    /\ pc' = "idle" /\ obj' = Blank /\ objFresh' = FALSE /\ NoPass /\ missed' = Missed
    /\ UNCHANGED <<cr, template, cryptoVars, deployment, service, pods, rolling, repeated,
                   edits, faults>>

-----------------------------------------------------------------------------
(* The steps of one reconcile.                                             *)

Fault(call) == /\ call \in Faulty /\ WithinTotal /\ faults < MaxFaults
               /\ faults' = faults + 1 /\ UNCHANGED <<edits, crashes>>
NoFault == UNCHANGED envVars

\* The API server stores o; an equal object makes no new version.
Store(o) == /\ cr' = o /\ synced' = (synced /\ o = cr) /\ UNCHANGED cache

\* Reconcile returns, with an error if the key is to be added again.
Return(requeue) ==
    /\ pc' = "idle" /\ queued' = (queued \/ requeue)
    /\ obj' = Blank /\ objFresh' = FALSE /\ NoPass

\* r.Get from the cache; only a resource that is not gone is worked on.
Begin ==
    /\ pc = "idle" /\ queued /\ queued' = FALSE /\ NoFault
    /\ IF cache.phase = "gone"
       THEN UNCHANGED <<pc, copyVars>>
       ELSE /\ obj' = cache /\ objFresh' = synced
            /\ pc' = CASE cache.phase = "new" -> "adopt"
                       [] cache.phase = "deleting" -> "deleteDeployment"
                       [] OTHER -> "template"
    /\ UNCHANGED <<crVars, quietVars, cryptoVars, clusterVars, passVars>>

Goto(l) == pc' = l /\ UNCHANGED <<queued, copyVars>>

\* A write of the worker's copy: in phase p, to the version it was made from.
WritePhase(p) == objFresh /\ Store([cr EXCEPT !.phase = p]) /\ NoFault

\* Mutant: a failed addFinalizer is not tried again.
AdoptOnce ==
    /\ pc = "adopt"
    /\ \/ /\ WritePhase("managed")
          /\ obj' = cr' /\ pc' = "template" /\ UNCHANGED <<queued, objFresh, passVars>>
       \/ /\ \/ ~objFresh /\ NoFault
             \/ Fault("update")
          /\ Return(FALSE) /\ UNCHANGED crVars
    /\ UNCHANGED <<quietVars, cryptoVars, clusterVars>>

\* addFinalizer.
Adopt ==
    /\ pc = "adopt"
    /\ \/ /\ WritePhase("managed")
          /\ obj' = cr' /\ pc' = "template" /\ UNCHANGED <<queued, objFresh, passVars>>
       \/ /\ \/ ~objFresh /\ NoFault
             \/ Fault("update")
          /\ Return(TRUE) /\ UNCHANGED crVars
    /\ UNCHANGED <<quietVars, cryptoVars, clusterVars>>

\* finalizeChaincode: one object after the other; one that is not there is no error.
FinalizeFails ==
    /\ pc \in {"deleteDeployment", "deleteService", "deleteSecret"}
    /\ Fault("delete") /\ Return(TRUE)
    /\ UNCHANGED <<crVars, quietVars, cryptoVars, clusterVars>>

DeleteDeployment ==
    /\ pc = "deleteDeployment" /\ Goto("deleteService") /\ NoFault
    /\ deployment' = None /\ pods' = 0 /\ rolling' = FALSE
    /\ UNCHANGED <<crVars, quietVars, cryptoVars, service, missed, passVars>>

DeleteService ==
    /\ pc = "deleteService" /\ Goto("deleteSecret") /\ NoFault
    /\ service' = FALSE
    /\ UNCHANGED <<crVars, quietVars, cryptoVars, deployment, podVars, passVars>>

\* Mutant: the finalizer is removed instead, before the Secret is deleted.
ReleaseBeforeSecret ==
    /\ pc = "deleteSecret"
    /\ \/ WritePhase("gone") /\ Return(FALSE)
       \/ ~objFresh /\ NoFault /\ Return(TRUE) /\ UNCHANGED crVars
    /\ UNCHANGED <<quietVars, cryptoVars, clusterVars>>

DeleteSecret ==
    /\ pc = "deleteSecret" /\ Goto("release") /\ NoFault
    /\ secret' = Absent
    /\ UNCHANGED <<crVars, quietVars, issued, clusterVars, passVars>>

\* The finalizer is removed: the resource is gone.
Release ==
    /\ pc = "release"
    /\ \/ WritePhase("gone") /\ Return(FALSE)
       \/ /\ \/ ~objFresh /\ NoFault
             \/ Fault("update")
          /\ Return(TRUE) /\ UNCHANGED crVars
    /\ UNCHANGED <<quietVars, cryptoVars, clusterVars>>

\* The rest of the pass only writes result into the status.
Conclude(r) == /\ Goto("mark") /\ result' = r
               /\ defaults' = None /\ read' = "" /\ crypto' = NoCrypto

Fail(e) == Conclude(Failure(e)) /\ missed' = Missed /\ UNCHANGED <<pods, rolling>>

\* The template is read from the API server.
ReadTemplate ==
    /\ pc = "template"
    /\ \/ /\ NoFault /\ Goto("secret")
          /\ defaults' = IF obj.spec \in Templated THEN template ELSE None
          /\ UNCHANGED <<read, crypto, result, podVars>>
       \/ obj.spec \in Templated /\ Fault("template") /\ Fail("template")
    /\ UNCHANGED <<crVars, quietVars, cryptoVars, deployment, service>>

\* getCryptoMaterial up to the enrollment: without credentials there is nothing to do;
\* a complete Secret is taken as it is, however near the end of its certificate; any
\* error leads to an enrollment.
ReadSecret ==
    /\ pc = "secret"
    /\ \/ /\ obj.spec \notin TLS /\ NoFault
          /\ Goto("deploy") /\ UNCHANGED <<read, crypto>>
       \/ /\ obj.spec \in TLS /\ secret > 0 /\ NoFault
          /\ Goto("store") /\ read' = "current" /\ crypto' = [NoCrypto EXCEPT !.cert = secret]
       \/ /\ obj.spec \in TLS /\ secret <= 0 /\ NoFault
          /\ Goto("enroll") /\ read' = (IF secret = 0 THEN "current" ELSE "absent")
          /\ UNCHANGED crypto
       \/ /\ obj.spec \in TLS /\ Fault("read")
          /\ Goto("enroll") /\ read' = "error" /\ UNCHANGED crypto
    /\ UNCHANGED <<crVars, quietVars, cryptoVars, clusterVars, defaults, result>>

\* Mutant: a failed enrollment is taken for a certificate.
EnrollNothing ==
    /\ pc = "enroll" /\ Fault("enroll") /\ Goto("store")
    /\ crypto' = [cert |-> Absent, updated |-> TRUE]
    /\ UNCHANGED <<crVars, quietVars, cryptoVars, clusterVars, defaults, read, result>>

\* CreateChaincodeCryptoMaterial: the CA issues a certificate.  If the Secret could not
\* be read, the pass fails now.
Enroll ==
    /\ pc = "enroll"
    /\ \/ /\ issued' = issued + 1 /\ NoFault
          /\ IF read = "error" THEN Fail("read")
             ELSE /\ crypto' = [cert |-> issued + 1, updated |-> TRUE]
                  /\ Goto("store") /\ UNCHANGED <<read, defaults, result, podVars>>
       \/ /\ Fault("enroll") /\ Fail("enroll") /\ UNCHANGED issued
    /\ UNCHANGED <<crVars, quietVars, secret, deployment, service>>

\* The Secret is created, or updated if it is the one that was read.
StoreSecret ==
    /\ pc = "store"
    /\ \/ /\ read # "stale" /\ NoFault /\ Goto("deploy")
          /\ secret' = crypto.cert
          /\ UNCHANGED <<passVars, podVars>>
       \/ read = "stale" /\ NoFault /\ Fail("conflict") /\ UNCHANGED secret
       \/ Fault("store") /\ Fail("store") /\ UNCHANGED secret
    /\ UNCHANGED <<crVars, quietVars, issued, deployment, service>>

\* Mutant: the pods are not told of a new certificate.
WantedWithoutNote == [spec |-> obj.spec, template |-> defaults, restart |-> 0]

\* The Deployment as the pass wants it.  A certificate that was just stored is noted in
\* the pod template (updatedsecrettime), so that the pods are restarted; the next pass
\* leaves the note out again.
Wanted == [spec |-> obj.spec, template |-> defaults,
           restart |-> IF deployment # None /\ crypto.updated THEN crypto.cert ELSE 0]

\* podLabels and labels are one map: the pod labels are in the selector, which the API
\* server does not let change.
Immutable(s) == deployment # None /\ Selector[deployment.spec] # Selector[s]

\* Mutant: an existing Deployment is not updated.
DeployOnce ==
    /\ pc = "deploy" /\ NoFault /\ Goto("service") /\ crypto' = NoCrypto
    /\ deployment' = IF deployment = None THEN Wanted ELSE deployment
    /\ rolling' = (rolling \/ deployment = None)
    /\ UNCHANGED <<crVars, quietVars, cryptoVars, service, pods, missed, defaults, read,
                   result>>

\* The Deployment is created or updated; the answer may be lost.
Deploy ==
    /\ pc = "deploy"
    /\ \/ /\ ~Immutable(obj.spec)
          /\ deployment' = Wanted /\ rolling' = (rolling \/ Wanted # deployment)
          /\ UNCHANGED <<pods, missed>>
          /\ \/ /\ NoFault /\ Goto("service") /\ crypto' = NoCrypto
                /\ UNCHANGED <<defaults, read, result>>
             \/ Fault("deploy") /\ Conclude(Failure("deploy"))
       \/ Immutable(obj.spec) /\ NoFault /\ Fail("immutable") /\ UNCHANGED deployment
       \/ Fault("deploy") /\ Fail("deploy") /\ UNCHANGED deployment
    /\ UNCHANGED <<crVars, quietVars, cryptoVars, service>>

\* A Service that had to be created, too, ends in the branch of the failures, with no
\* error to report.
ApplyService ==
    /\ pc = "service"
    /\ \/ /\ NoFault /\ service' = TRUE
          /\ Conclude(IF service THEN Success ELSE Failure(""))
       \/ Fault("service") /\ Conclude(Failure("service")) /\ service' \in {service, TRUE}
    /\ UNCHANGED <<crVars, quietVars, cryptoVars, deployment, podVars>>

-----------------------------------------------------------------------------
(* setConditionStatus and updateCRStatusOrFailReconcile.                   *)

\* The copy with the message and the condition that go with result.
Marked(o, message) ==
    [o EXCEPT !.status = result.status, !.message = message,
              !.conditions = SetCondition(o.conditions, result.status,
                  Condition(IF result.status = "Running" THEN "True" ELSE "False", message))]

\* A new status is patched at once, whatever version there is; the answer of the patch
\* takes the place of the error to be reported.
Mark ==
    /\ pc = "mark" /\ pc' = "status" /\ UNCHANGED <<queued, passVars>>
    /\ \/ /\ obj.status = result.status /\ NoFault
          /\ obj' = Marked(obj, result.message) /\ UNCHANGED <<crVars, objFresh>>
       \/ /\ obj.status # result.status /\ NoFault
          /\ Store([cr EXCEPT !.status = result.status])
          /\ obj' = Marked(cr, "") /\ objFresh' = TRUE
       \/ /\ obj.status # result.status /\ Fault("patch")
          /\ obj' = Marked(obj, "patch") /\ UNCHANGED <<crVars, objFresh>>
    /\ UNCHANGED <<quietVars, cryptoVars, clusterVars>>

\* No delay and no retry, but for an error of this write.
UpdateStatus ==
    /\ pc = "status"
    /\ \/ /\ objFresh /\ NoFault /\ Return(FALSE)
          /\ Store([cr EXCEPT !.status = obj.status, !.message = obj.message,
                              !.conditions = obj.conditions])
          /\ repeated' = (cr' = cr /\ cr.message # "")
       \/ /\ \/ ~objFresh /\ NoFault
             \/ Fault("status")
          /\ Return(TRUE) /\ UNCHANGED <<crVars, repeated>>
    /\ UNCHANGED <<template, announced, cryptoVars, clusterVars>>

Reconcile ==
    \/ Begin \/ Adopt \/ FinalizeFails \/ DeleteDeployment \/ DeleteService \/ DeleteSecret
    \/ Release \/ ReadTemplate \/ ReadSecret \/ Enroll \/ StoreSecret \/ Deploy
    \/ ApplyService \/ Mark \/ UpdateStatus

Next ==
    \/ Edit \/ EditTemplate \/ LoseSecret
    \/ CacheSync \/ TemplateEvent \/ RolloutDone \/ Crash \/ Reconcile

Spec == Init /\ [][Next]_vars

\* The manager keeps the worker running and the informers delivering, Kubernetes
\* finishes rollouts.
FairSpec == /\ Spec /\ WF_vars(Reconcile) /\ WF_vars(CacheSync) /\ WF_vars(TemplateEvent)
            /\ WF_vars(RolloutDone)

-----------------------------------------------------------------------------
(* What must hold.                                                         *)

TypeOK ==
    /\ {cr, cache, obj} \subseteq Object
    /\ {synced, queued, announced, service, rolling, objFresh, missed, repeated} \subseteq BOOLEAN
    /\ template \in Templates /\ defaults \in Templates \cup {None}
    /\ secret \in Nat \cup {Absent} /\ {issued, pods} \subseteq Nat
    /\ deployment \in {None} \cup [spec : Specs, template : Templates \cup {None},
                                   restart : Nat]
    /\ pc \in Labels /\ read \in {"", "absent", "current", "stale", "error"}
    /\ crypto \in [cert : Nat, updated : BOOLEAN] /\ result \in Result
    /\ {edits, faults, crashes} \subseteq Nat

\* A chaincode that is gone has left no Deployment, Service or Secret behind
\* (finalizeChaincode, addFinalizer), whenever it was deleted and whatever failed.
NothingLeftBehind ==
    cr.phase = "gone" => deployment = None /\ ~service /\ secret = Absent

\* Nothing is going on, and nothing will until somebody changes something.
Quiet == pc = "idle" /\ ~queued /\ synced /\ announced

\* The cluster has what spec and template ask for.
Deployed == /\ service /\ deployment # None
            /\ deployment.spec = cr.spec
            /\ deployment.template = IF cr.spec \in Templated THEN template ELSE None

\* Running, once everything has been delivered and worked off, means that the
\* Deployment is the one that spec and template ask for now: no edit during a pass, no
\* late event and no conflict leaves the status of an older spec behind.
RunningMeansDeployed ==
    Quiet /\ cr.phase = "managed" /\ cr.status = "Running" => Deployed

\* Then the pods run with the certificate in the Secret, too (the note updatedsecrettime
\* restarts them), unless a pass with a new certificate ended before it could say so.
PodsUseSecret ==
    Quiet /\ ~rolling /\ cr.phase = "managed" /\ cr.status = "Running" /\ ~missed
        => (cr.spec \in TLS /\ secret > 0 => pods = secret)

\* After the last edit, the chaincode comes to be deployed as its spec says and no error
\* stays in its status, unless its pod labels were changed or a pass repeats the error
\* of the one before: nothing has changed then, and no event retries it.
Converges ==
    <>[](cr.phase \in {"new", "managed"} /\ ~Immutable(cr.spec) /\ ~repeated
             => Deployed /\ cr.message = "")
=============================================================================
