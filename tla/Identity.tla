------------------------------- MODULE Identity -------------------------------
(***************************************************************************)
(* An identity of an organization                                          *)
(* (controllers/identity/identity_controller.go): one FabricIdentity, the  *)
(* Secret with its certificate and key, and the Fabric CA that registers   *)
(* and enrols it.  Identities share nothing; one stands for all.  The      *)
(* credential store is Kubernetes, the worker renews certificates.         *)
(*                                                                         *)
(* The CA is external: it knows one password of the user, and forgets it   *)
(* when it is made anew, with another root.                                *)
(***************************************************************************)
EXTENDS Integers

CONSTANTS
    Passwords,     \* what the spec may say of the enrol secret
    First,         \* what it says at first
    Known,         \* the password the CA knows at first, or None
    Registers,     \* the spec has a register section
    None,          \* a user the CA does not know
    Faulty,        \* the calls that may fail
    MaxRoot,       \* bound: roots of the CA
    MaxEdits,      \* bound: changes by users, certificates that age
    MaxFaults,     \* bound: failed calls
    MaxCrashes,    \* bound: restarts of the operator
    MaxTotal       \* bound: all of these together

ASSUME PasswordAssumption == /\ First \in Passwords /\ None \notin Passwords
                             /\ Known \in Passwords \cup {None} /\ Registers \in BOOLEAN
ASSUME LimitAssumption == /\ {MaxEdits, MaxFaults, MaxCrashes, MaxTotal} \subseteq Nat
                          /\ MaxRoot \in Nat \ {0}

VARIABLES
    cr, cache, synced,             \* API server and informer
    queued, timer,                 \* work queue, key to be added after a delay
    known, root,                   \* CA: password of the user, its root by number
    secret, age,                   \* certificate in the Secret, how close to its end
    pc, obj, objFresh,             \* the worker and its copy of the resource
    read, readFresh, crypto,       \* its copy of the Secret, the certificate to store
    error, again,                  \* the error to report, whether it asks for a retry
    lost,                          \* history: the Secret was lost after the last pass
                                   \* that found or stored it
    edits, faults, crashes         \* what the bounds bound

crVars == <<cr, cache, synced>>
queueVars == <<queued, timer>>
caVars == <<known, root>>
secretVars == <<secret, age>>
copyVars == <<obj, objFresh>>
passVars == <<read, readFresh, crypto, error, again>>
envVars == <<edits, faults, crashes>>
vars == <<crVars, queueVars, caVars, secretVars, pc, copyVars, passVars, lost, envVars>>

\* A certificate; two serial numbers tell the one that is replaced from the new one.
Certificate == [root : 1..MaxRoot, serial : {0, 1}]
Absent == [root |-> 0, serial |-> 0]       \* no Secret
Broken == [root |-> 0, serial |-> 1]       \* a Secret whose certificate cannot be parsed
Secrets == Certificate \cup {Absent, Broken}
Ages == {"fresh", "near", "expired"}

\* "unset" is a message no write has touched yet.
Errors == {"read", "register", "parse", "enroll", "password", "store", "conflict"}
Object == [password : Passwords, phase : {"new", "managed", "deleting", "gone"},
           status : {"", "Running", "Failed"},
           message : {"unset", "", "setup", "patch"} \cup Errors]

Labels == {"idle", "adopt", "release", "secret", "register", "reenroll", "enroll", "store",
           "setup", "patch", "status"}

Blank == [password |-> First, phase |-> "new", status |-> "", message |-> "unset"]

Init ==
    /\ cr = Blank /\ cache = cr /\ synced = TRUE /\ queued = TRUE /\ timer = FALSE
    /\ known = Known /\ root = 1
    /\ secret = Absent /\ age = "fresh" /\ lost = FALSE
    /\ pc = "idle" /\ obj = Blank /\ objFresh = FALSE
    /\ read = Absent /\ readFresh = FALSE /\ crypto = Absent /\ error = "" /\ again = TRUE
    /\ edits = 0 /\ faults = 0 /\ crashes = 0

-----------------------------------------------------------------------------
(* Users, time, the CA and the manager around the reconciler.              *)

WithinTotal == edits + faults + crashes < MaxTotal

\* A change by a user or by time, within the bound.
Edits == WithinTotal /\ edits < MaxEdits /\ edits' = edits + 1 /\ UNCHANGED <<faults, crashes>>

\* A user corrects or spoils the password, or deletes the identity.
Edit ==
    /\ Edits
    /\ \/ cr.phase # "gone" /\ \E p \in Passwords \ {cr.password} :
                                   cr' = [cr EXCEPT !.password = p]
       \/ cr.phase = "new" /\ cr' = [cr EXCEPT !.phase = "gone"]
       \/ cr.phase = "managed" /\ cr' = [cr EXCEPT !.phase = "deleting"]
    /\ synced' = FALSE /\ objFresh' = FALSE
    /\ UNCHANGED <<cache, queueVars, caVars, secretVars, pc, obj, passVars, lost>>

\* A user deletes the Secret or spoils it; the controller owns it and is told.
LoseSecret ==
    /\ Edits /\ secret \in Certificate
    /\ secret' \in {Absent, Broken} /\ age' = "fresh"
    /\ readFresh' = FALSE /\ lost' = TRUE /\ queued' = TRUE
    /\ UNCHANGED <<crVars, timer, caVars, pc, copyVars, read, crypto, error, again>>

\* The CA is made anew: another root, and it does not know the user.
ReplaceCA ==
    /\ Edits /\ root < MaxRoot /\ root' = root + 1 /\ known' = None
    /\ UNCHANGED <<crVars, queueVars, secretVars, pc, copyVars, passVars, lost>>

\* The certificate comes to its end.
CertAges ==
    /\ Edits /\ secret \in Certificate
    /\ \/ age = "fresh" /\ age' = "near"
       \/ age = "near" /\ age' = "expired"
    /\ UNCHANGED <<crVars, queueVars, caVars, secret, pc, copyVars, passVars, lost>>

\* The informer delivers the last version.
CacheSync == /\ ~synced /\ synced' = TRUE /\ cache' = cr /\ queued' = TRUE
             /\ UNCHANGED <<cr, timer, caVars, secretVars, pc, copyVars, passVars, lost,
                            envVars>>

\* The delay of a key is over, ten seconds or two hours: longer than the informer and a
\* pass that was asked for in between take.
Timer == /\ timer /\ synced /\ ~queued /\ pc = "idle" /\ timer' = FALSE /\ queued' = TRUE
         /\ UNCHANGED <<crVars, caVars, secretVars, pc, copyVars, passVars, lost, envVars>>

NoPass == /\ read' = Absent /\ readFresh' = FALSE /\ crypto' = Absent
          /\ error' = "" /\ again' = TRUE

\* The operator dies and another instance starts, which lists everything.
Crash ==
    /\ WithinTotal /\ crashes < MaxCrashes /\ crashes' = crashes + 1
    /\ cache' = cr /\ synced' = TRUE /\ queued' = (cr.phase # "gone") /\ timer' = FALSE
    /\ pc' = "idle" /\ obj' = Blank /\ objFresh' = FALSE /\ NoPass
    /\ UNCHANGED <<cr, caVars, secretVars, lost, edits, faults>>

-----------------------------------------------------------------------------
(* The steps of one reconcile.                                             *)

Fault(call) == /\ call \in Faulty /\ WithinTotal /\ faults < MaxFaults
               /\ faults' = faults + 1 /\ UNCHANGED <<edits, crashes>>
NoFault == UNCHANGED envVars

\* The API server stores o; an equal object makes no new version.
Store(o) == /\ cr' = o /\ synced' = (synced /\ o = cr) /\ UNCHANGED cache

\* Reconcile returns; with an error the key is added again at once, or else after a delay.
Return(retry, delay) ==
    /\ pc' = "idle" /\ queued' = (queued \/ retry) /\ timer' = (timer \/ delay)
    /\ obj' = Blank /\ objFresh' = FALSE /\ NoPass

Goto(l) == pc' = l /\ UNCHANGED <<queueVars, copyVars>>

\* A write of the worker's copy, to the version it was made from.
Fresh == objFresh /\ NoFault
Refused(call) == \/ ~objFresh /\ NoFault
                 \/ Fault(call)

\* setConditionStatus of an object that fails: a status that is Failed already gets the
\* error as its message; otherwise the status is patched first, and the error is lost.
FailAs(o, e, retry) ==
    /\ error' = e /\ again' = retry
    /\ UNCHANGED <<queueVars, objFresh, read, readFresh, crypto>>
    /\ IF o.status = "Failed" THEN pc' = "status" /\ obj' = [o EXCEPT !.message = e]
       ELSE pc' = "patch" /\ obj' = o
Fail(e) == FailAs(obj, e, TRUE)

\* r.Get from the cache; only a resource that is not gone is worked on.
Begin ==
    /\ pc = "idle" /\ queued /\ queued' = FALSE /\ NoFault
    /\ IF cache.phase = "gone"
       THEN UNCHANGED <<pc, copyVars>>
       ELSE /\ obj' = cache /\ objFresh' = synced
            /\ pc' = CASE cache.phase = "new" -> "adopt"
                       [] cache.phase = "deleting" -> "release"
                       [] OTHER -> "secret"
    /\ UNCHANGED <<crVars, timer, caVars, secretVars, passVars, lost>>

\* addFinalizer.
Adopt ==
    /\ pc = "adopt"
    /\ \/ /\ Fresh /\ Store([cr EXCEPT !.phase = "managed"])
          /\ obj' = cr' /\ pc' = "secret" /\ UNCHANGED <<queueVars, objFresh, passVars>>
       \/ Refused("update") /\ Return(TRUE, FALSE) /\ UNCHANGED crVars
    /\ UNCHANGED <<caVars, secretVars, lost>>

\* The finalizer is removed: the resource is gone, the Secret is collected with it.
Release ==
    /\ pc = "release"
    /\ \/ /\ Fresh /\ Store([cr EXCEPT !.phase = "gone"]) /\ Return(FALSE, FALSE)
          /\ secret' = Absent /\ age' = "fresh"
       \/ Refused("update") /\ Return(TRUE, FALSE) /\ UNCHANGED <<crVars, secretVars>>
    /\ UNCHANGED <<caVars, lost>>

ReadSecret ==
    /\ pc = "secret"
    /\ \/ /\ NoFault /\ read' = secret /\ readFresh' = TRUE
          /\ Goto("register") /\ UNCHANGED <<crypto, error, again>>
       \/ Fault("read") /\ Fail("read")
    /\ UNCHANGED <<crVars, caVars, secretVars, lost>>

\* Mutant of Register: a Secret that cannot be parsed is stored once more as it is.
RegisterUnparsed ==
    /\ pc = "register"
    /\ \/ /\ NoFault /\ known' = IF Registers /\ known = None THEN obj.password ELSE known
          /\ crypto' = read /\ Goto(IF read = Absent THEN "enroll" ELSE "store")
          /\ UNCHANGED <<read, readFresh, error, again>>
       \/ Registers /\ Fault("register") /\ Fail("register") /\ UNCHANGED known
    /\ UNCHANGED <<crVars, root, secretVars, lost>>

\* RegisterUser: to be registered already is no error, whatever the password.  What
\* comes next depends on the Secret; a certificate that is not to be renewed is stored
\* once more.
Register ==
    /\ pc = "register"
    /\ \/ /\ NoFault
          /\ known' = IF Registers /\ known = None THEN obj.password ELSE known
          /\ \/ read = Broken /\ Fail("parse")
             \/ /\ read # Broken /\ crypto' = read
                /\ Goto(IF read = Absent THEN "enroll"
                        ELSE IF age # "fresh" THEN "reenroll" ELSE "store")
                /\ UNCHANGED <<read, readFresh, error, again>>
       \/ Registers /\ Fault("register") /\ Fail("register") /\ UNCHANGED known
    /\ UNCHANGED <<crVars, root, secretVars, lost>>

Issue == crypto' = [root |-> root, serial |-> IF read = Absent THEN 0 ELSE 1 - read.serial]

\* Mutant of Reenroll: an authentication failure is an error like any other.
ReenrollOnly ==
    /\ pc = "reenroll" /\ NoFault
    /\ \/ /\ read.root = root /\ age # "expired" /\ Issue /\ Goto("store")
          /\ UNCHANGED <<read, readFresh, error, again>>
       \/ (read.root # root \/ age = "expired") /\ Fail("enroll")
    /\ UNCHANGED <<crVars, caVars, secretVars, lost>>

\* ReenrollSignCryptoMaterial: the CA accepts a certificate of its own that has not
\* expired; any other is an authentication failure, and the worker enrols instead.
Reenroll ==
    /\ pc = "reenroll"
    /\ \/ /\ NoFault /\ read.root = root /\ age # "expired" /\ Issue /\ Goto("store")
          /\ UNCHANGED <<read, readFresh, error, again>>
       \/ /\ NoFault /\ (read.root # root \/ age = "expired") /\ Goto("enroll")
          /\ UNCHANGED passVars
       \/ Fault("enroll") /\ Fail("enroll")
    /\ UNCHANGED <<crVars, caVars, secretVars, lost>>

\* CreateSignCryptoMaterial: a wrong password is reported without a retry.
Enroll ==
    /\ pc = "enroll"
    /\ \/ /\ NoFault /\ known = obj.password /\ Issue /\ Goto("store")
          /\ UNCHANGED <<read, readFresh, error, again>>
       \/ NoFault /\ known # obj.password /\ FailAs(obj, "password", FALSE)
       \/ Fault("enroll") /\ Fail("enroll")
    /\ UNCHANGED <<crVars, caVars, secretVars, lost>>

\* Mutant of StoreSecret: that it could not be stored is not noticed.
StoreUnheard ==
    /\ pc = "store" /\ lost' = FALSE /\ pc' = "setup"
    /\ \/ /\ NoFault /\ readFresh
          /\ secret' = crypto /\ age' = IF crypto = read THEN age ELSE "fresh"
          /\ queued' = (queued \/ crypto # read)
       \/ /\ (~readFresh /\ NoFault) \/ Fault("store")
          /\ UNCHANGED <<secretVars, queued>>
    /\ UNCHANGED <<crVars, timer, caVars, copyVars, passVars>>

\* The Secret is created, or updated from the version that was read.
StoreSecret ==
    /\ pc = "store"
    /\ \/ /\ NoFault /\ readFresh
          /\ secret' = crypto /\ age' = IF crypto = read THEN age ELSE "fresh"
          /\ lost' = FALSE /\ pc' = "setup" /\ queued' = (queued \/ crypto # read)
          /\ UNCHANGED <<timer, copyVars, passVars>>
       \/ /\ (~readFresh /\ NoFault) \/ Fault("store")
          /\ Fail("store") /\ UNCHANGED <<secretVars, lost>>
    /\ UNCHANGED <<crVars, caVars>>

\* The status becomes Running; the next pass comes in two hours.
Setup ==
    /\ pc = "setup"
    /\ LET new == [obj EXCEPT !.status = "Running", !.message = "setup"] IN
       \/ Fresh /\ Store(new) /\ Return(FALSE, TRUE)
       \/ Refused("status") /\ FailAs(new, "conflict", TRUE) /\ UNCHANGED crVars
    /\ UNCHANGED <<caVars, secretVars, lost>>

\* The patch asks for no version; its answer, with the last one, replaces the worker's
\* copy, but for a message no write has touched.
Patch ==
    /\ pc = "patch" /\ pc' = "status"
    /\ \/ /\ NoFault /\ Store([cr EXCEPT !.status = "Failed"])
          /\ obj' = [cr' EXCEPT !.message = IF @ = "unset" THEN obj.message ELSE @]
          /\ objFresh' = TRUE
       \/ /\ Fault("patch") /\ obj' = [obj EXCEPT !.status = "Failed", !.message = "patch"]
          /\ UNCHANGED <<crVars, objFresh>>
    /\ UNCHANGED <<queueVars, passVars, caVars, secretVars, lost>>

\* updateCRStatusOrFailReconcileWithRequeue.
UpdateStatus ==
    /\ pc = "status"
    /\ \/ /\ Fresh /\ Return(FALSE, again)
          /\ Store([obj EXCEPT !.message = IF @ = "unset" THEN "" ELSE @])
       \/ Refused("status") /\ Return(TRUE, FALSE) /\ UNCHANGED crVars
    /\ UNCHANGED <<caVars, secretVars, lost>>

Reconcile ==
    \/ Begin \/ Adopt \/ Release \/ ReadSecret \/ Register \/ Reenroll \/ Enroll
    \/ StoreSecret \/ Setup \/ Patch \/ UpdateStatus

Next == Edit \/ LoseSecret \/ ReplaceCA \/ CertAges \/ CacheSync \/ Timer \/ Crash \/ Reconcile

Spec == Init /\ [][Next]_vars

\* The manager keeps the worker running and the informer delivering, and delays end.
FairSpec == Spec /\ WF_vars(Reconcile) /\ WF_vars(CacheSync) /\ WF_vars(Timer)
-----------------------------------------------------------------------------
(* What must hold.                                                         *)

TypeOK ==
    /\ {cr, cache, obj} \subseteq Object
    /\ {synced, queued, timer, objFresh, readFresh, again, lost} \subseteq BOOLEAN
    /\ known \in Passwords \cup {None} /\ root \in 1..MaxRoot
    /\ {secret, read} \subseteq Secrets /\ crypto \in Secrets \ {Broken} /\ age \in Ages
    /\ pc \in Labels /\ error \in Errors \cup {""}
    /\ {edits, faults, crashes} \subseteq Nat

\* Running is said of a certificate that is there, unless the Secret was lost and no pass
\* has stored one since (Reconcile).
RunningMeansEnrolled == cr.status = "Running" /\ cr.phase # "gone" /\ ~lost
                        => secret \in Certificate

\* In the end there is a certificate that is not near its end and the status is Running,
\* or the status says what a user has to do: the password the CA knows is another one, or
\* the Secret's certificate cannot be parsed (Reconcile, setConditionStatus).
Converges ==
    <>[](cr.phase \in {"new", "managed"}
             => \/ /\ secret \in Certificate /\ age = "fresh"
                   /\ cr.status = "Running" /\ cr.message = "setup"
                \/ /\ known # cr.password /\ secret # Broken
                   /\ cr.status = "Failed" /\ cr.message = "password"
                \/ /\ secret = Broken
                   /\ cr.status = "Failed" /\ cr.message = "parse")
===============================================================================
