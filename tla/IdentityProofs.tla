---------------------------- MODULE IdentityProofs ----------------------------
(* Theorems about Identity, for all passwords and every bound.                *)
EXTENDS Identity, TLAPS

USE DEF Goto, NoFault, NoPass, vars, crVars, queueVars, caVars, secretVars, copyVars, passVars,
        envVars

-----------------------------------------------------------------------------
(* What the steps are made of.                                                *)

\* The environment, the cluster and the worker, each of its own types.
EnvTypeOK == edits \in Nat /\ faults \in Nat /\ crashes \in Nat
WorldTypeOK == /\ cr \in Object /\ cache \in Object
               /\ synced \in BOOLEAN /\ queued \in BOOLEAN /\ timer \in BOOLEAN
               /\ lost \in BOOLEAN
               /\ known \in Passwords \cup {None} /\ root \in 1..MaxRoot
               /\ secret \in Secrets /\ age \in Ages
WorkTypeOK == /\ pc \in Labels /\ obj \in Object /\ objFresh \in BOOLEAN
              /\ readFresh \in BOOLEAN /\ again \in BOOLEAN
              /\ read \in Secrets /\ crypto \in Secrets \ {Broken}
              /\ error \in Errors \cup {""}

LEMMA TypeParts == /\ TypeOK <=> EnvTypeOK /\ WorldTypeOK /\ WorkTypeOK
                   /\ TypeOK' <=> EnvTypeOK' /\ WorldTypeOK' /\ WorkTypeOK'
BY DEF TypeOK, EnvTypeOK, WorldTypeOK, WorkTypeOK

\* The blank copy and the copies the worker makes are objects.
LEMMA CopyTypes ==
    /\ Blank \in Object
    /\ \A o \in Object :
        /\ \A p \in Passwords : [o EXCEPT !.password = p] \in Object
        /\ \A p \in {"new", "managed", "deleting", "gone"} : [o EXCEPT !.phase = p] \in Object
        /\ \A s \in {"", "Running", "Failed"} : [o EXCEPT !.status = s] \in Object
        /\ \A m \in {"unset", "", "setup", "patch"} \cup Errors : [o EXCEPT !.message = m] \in Object
BY PasswordAssumption DEF Blank, Object

LEMMA SecretTypes == /\ Absent \in Secrets \ {Broken} /\ Broken \in Secrets
                     /\ Certificate \subseteq Secrets \ {Absent, Broken}
BY DEF Absent, Broken, Secrets, Certificate

\* Every call leaves the counters of the bounds numbers.
LEMMA CountTypes ==
    ASSUME EnvTypeOK, NoFault \/ (\E c : Fault(c)) \/ Edits
    PROVE  EnvTypeOK'
BY DEF EnvTypeOK, Fault, Edits

LEMMA StoreType == ASSUME WorldTypeOK, NEW o \in Object, Store(o)
                   PROVE  cr' \in Object /\ cache' \in Object /\ synced' \in BOOLEAN
BY DEF WorldTypeOK, Store

LEMMA ReturnType == ASSUME WorldTypeOK, NEW r \in BOOLEAN, NEW d \in BOOLEAN, Return(r, d)
                    PROVE  WorkTypeOK' /\ queued' \in BOOLEAN /\ timer' \in BOOLEAN
BY CopyTypes, SecretTypes DEF WorldTypeOK, WorkTypeOK, Return, Labels

LEMMA FailAsType == ASSUME WorkTypeOK, NEW o \in Object, NEW e \in Errors, NEW r \in BOOLEAN,
                           FailAs(o, e, r)
                    PROVE  WorkTypeOK'
<1>1. [o EXCEPT !.message = e] \in Object
  BY CopyTypes
<1> QED BY <1>1 DEF WorkTypeOK, FailAs, Labels

-----------------------------------------------------------------------------
(* Type correctness.                                                          *)

\* The initial state is of the types.
THEOREM TypeInit == Init => TypeOK
<1> SUFFICES ASSUME Init PROVE TypeOK OBVIOUS
<1>1. EnvTypeOK
  BY DEF Init, EnvTypeOK
<1>2. WorldTypeOK
  <2>1. 1 \in 1..MaxRoot
    BY LimitAssumption
  <2> QED BY <2>1, PasswordAssumption, CopyTypes, SecretTypes DEF Init, WorldTypeOK, Ages
<1>3. WorkTypeOK
  BY CopyTypes, SecretTypes DEF Init, WorkTypeOK, Labels
<1> QED BY <1>1, <1>2, <1>3, TypeParts

LEMMA TypeEnvironment ==
    ASSUME TypeOK, Edit \/ LoseSecret \/ ReplaceCA \/ CertAges \/ CacheSync \/ Timer \/ Crash
    PROVE  TypeOK'
<1> USE TypeParts
<1>1. CASE Edit
  <2>1. cr' \in Object
    <3>1. CASE \E p \in Passwords \ {cr.password} : cr' = [cr EXCEPT !.password = p]
      BY <3>1 DEF WorldTypeOK, Object
    <3>2. CASE \E p \in {"gone", "deleting"} : cr' = [cr EXCEPT !.phase = p]
      BY <3>2 DEF WorldTypeOK, Object
    <3> QED BY <1>1, <3>1, <3>2 DEF Edit
  <2>2. EnvTypeOK'
    BY <1>1, CountTypes DEF Edit
  <2> QED BY <1>1, <2>1, <2>2 DEF Edit, WorldTypeOK, WorkTypeOK
<1>2. CASE LoseSecret
  BY <1>2, CountTypes, SecretTypes DEF LoseSecret, WorldTypeOK, WorkTypeOK, Ages
<1>3. CASE ReplaceCA
  <2>1. root' \in 1..MaxRoot
    BY <1>3, LimitAssumption DEF ReplaceCA, WorldTypeOK
  <2> QED BY <1>3, <2>1, CountTypes DEF ReplaceCA, WorldTypeOK, WorkTypeOK
<1>4. CASE CertAges
  BY <1>4, CountTypes DEF CertAges, WorldTypeOK, WorkTypeOK, Ages
<1>5. CASE CacheSync
  BY <1>5 DEF CacheSync, WorldTypeOK, WorkTypeOK, EnvTypeOK
<1>6. CASE Timer
  BY <1>6 DEF Timer, WorldTypeOK, WorkTypeOK, EnvTypeOK
<1>7. CASE Crash
  <2>1. EnvTypeOK'
    <3>1. edits \in Nat /\ faults \in Nat /\ crashes \in Nat
      BY DEF EnvTypeOK
    <3>2. edits' = edits /\ faults' = faults /\ crashes' = crashes + 1
      BY <1>7 DEF Crash
    <3> QED BY <3>1, <3>2 DEF EnvTypeOK
  <2>2. WorldTypeOK'
    <3>1. queued' \in BOOLEAN
      BY <1>7, ZenonT(30) DEF Crash
    <3> QED BY <1>7, <3>1 DEF Crash, WorldTypeOK
  <2>3. WorkTypeOK'
    <3>1. Absent \in Secrets \ {Broken} /\ Blank \in Object
      BY CopyTypes, SecretTypes
    <3> QED BY <1>7, <3>1 DEF Crash, WorkTypeOK, Labels
  <2> QED BY <2>1, <2>2, <2>3
<1> QED BY <1>1, <1>2, <1>3, <1>4, <1>5, <1>6, <1>7

\* The certificate the CA issues.
LEMMA IssueType == ASSUME WorldTypeOK, WorkTypeOK, Issue PROVE crypto' \in Certificate
<1>1. (IF read = Absent THEN 0 ELSE 1 - read.serial) \in {0, 1}
  <2>1. read \in Certificate \/ read = Absent \/ read = Broken
    BY DEF WorkTypeOK, Secrets
  <2>2. CASE read \in Certificate
    <3>1. read.serial = 0 \/ read.serial = 1
      BY <2>2 DEF Certificate
    <3> QED BY <3>1
  <2>3. CASE read = Absent
    BY <2>3
  <2>4. CASE read = Broken
    BY <2>4 DEF Broken
  <2> QED BY <2>1, <2>2, <2>3, <2>4
<1> QED BY <1>1 DEF WorldTypeOK, WorkTypeOK, Issue, Secrets, Certificate, Absent, Broken

LEMMA TypeReconcile == ASSUME TypeOK, Reconcile PROVE TypeOK'
<1>0. /\ EnvTypeOK /\ WorldTypeOK /\ WorkTypeOK
  BY TypeParts
<1>1. EnvTypeOK'
  BY <1>0, CountTypes
     DEF Reconcile, Begin, Adopt, Release, ReadSecret, Register, Reenroll, Enroll, StoreSecret,
         Setup, Patch, UpdateStatus, Fresh, Refused
<1>2. CASE Begin
  BY <1>0, <1>1, <1>2, TypeParts DEF Begin, WorldTypeOK, WorkTypeOK, Labels
<1>3. CASE Adopt
  <2>1. CASE Fresh /\ Store([cr EXCEPT !.phase = "managed"])
             /\ obj' = cr' /\ pc' = "secret" /\ UNCHANGED <<queueVars, objFresh, passVars>>
    <3>1. [cr EXCEPT !.phase = "managed"] \in Object
      BY <1>0, CopyTypes DEF WorldTypeOK
    <3>2. cr' \in Object /\ cache' \in Object /\ synced' \in BOOLEAN
      BY <1>0, <2>1, <3>1, StoreType
    <3> QED BY <1>0, <1>1, <1>3, <2>1, <3>2, TypeParts DEF Adopt, WorldTypeOK, WorkTypeOK, Labels
  <2>2. CASE Refused("update") /\ Return(TRUE, FALSE) /\ UNCHANGED crVars
    BY <1>0, <1>1, <1>3, <2>2, ReturnType, TypeParts DEF Adopt, WorldTypeOK
  <2> QED BY <1>3, <2>1, <2>2 DEF Adopt
<1>4. CASE Release
  <2>1. [cr EXCEPT !.phase = "gone"] \in Object
    BY <1>0, CopyTypes DEF WorldTypeOK
  <2>2. WorkTypeOK' /\ queued' \in BOOLEAN /\ timer' \in BOOLEAN
    BY <1>0, <1>4, ReturnType DEF Release
  <2>3. cr' \in Object /\ cache' \in Object /\ synced' \in BOOLEAN
    BY <1>0, <1>4, <2>1, StoreType DEF Release, WorldTypeOK
  <2> QED BY <1>0, <1>1, <1>4, <2>2, <2>3, SecretTypes, TypeParts DEF Release, WorldTypeOK, Ages
<1>5. CASE ReadSecret
  <2>1. WorkTypeOK'
    <3>1. CASE Fault("read") /\ Fail("read")
      BY <1>0, <3>1, FailAsType DEF Fail, Errors, WorkTypeOK
    <3>2. CASE ~(Fault("read") /\ Fail("read"))
      BY <1>0, <1>5, <3>2 DEF ReadSecret, WorkTypeOK, WorldTypeOK, Labels
    <3> QED BY <3>1, <3>2
  <2> QED BY <1>0, <1>1, <1>5, <2>1, TypeParts DEF ReadSecret, WorldTypeOK, Fail, FailAs
<1>6. CASE Register
  <2>1. WorkTypeOK'
    <3>1. CASE Fail("parse") \/ Fail("register")
      BY <1>0, <3>1, FailAsType DEF Fail, Errors, WorkTypeOK
    <3>2. CASE ~(Fail("parse") \/ Fail("register"))
      BY <1>0, <1>6, <3>2 DEF Register, WorkTypeOK, Labels
    <3> QED BY <3>1, <3>2
  <2>2. obj.password \in Passwords
    BY <1>0 DEF WorkTypeOK, Object
  <2> QED BY <1>0, <1>1, <1>6, <2>1, <2>2, TypeParts DEF Register, WorldTypeOK, Fail, FailAs
<1>7. CASE Reenroll
  <2>1. WorkTypeOK'
    <3>1. CASE Fail("enroll")
      BY <1>0, <3>1, FailAsType DEF Fail, Errors, WorkTypeOK
    <3>2. CASE ~Fail("enroll")
      BY <1>0, <1>7, <3>2, IssueType, SecretTypes DEF Reenroll, WorkTypeOK, Labels
    <3> QED BY <3>1, <3>2
  <2> QED BY <1>0, <1>1, <1>7, <2>1, TypeParts DEF Reenroll, WorldTypeOK, Fail, FailAs
<1>8. CASE Enroll
  <2>1. WorkTypeOK'
    <3>1. CASE FailAs(obj, "password", FALSE) \/ Fail("enroll")
      BY <1>0, <3>1, FailAsType DEF Fail, Errors, WorkTypeOK
    <3>2. CASE ~(FailAs(obj, "password", FALSE) \/ Fail("enroll"))
      BY <1>0, <1>8, <3>2, IssueType, SecretTypes DEF Enroll, WorkTypeOK, Labels
    <3> QED BY <3>1, <3>2
  <2> QED BY <1>0, <1>1, <1>8, <2>1, TypeParts DEF Enroll, WorldTypeOK, Fail, FailAs
<1>9. CASE StoreSecret
  <2>1. WorkTypeOK'
    <3>1. CASE Fail("store")
      BY <1>0, <3>1, FailAsType DEF Fail, Errors, WorkTypeOK
    <3>2. CASE ~Fail("store")
      BY <1>0, <1>9, <3>2 DEF StoreSecret, WorkTypeOK, Labels
    <3> QED BY <3>1, <3>2
  <2> QED BY <1>0, <1>1, <1>9, <2>1, TypeParts
          DEF StoreSecret, WorldTypeOK, WorkTypeOK, Ages, Fail, FailAs
<1>10. CASE Setup
  <2> DEFINE new == [obj EXCEPT !.status = "Running", !.message = "setup"]
  <2>1. new \in Object
    BY <1>0 DEF WorkTypeOK, Object
  <2>2. CASE Fresh /\ Store(new) /\ Return(FALSE, TRUE)
    <3>1. cr' \in Object /\ cache' \in Object /\ synced' \in BOOLEAN
      BY <1>0, <2>1, <2>2, StoreType
    <3>2. WorkTypeOK' /\ queued' \in BOOLEAN /\ timer' \in BOOLEAN
      BY <1>0, <2>2, ReturnType
    <3> QED BY <1>0, <1>1, <1>10, <3>1, <3>2, TypeParts DEF Setup, WorldTypeOK
  <2>3. CASE FailAs(new, "conflict", TRUE) /\ UNCHANGED crVars
    <3>1. WorkTypeOK'
      BY <1>0, <2>1, <2>3, FailAsType DEF Errors
    <3> QED BY <1>0, <1>1, <1>10, <2>3, <3>1, TypeParts DEF Setup, WorldTypeOK, FailAs
  <2> QED BY <1>10, <2>2, <2>3 DEF Setup
<1>11. CASE Patch
  <2>1. [cr EXCEPT !.status = "Failed"] \in Object /\ obj \in Object
    BY <1>0, CopyTypes DEF WorldTypeOK, WorkTypeOK
  <2>2. cr' \in Object /\ cache' \in Object /\ synced' \in BOOLEAN
    BY <1>0, <1>11, <2>1, StoreType DEF Patch, WorldTypeOK
  <2>3. obj' \in Object
    BY <1>11, <2>1, <2>2 DEF Patch, Object
  <2> QED BY <1>0, <1>1, <1>11, <2>2, <2>3, TypeParts DEF Patch, WorldTypeOK, WorkTypeOK, Labels
<1>12. CASE UpdateStatus
  <2>1. [obj EXCEPT !.message = IF @ = "unset" THEN "" ELSE @] \in Object
    BY <1>0 DEF WorkTypeOK, Object
  <2>2. cr' \in Object /\ cache' \in Object /\ synced' \in BOOLEAN
    BY <1>0, <1>12, <2>1, StoreType DEF UpdateStatus, WorldTypeOK
  <2>3. WorkTypeOK' /\ queued' \in BOOLEAN /\ timer' \in BOOLEAN
    BY <1>0, <1>12, ReturnType DEF UpdateStatus, WorkTypeOK
  <2> QED BY <1>0, <1>1, <1>12, <2>2, <2>3, TypeParts DEF UpdateStatus, WorldTypeOK
<1> QED BY <1>2, <1>3, <1>4, <1>5, <1>6, <1>7, <1>8, <1>9, <1>10, <1>11, <1>12 DEF Reconcile

\* Every step keeps the types.
THEOREM TypeStep == TypeOK /\ [Next]_vars => TypeOK'
<1> SUFFICES ASSUME TypeOK, [Next]_vars PROVE TypeOK' OBVIOUS
<1>1. CASE UNCHANGED vars
  BY <1>1 DEF TypeOK
<1>2. CASE Next
  BY <1>2, TypeEnvironment, TypeReconcile DEF Next
<1> QED BY <1>1, <1>2

\* Every variable of the identity controller keeps to its type in every behaviour.
THEOREM TypeCorrect == Spec => []TypeOK
BY TypeInit, TypeStep, PTL DEF Spec

-----------------------------------------------------------------------------
(* Running means enrolled.  What makes it inductive: a worker whose copy is   *)
(* of the last version is as far with the finalizer as the API server, and a  *)
(* worker that stores has a certificate to store.                             *)

Linked ==
    /\ synced => cache = cr
    /\ objFresh => pc # "idle" /\ obj.phase = cr.phase
    /\ pc = "adopt" => obj.phase = "new"
    /\ pc = "status" => obj.status = "Failed"
    /\ pc = "store" => crypto \in Certificate
    /\ pc = "setup" => lost \/ secret \in Certificate

\* The fields of a changed copy.
LEMMA CopyFields ==
    \A o \in Object :
        /\ \A p : /\ [o EXCEPT !.password = p].phase = o.phase
                 /\ [o EXCEPT !.password = p].status = o.status
        /\ \A p : /\ [o EXCEPT !.phase = p].phase = p
                 /\ [o EXCEPT !.phase = p].status = o.status
        /\ \A s : /\ [o EXCEPT !.status = s].phase = o.phase
                 /\ [o EXCEPT !.status = s].status = s
        /\ \A m : /\ [o EXCEPT !.message = m].phase = o.phase
                 /\ [o EXCEPT !.message = m].status = o.status
BY DEF Object

\* At first nothing is cached that is not current, and nothing is reported.
THEOREM LinkedInit == Init => Linked /\ RunningMeansEnrolled
<1> SUFFICES ASSUME Init PROVE Linked /\ RunningMeansEnrolled OBVIOUS
<1>1. cr.status = ""
  BY DEF Init, Blank
<1>2. Linked
  BY DEF Init, Linked
<1> QED BY <1>1, <1>2 DEF RunningMeansEnrolled

\* Reporting a failure of a copy that has the phase of the worker's.
LEMMA FailLinked ==
    ASSUME TypeOK, Linked, NEW o \in Object, o.phase = obj.phase, pc # "idle",
           NEW e \in Errors, NEW r \in BOOLEAN, FailAs(o, e, r), UNCHANGED <<cr, cache, synced>>
    PROVE  Linked'
<1>1. /\ pc' = "status" \/ pc' = "patch"
      /\ obj'.phase = obj.phase
      /\ pc' = "status" => obj'.status = "Failed"
  <2>1. CASE o.status = "Failed"
    <3>1. pc' = "status" /\ obj' = [o EXCEPT !.message = e]
      BY <2>1 DEF FailAs
    <3> QED BY <2>1, <3>1, CopyFields
  <2>2. CASE o.status # "Failed"
    BY <2>2 DEF FailAs
  <2> QED BY <2>1, <2>2
<1> QED BY <1>1 DEF FailAs, Linked

\* A pass that ends leaves nothing that is linked.
LEMMA ReturnLinked ==
    ASSUME NEW r, NEW d, Return(r, d), synced' => cache' = cr' PROVE Linked'
BY DEF Return, Linked

LEMMA StoreLinked ==
    ASSUME Linked, NEW o, Store(o) PROVE synced' => cache' = cr'
BY DEF Linked, Store

LEMMA LinkedEnvironment ==
    ASSUME TypeOK, Linked,
           Edit \/ LoseSecret \/ ReplaceCA \/ CertAges \/ CacheSync \/ Timer \/ Crash
    PROVE  Linked'
<1>1. CASE Edit
  BY <1>1 DEF Edit, Linked
<1>2. CASE LoseSecret
  BY <1>2 DEF LoseSecret, Linked
<1>3. CASE ReplaceCA \/ CertAges
  BY <1>3 DEF ReplaceCA, CertAges, Linked
<1>4. CASE CacheSync \/ Timer
  BY <1>4 DEF CacheSync, Timer, Linked
<1>5. CASE Crash
  BY <1>5 DEF Crash, Linked
<1> QED BY <1>1, <1>2, <1>3, <1>4, <1>5

LEMMA LinkedReconcile == ASSUME TypeOK, Linked, Reconcile PROVE Linked'
<1>0. /\ EnvTypeOK /\ WorldTypeOK /\ WorkTypeOK
  BY TypeParts
<1>1. obj \in Object /\ cr \in Object
  BY <1>0 DEF WorldTypeOK, WorkTypeOK
<1>2. CASE Begin
  BY <1>2 DEF Begin, Linked
<1>3. CASE Adopt
  <2>1. CASE Fresh /\ Store([cr EXCEPT !.phase = "managed"])
             /\ obj' = cr' /\ pc' = "secret" /\ UNCHANGED <<queueVars, objFresh, passVars>>
    BY <1>3, <2>1, StoreLinked DEF Adopt, Linked
  <2>2. CASE Refused("update") /\ Return(TRUE, FALSE) /\ UNCHANGED crVars
    BY <2>2, ReturnLinked DEF Linked
  <2> QED BY <1>3, <2>1, <2>2 DEF Adopt
<1>4. CASE Release
  <2>1. CASE Store([cr EXCEPT !.phase = "gone"]) /\ Return(FALSE, FALSE)
    BY <2>1, ReturnLinked, StoreLinked
  <2>2. CASE Return(TRUE, FALSE) /\ UNCHANGED crVars
    BY <2>2, ReturnLinked DEF Linked
  <2> QED BY <1>4, <2>1, <2>2 DEF Release
<1>5. CASE ReadSecret
  <2>1. CASE Fail("read")
    BY <1>1, <1>5, <2>1, FailLinked DEF ReadSecret, Fail, Errors
  <2> QED BY <1>5, <2>1 DEF ReadSecret, Linked
<1>6. CASE Register
  <2>1. CASE Fail("parse") \/ Fail("register")
    BY <1>1, <1>6, <2>1, FailLinked DEF Register, Fail, Errors
  <2>2. CASE ~(Fail("parse") \/ Fail("register"))
    <3>1. read # Broken /\ read # Absent => read \in Certificate
      BY <1>0 DEF WorkTypeOK, Secrets
    <3> QED BY <1>6, <2>2, <3>1 DEF Register, Linked
  <2> QED BY <2>1, <2>2
<1>7. CASE Reenroll
  <2>1. CASE Fail("enroll")
    BY <1>1, <1>7, <2>1, FailLinked DEF Reenroll, Fail, Errors
  <2> QED BY <1>0, <1>7, <2>1, IssueType DEF Reenroll, Linked
<1>8. CASE Enroll
  <2>1. CASE FailAs(obj, "password", FALSE) \/ Fail("enroll")
    BY <1>1, <1>8, <2>1, FailLinked DEF Enroll, Fail, Errors
  <2>2. CASE NoFault /\ known = obj.password /\ Issue /\ Goto("store")
    BY <1>0, <1>8, <2>2, IssueType DEF Enroll, Linked
  <2> QED BY <1>8, <2>1, <2>2 DEF Enroll
<1>9. CASE StoreSecret
  <2>1. CASE Fail("store")
    BY <1>1, <1>9, <2>1, FailLinked DEF StoreSecret, Fail, Errors
  <2> QED BY <1>9, <2>1 DEF StoreSecret, Linked
<1>10. CASE Setup
  <2> DEFINE new == [obj EXCEPT !.status = "Running", !.message = "setup"]
  <2>1. new \in Object /\ new.phase = obj.phase
    BY <1>1 DEF Object
  <2>2. CASE Fresh /\ Store(new) /\ Return(FALSE, TRUE)
    BY <2>2, ReturnLinked, StoreLinked
  <2>3. CASE FailAs(new, "conflict", TRUE) /\ UNCHANGED crVars
    BY <1>10, <2>1, <2>3, FailLinked DEF Setup, Errors
  <2> QED BY <1>10, <2>2, <2>3 DEF Setup
<1>11. CASE Patch
  <2>1. CASE /\ obj' = [obj EXCEPT !.status = "Failed", !.message = "patch"]
             /\ UNCHANGED <<crVars, objFresh>>
    <3>1. obj'.phase = obj.phase /\ obj'.status = "Failed"
      BY <1>1, <2>1 DEF Object
    <3> QED BY <1>11, <2>1, <3>1 DEF Patch, Linked
  <2>2. CASE /\ NoFault /\ Store([cr EXCEPT !.status = "Failed"])
             /\ obj' = [cr' EXCEPT !.message = IF @ = "unset" THEN obj.message ELSE @]
             /\ objFresh' = TRUE
    <3>1. /\ cr' = [cr EXCEPT !.status = "Failed"] /\ cr'.status = "Failed"
          /\ cr' \in Object
      BY <1>1, <2>2, CopyTypes, CopyFields DEF Store
    <3>2. obj'.phase = cr'.phase /\ obj'.status = "Failed"
      BY <2>2, <3>1, CopyFields
    <3> QED BY <1>11, <2>2, <3>2, StoreLinked DEF Patch, Linked
  <2> QED BY <1>11, <2>1, <2>2 DEF Patch
<1>12. CASE UpdateStatus
  <2>1. CASE /\ Store([obj EXCEPT !.message = IF @ = "unset" THEN "" ELSE @])
             /\ Return(FALSE, again)
    BY <2>1, ReturnLinked, StoreLinked
  <2>2. CASE Return(TRUE, FALSE) /\ UNCHANGED crVars
    BY <2>2, ReturnLinked DEF Linked
  <2> QED BY <1>12, <2>1, <2>2 DEF UpdateStatus
<1> QED BY <1>2, <1>3, <1>4, <1>5, <1>6, <1>7, <1>8, <1>9, <1>10, <1>11, <1>12 DEF Reconcile

\* Status, phase and Secret as they were.
LEMMA EnrolledUnchanged ==
    ASSUME RunningMeansEnrolled, cr'.status = cr.status, cr'.phase = cr.phase,
           UNCHANGED <<secret, lost>>
    PROVE  RunningMeansEnrolled'
BY DEF RunningMeansEnrolled

LEMMA EnrolledStep ==
    ASSUME TypeOK, Linked, RunningMeansEnrolled, Next PROVE RunningMeansEnrolled'
<1>0. /\ EnvTypeOK /\ WorldTypeOK /\ WorkTypeOK
  BY TypeParts
<1>1. obj \in Object /\ cr \in Object
  BY <1>0 DEF WorldTypeOK, WorkTypeOK
<1>2. CASE Edit
  <2>1. UNCHANGED <<secret, lost>>
    BY <1>2 DEF Edit
  <2>2. cr'.status = cr.status
    <3>1. CASE \E p : cr' = [cr EXCEPT !.password = p]
      BY <1>1, <3>1, CopyFields
    <3>2. CASE \E p : cr' = [cr EXCEPT !.phase = p]
      BY <1>1, <3>2, CopyFields
    <3> QED BY <1>2, <3>1, <3>2 DEF Edit
  <2>3. cr.phase = "gone" => cr'.phase = "gone"
    BY <1>2 DEF Edit
  <2> QED BY <2>1, <2>2, <2>3 DEF RunningMeansEnrolled
<1>3. CASE LoseSecret
  BY <1>3 DEF LoseSecret, RunningMeansEnrolled
<1>4. CASE ReplaceCA \/ CertAges \/ CacheSync \/ Timer \/ Crash
  BY <1>4, EnrolledUnchanged DEF ReplaceCA, CertAges, CacheSync, Timer, Crash
<1>5. CASE Begin \/ ReadSecret \/ Register \/ Reenroll \/ Enroll
  BY <1>5, EnrolledUnchanged DEF Begin, ReadSecret, Register, Reenroll, Enroll
<1>6. CASE Adopt
  <2>1. CASE Fresh /\ Store([cr EXCEPT !.phase = "managed"])
    <3>1. cr.phase = "new"
      BY <1>6, <2>1 DEF Adopt, Fresh, Linked
    <3>2. cr'.status = cr.status
      BY <1>1, <2>1, CopyFields DEF Store
    <3> QED BY <1>6, <3>1, <3>2 DEF Adopt, RunningMeansEnrolled
  <2>2. CASE UNCHANGED crVars
    BY <1>6, <2>2, EnrolledUnchanged DEF Adopt
  <2> QED BY <1>6, <2>1, <2>2 DEF Adopt
<1>7. CASE Release
  <2>1. CASE Fresh /\ Store([cr EXCEPT !.phase = "gone"])
    BY <1>1, <2>1, CopyFields DEF Store, RunningMeansEnrolled
  <2>2. CASE UNCHANGED crVars /\ UNCHANGED secretVars
    BY <1>7, <2>2, EnrolledUnchanged DEF Release
  <2> QED BY <1>7, <2>1, <2>2 DEF Release
<1>8. CASE StoreSecret
  BY <1>8 DEF StoreSecret, Linked, RunningMeansEnrolled
<1>9. CASE Setup
  <2>1. CASE Fresh /\ Store([obj EXCEPT !.status = "Running", !.message = "setup"])
    BY <1>9 DEF Setup, Linked, RunningMeansEnrolled
  <2>2. CASE UNCHANGED crVars
    BY <1>9, <2>2, EnrolledUnchanged DEF Setup
  <2> QED BY <1>9, <2>1, <2>2 DEF Setup
<1>10. CASE Patch
  <2>1. CASE Store([cr EXCEPT !.status = "Failed"])
    BY <1>1, <2>1, CopyFields DEF Store, RunningMeansEnrolled
  <2>2. CASE UNCHANGED crVars
    BY <1>10, <2>2, EnrolledUnchanged DEF Patch
  <2> QED BY <1>10, <2>1, <2>2 DEF Patch
<1>11. CASE UpdateStatus
  <2>1. CASE Store([obj EXCEPT !.message = IF @ = "unset" THEN "" ELSE @])
    <3>1. cr'.status = "Failed"
      BY <1>1, <1>11, <2>1 DEF UpdateStatus, Store, Linked, Object
    <3> QED BY <3>1 DEF RunningMeansEnrolled
  <2>2. CASE UNCHANGED crVars
    BY <1>11, <2>2, EnrolledUnchanged DEF UpdateStatus
  <2> QED BY <1>11, <2>1, <2>2 DEF UpdateStatus
<1> QED BY <1>2, <1>3, <1>4, <1>5, <1>6, <1>7, <1>8, <1>9, <1>10, <1>11 DEF Next, Reconcile

\* Every step keeps the links and what they are for.
THEOREM LinkedStep ==
    TypeOK /\ Linked /\ RunningMeansEnrolled /\ [Next]_vars => Linked' /\ RunningMeansEnrolled'
<1> SUFFICES ASSUME TypeOK, Linked, RunningMeansEnrolled, [Next]_vars
             PROVE  Linked' /\ RunningMeansEnrolled'
  OBVIOUS
<1>1. CASE UNCHANGED vars
  BY <1>1 DEF Linked, RunningMeansEnrolled
<1>2. CASE Next
  BY <1>2, LinkedEnvironment, LinkedReconcile, EnrolledStep DEF Next
<1> QED BY <1>1, <1>2

\* An identity is said to run only with a certificate in its Secret, unless the Secret was
\* lost since: no conflict, no lost write and no restart reports one that is not there.
THEOREM Enrolled == Spec => []RunningMeansEnrolled
BY TypeInit, TypeStep, LinkedInit, LinkedStep, PTL DEF Spec

-----------------------------------------------------------------------------
(* No identity is forgotten.  A pass ends with a delay, with an error for     *)
(* which the key is added again, or with a write that brings another pass;    *)
(* only a wrong password that is reported already ends it for good.           *)

\* There is a pass to come.
Awaited == queued \/ timer \/ ~synced

WrongPassword == known # cr.password /\ secret # Broken

NoneForgotten ==
    pc = "idle" /\ ~Awaited /\ cr.phase # "gone" =>
        /\ cr.phase = "managed" /\ cr.status = "Failed" /\ cr.message = "password"
        /\ WrongPassword

\* As long as no other pass is to come, what the worker has read is as it is: its copy,
\* the Secret, and the password it was refused with.
Current ==
    /\ pc \notin {"idle", "patch", "status"} => obj = cr
    /\ pc = "register" => read = secret
    /\ pc \in {"reenroll", "enroll"} => secret # Broken
    /\ pc \in {"patch", "status"} /\ ~again => WrongPassword
    /\ pc = "patch" /\ ~again => cr.status # "Failed"
    /\ pc = "status" /\ ~again => obj.message = "password" \/ cr.status # "Failed"

RestLinked ==
    /\ cache.phase = "gone" => cr.phase = "gone"
    /\ pc \notin {"idle", "adopt", "release"} => Awaited \/ cr.phase = "managed"
    /\ pc \notin {"patch", "status"} => again
    /\ ~Awaited => Current

\* A pass to come stays to come until a worker takes it up.
LEMMA AwaitedStays ==
    ASSUME TypeOK, Reconcile, ~Begin, Awaited PROVE Awaited'
<1> USE DEF Awaited
<1>0. synced \in BOOLEAN /\ queued \in BOOLEAN /\ timer \in BOOLEAN
  BY DEF TypeOK
<1>2. CASE Adopt \/ Release \/ Setup \/ UpdateStatus
  BY <1>0, <1>2 DEF Adopt, Release, Setup, UpdateStatus, Store, Return, FailAs
<1>3. CASE ReadSecret \/ Register \/ Reenroll \/ Enroll \/ StoreSecret
  BY <1>0, <1>3 DEF ReadSecret, Register, Reenroll, Enroll, StoreSecret, Fail, FailAs
<1>4. CASE Patch
  BY <1>0, <1>4 DEF Patch, Store
<1> QED BY <1>2, <1>3, <1>4 DEF Reconcile

\* What happens around the worker.
LEMMA RestEnvironment ==
    ASSUME TypeOK, Linked, RestLinked, NoneForgotten,
           Edit \/ LoseSecret \/ ReplaceCA \/ CertAges \/ CacheSync \/ Timer \/ Crash
    PROVE  RestLinked' /\ NoneForgotten'
<1>0. cr.password \in Passwords /\ cr \in Object
  BY DEF TypeOK, Object
<1> USE DEF RestLinked, NoneForgotten, Awaited
<1>1. CASE Edit
  <2>1. cr.phase = "gone" => cr'.phase = "gone"
    BY <1>1 DEF Edit
  <2> QED BY <1>1, <2>1 DEF Edit
<1>2. CASE LoseSecret
  BY <1>2 DEF LoseSecret
<1>3. CASE CacheSync
  BY <1>3 DEF CacheSync
<1>4. CASE Timer
  BY <1>4 DEF Timer
<1>5. CASE ReplaceCA
  <2>1. known' # cr.password /\ UNCHANGED <<secret, cr>>
    BY <1>0, <1>5, PasswordAssumption DEF ReplaceCA
  <2>2. Current => Current'
    BY <1>5, <2>1 DEF ReplaceCA, Current, WrongPassword
  <2> QED BY <1>5, <2>1, <2>2 DEF ReplaceCA, WrongPassword
<1>6. CASE CertAges
  <2>1. Current => Current'
    BY <1>6 DEF CertAges, Current, WrongPassword
  <2> QED BY <1>6, <2>1 DEF CertAges, WrongPassword
<1>7. CASE Crash
  <2>1. pc' = "idle" /\ again' = TRUE /\ cache' = cr' /\ cr' = cr
    BY <1>7 DEF Crash
  <2>2. cr.phase # "gone" => queued'
    BY <1>7 DEF Crash
  <2>3. Current'
    BY <2>1 DEF Current
  <2> QED BY <2>1, <2>2, <2>3
<1> QED BY <1>1, <1>2, <1>3, <1>4, <1>5, <1>6, <1>7

\* Steps of a pass that leave the resource alone and go on.
LEMMA RestGoesOn ==
    ASSUME TypeOK, RestLinked, Reconcile, ~Begin, UNCHANGED crVars,
           pc \notin {"idle", "adopt", "release"}, pc' # "idle",
           pc' \notin {"patch", "status"} => again', ~Awaited /\ Current => Current'
    PROVE  RestLinked' /\ NoneForgotten'
<1>1. Awaited => Awaited'
  BY AwaitedStays
<1> QED BY <1>1 DEF RestLinked, NoneForgotten

\* A failure that is not a wrong password asks for another pass.
LEMMA RestFails ==
    ASSUME NEW o, NEW e, FailAs(o, e, TRUE) PROVE pc' \in {"patch", "status"} /\ again'
                                                  /\ Current'
BY DEF FailAs, Current

\* The steps of a pass.
LEMMA RestReconcile ==
    ASSUME TypeOK, Linked, RestLinked, NoneForgotten, Reconcile
    PROVE  RestLinked' /\ NoneForgotten'
<1>0. /\ obj \in Object /\ cr \in Object /\ cache \in Object
      /\ crypto # Broken /\ {synced, queued, timer, again, objFresh} \subseteq BOOLEAN
  BY DEF TypeOK
<1>1. CASE Begin
  <2>1. /\ UNCHANGED <<crVars, timer, again>> /\ again
    BY <1>1 DEF Begin, crVars, passVars, RestLinked
  <2>2. CASE cache.phase = "gone"
    <3>1. pc' = "idle" /\ cr'.phase = "gone"
      BY <1>1, <2>1, <2>2 DEF Begin, RestLinked, crVars
    <3> QED BY <2>1, <3>1 DEF RestLinked, NoneForgotten, Current, crVars
  <2>3. CASE cache.phase # "gone"
    <3>1. pc' \in {"adopt", "release", "secret"} /\ obj' = cache
      BY <1>1, <2>3 DEF Begin
    <3>2. pc' = "secret" => cache.phase = "managed"
      BY <1>0, <1>1, <2>3 DEF Begin, Object
    <3>3. ~Awaited' => cache = cr
      BY <2>1 DEF Awaited, Linked, crVars
    <3>4. ~Awaited' => Current'
      BY <2>1, <3>1, <3>3 DEF Current, crVars
    <3> QED BY <2>1, <3>1, <3>2, <3>3, <3>4 DEF RestLinked, NoneForgotten, crVars
  <2> QED BY <2>2, <2>3
<1>2. CASE Adopt
  <2>1. pc = "adopt" /\ again
    BY <1>2 DEF Adopt, RestLinked
  <2>2. CASE Refused("update") /\ Return(TRUE, FALSE) /\ UNCHANGED crVars
    <3>1. pc' = "idle" /\ queued' /\ again' /\ UNCHANGED <<cr, cache>>
      BY <2>2 DEF Return, NoPass, crVars
    <3> QED BY <3>1 DEF RestLinked, NoneForgotten, Awaited
  <2>3. CASE /\ Fresh /\ Store([cr EXCEPT !.phase = "managed"])
             /\ obj' = cr' /\ pc' = "secret" /\ UNCHANGED <<queueVars, objFresh, passVars>>
    <3>1. cr'.phase = "managed" /\ cache' = cache /\ again' = again
      BY <1>0, <2>3, CopyFields DEF Store, passVars
    <3>2. cache.phase # "gone"
      BY <2>1, <2>3 DEF RestLinked, Linked, Fresh
    <3> QED BY <2>1, <2>3, <3>1, <3>2 DEF RestLinked, NoneForgotten, Current
  <2> QED BY <1>2, <2>2, <2>3 DEF Adopt
<1>3. CASE Release
  <2>1. pc = "release" /\ again
    BY <1>3 DEF Release, RestLinked
  <2>2. pc' = "idle" /\ again' /\ cache' = cache
    BY <1>3 DEF Release, Return, NoPass, Store, crVars
  <2>3. CASE Store([cr EXCEPT !.phase = "gone"])
    <3>1. cr'.phase = "gone"
      BY <1>0, <2>3, CopyFields DEF Store
    <3> QED BY <2>2, <3>1 DEF RestLinked, NoneForgotten, Current
  <2>4. CASE Return(TRUE, FALSE) /\ UNCHANGED crVars
    <3>1. queued' /\ cr' = cr
      BY <2>4 DEF Return, crVars
    <3> QED BY <2>2, <3>1 DEF RestLinked, NoneForgotten, Awaited
  <2> QED BY <1>3, <2>3, <2>4 DEF Release
<1>4. CASE ReadSecret
  <2>1. pc = "secret" /\ UNCHANGED <<crVars, secret>>
    BY <1>4 DEF ReadSecret, crVars, secretVars
  <2>2. CASE Fail("read")
    <3>1. pc' \in {"patch", "status"} /\ again' /\ Current'
      BY <2>2, RestFails DEF Fail
    <3> QED BY <1>4, <2>1, <3>1, RestGoesOn DEF Reconcile, Begin
  <2>3. CASE read' = secret /\ Goto("register") /\ UNCHANGED <<crypto, error, again>>
    <3>1. ~Awaited /\ Current => Current'
      BY <2>1, <2>3 DEF Current, Goto, crVars, copyVars
    <3>2. pc' = "register" /\ again'
      BY <2>1, <2>3 DEF Goto, RestLinked
    <3> QED BY <1>4, <2>1, <3>1, <3>2, RestGoesOn DEF Reconcile, Begin
  <2> QED BY <1>4, <2>2, <2>3 DEF ReadSecret
<1>5. CASE Register
  <2>1. pc = "register" /\ UNCHANGED <<crVars, secret>>
    BY <1>5 DEF Register, crVars, secretVars
  <2>2. CASE Fail("parse") \/ Fail("register")
    <3>1. pc' \in {"patch", "status"} /\ again' /\ Current'
      BY <2>2, RestFails DEF Fail
    <3> QED BY <1>5, <2>1, <3>1, RestGoesOn DEF Reconcile, Begin
  <2>3. CASE /\ read # Broken /\ UNCHANGED <<read, again>>
             /\ Goto(IF read = Absent THEN "enroll"
                     ELSE IF age # "fresh" THEN "reenroll" ELSE "store")
    <3>1. pc' \in {"enroll", "reenroll", "store"} /\ again' /\ UNCHANGED obj
      BY <2>1, <2>3 DEF Goto, RestLinked, copyVars
    <3>2. ~Awaited /\ Current => Current'
      BY <2>1, <2>3, <3>1 DEF Current, crVars
    <3> QED BY <1>5, <2>1, <3>1, <3>2, RestGoesOn DEF Reconcile, Begin
  <2> QED BY <1>5, <2>2, <2>3 DEF Register
<1>6. CASE Reenroll
  <2>1. pc = "reenroll" /\ UNCHANGED <<crVars, secret>>
    BY <1>6 DEF Reenroll, crVars, secretVars
  <2>2. CASE Fail("enroll")
    <3>1. pc' \in {"patch", "status"} /\ again' /\ Current'
      BY <2>2, RestFails DEF Fail
    <3> QED BY <1>6, <2>1, <3>1, RestGoesOn DEF Reconcile, Begin
  <2>3. CASE (Goto("store") \/ Goto("enroll")) /\ UNCHANGED again
    <3>1. pc' \in {"enroll", "store"} /\ again' /\ UNCHANGED obj
      BY <2>1, <2>3 DEF Goto, RestLinked, copyVars
    <3>2. ~Awaited /\ Current => Current'
      BY <2>1, <2>3, <3>1 DEF Current, crVars
    <3> QED BY <1>6, <2>1, <3>1, <3>2, RestGoesOn DEF Reconcile, Begin
  <2> QED BY <1>6, <2>2, <2>3 DEF Reenroll, passVars
<1>7. CASE Enroll
  <2>1. pc = "enroll" /\ UNCHANGED <<crVars, secret, known>>
    BY <1>7 DEF Enroll, crVars, secretVars, caVars
  <2>2. CASE Fail("enroll")
    <3>1. pc' \in {"patch", "status"} /\ again' /\ Current'
      BY <2>2, RestFails DEF Fail
    <3> QED BY <1>7, <2>1, <3>1, RestGoesOn DEF Reconcile, Begin
  <2>3. CASE Goto("store") /\ UNCHANGED again
    <3>1. pc' = "store" /\ again' /\ UNCHANGED obj
      BY <2>1, <2>3 DEF Goto, RestLinked, copyVars
    <3>2. ~Awaited /\ Current => Current'
      BY <2>1, <2>3, <3>1 DEF Current, crVars
    <3> QED BY <1>7, <2>1, <3>1, <3>2, RestGoesOn DEF Reconcile, Begin
  <2>4. CASE known # obj.password /\ FailAs(obj, "password", FALSE)
    <3>1. \/ pc' = "status" /\ obj'.message = "password"
          \/ pc' = "patch" /\ obj.status # "Failed"
      BY <1>0, <2>4 DEF FailAs, Object
    <3>2. ~Awaited /\ Current => obj = cr /\ WrongPassword'
      BY <2>1, <2>4 DEF Current, WrongPassword, crVars
    <3>3. ~Awaited /\ Current => Current'
      BY <2>1, <3>1, <3>2 DEF Current, crVars
    <3> QED BY <1>7, <2>1, <3>1, <3>3, RestGoesOn DEF Reconcile, Begin
  <2> QED BY <1>7, <2>2, <2>3, <2>4 DEF Enroll
<1>8. CASE StoreSecret
  <2>1. pc = "store" /\ UNCHANGED crVars
    BY <1>8 DEF StoreSecret
  <2>2. CASE Fail("store")
    <3>1. pc' \in {"patch", "status"} /\ again' /\ Current'
      BY <2>2, RestFails DEF Fail
    <3> QED BY <1>8, <2>1, <3>1, RestGoesOn DEF Reconcile, Begin
  <2>3. CASE pc' = "setup" /\ UNCHANGED <<timer, copyVars, passVars>>
    <3>1. pc' = "setup" /\ again' /\ UNCHANGED obj
      BY <2>1, <2>3 DEF RestLinked, copyVars, passVars
    <3>2. ~Awaited /\ Current => Current'
      BY <2>1, <3>1 DEF Current, crVars
    <3> QED BY <1>8, <2>1, <3>1, <3>2, RestGoesOn DEF Reconcile, Begin
  <2> QED BY <1>8, <2>2, <2>3 DEF StoreSecret
<1>9. CASE Setup
  <2>1. pc = "setup" /\ again
    BY <1>9 DEF Setup, RestLinked
  <2> DEFINE new == [obj EXCEPT !.status = "Running", !.message = "setup"]
  <2>2. CASE FailAs(new, "conflict", TRUE) /\ UNCHANGED crVars
    <3>1. pc' \in {"patch", "status"} /\ again' /\ Current'
      BY <2>2, RestFails
    <3> QED BY <1>9, <2>1, <2>2, <3>1, RestGoesOn DEF Reconcile, Begin
  <2>3. CASE Fresh /\ Store(new) /\ Return(FALSE, TRUE)
    <3>1. pc' = "idle" /\ timer' /\ again' /\ cache' = cache /\ cr' = new
      BY <2>3 DEF Return, NoPass, Store
    <3>2. cache.phase = "gone" => cr'.phase = "gone"
      BY <1>0, <2>1, <2>3, <3>1 DEF RestLinked, Linked, Fresh, Object
    <3> QED BY <3>1, <3>2 DEF RestLinked, NoneForgotten, Awaited, Current
  <2> QED BY <1>9, <2>2, <2>3 DEF Setup
<1>10. CASE Patch
  <2>1. pc = "patch" /\ pc' = "status" /\ UNCHANGED <<queueVars, again, known, secret>>
    BY <1>10 DEF Patch, passVars, caVars, secretVars
  <2>2. CASE obj' = [obj EXCEPT !.status = "Failed", !.message = "patch"] /\ UNCHANGED crVars
    <3>1. Awaited => Awaited'
      BY <2>1, <2>2 DEF Awaited, queueVars, crVars
    <3>2. ~Awaited => Current'
      BY <2>1, <2>2 DEF RestLinked, Current, WrongPassword, crVars
    <3>3. Awaited' => Awaited
      BY <2>1, <2>2 DEF Awaited, queueVars, crVars
    <3> QED BY <2>1, <2>2, <3>1, <3>2, <3>3 DEF RestLinked, NoneForgotten, crVars
  <2>3. CASE Store([cr EXCEPT !.status = "Failed"])
    <3>1. /\ cr' = [cr EXCEPT !.status = "Failed"] /\ cache' = cache
          /\ synced' => synced /\ cr' = cr
      BY <1>0, <2>3 DEF Store
    <3>2. cr'.phase = cr.phase /\ cr'.status = "Failed"
      BY <1>0, <3>1, CopyFields
    <3>3. Awaited => Awaited'
      BY <1>0, <2>1, <3>1 DEF Awaited, queueVars
    <3>4. ~Awaited' => Current'
      BY <1>0, <2>1, <3>1, <3>2, <3>3 DEF RestLinked, Current, WrongPassword, Awaited
    <3> QED BY <2>1, <3>1, <3>2, <3>3, <3>4 DEF RestLinked, NoneForgotten
  <2> QED BY <1>10, <2>2, <2>3 DEF Patch
<1>11. CASE UpdateStatus
  <2>1. pc = "status" /\ pc' = "idle" /\ again' /\ UNCHANGED <<known, secret>>
    BY <1>11 DEF UpdateStatus, Return, NoPass, caVars, secretVars
  <2>2. CASE Return(TRUE, FALSE) /\ UNCHANGED crVars
    <3>1. queued' /\ UNCHANGED <<cr, cache>>
      BY <2>2 DEF Return, crVars
    <3> QED BY <2>1, <3>1 DEF RestLinked, NoneForgotten, Awaited
  <2> DEFINE new == [obj EXCEPT !.message = IF @ = "unset" THEN "" ELSE @]
  <2>3. CASE Fresh /\ Return(FALSE, again) /\ Store(new)
    <3>1. /\ cr' = new /\ cache' = cache /\ (synced' => synced /\ cr' = cr)
          /\ queued' = queued /\ timer' = (timer \/ again)
      BY <1>0, <2>3 DEF Store, Return
    <3>2. new.phase = obj.phase /\ new.status = "Failed"
          /\ (obj.message # "unset" => new.message = obj.message)
      BY <1>0, <2>1 DEF Object, Linked
    <3>3. cache.phase = "gone" => cr'.phase = "gone"
      BY <2>3, <3>1, <3>2 DEF RestLinked, Linked, Fresh
    <3>4. ASSUME ~Awaited'
          PROVE  ~Awaited /\ ~again /\ cr' = cr
      BY <3>1, <3>4 DEF Awaited
    <3>5. ASSUME ~Awaited'
          PROVE  /\ cr'.phase = "managed" /\ cr'.status = "Failed"
                 /\ cr'.message = "password" /\ WrongPassword'
      <4>1. ~Awaited /\ ~again /\ cr' = cr
        BY <3>4, <3>5
      <4>2. cr.phase = "managed" /\ WrongPassword
        BY <2>1, <4>1 DEF RestLinked, Current
      <4>3. cr.status = "Failed" /\ obj.message = "password"
        BY <2>1, <3>1, <3>2, <4>1 DEF RestLinked, Current
      <4> QED BY <2>1, <3>1, <3>2, <4>1, <4>2, <4>3 DEF WrongPassword
    <3>6. RestLinked'
      BY <2>1, <3>1, <3>3 DEF RestLinked, Current
    <3> QED BY <3>5, <3>6 DEF NoneForgotten
  <2> QED BY <1>11, <2>2, <2>3 DEF UpdateStatus
<1> QED BY <1>1, <1>2, <1>3, <1>4, <1>5, <1>6, <1>7, <1>8, <1>9, <1>10, <1>11 DEF Reconcile

\* At first the identity is in the queue.
LEMMA RestInit == Init => RestLinked /\ NoneForgotten
BY DEF Init, RestLinked, NoneForgotten, Awaited, Current, Blank

LEMMA RestStep ==
    TypeOK /\ Linked /\ RestLinked /\ NoneForgotten /\ [Next]_vars
        => RestLinked' /\ NoneForgotten'
<1> SUFFICES ASSUME TypeOK, Linked, RestLinked, NoneForgotten, [Next]_vars
             PROVE  RestLinked' /\ NoneForgotten'
  OBVIOUS
<1>1. CASE UNCHANGED vars
  BY <1>1 DEF vars, crVars, queueVars, caVars, secretVars, copyVars, passVars, RestLinked,
              NoneForgotten, Awaited, Current, WrongPassword
<1>2. CASE Next
  BY <1>2, RestEnvironment, RestReconcile DEF Next
<1> QED BY <1>1, <1>2

\* An identity no pass will come for any more is one whose password the CA refuses, and its
\* status says so: every other pass leaves a delay, a key in the queue or a new version of
\* the resource behind, whatever fails and whenever the operator dies (Reconcile).
THEOREM Remembered == Spec => []NoneForgotten
BY TypeInit, TypeStep, LinkedInit, LinkedStep, RestInit, RestStep, PTL DEF Spec

===============================================================================
