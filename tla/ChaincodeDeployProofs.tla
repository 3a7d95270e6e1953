------------------------- MODULE ChaincodeDeployProofs -------------------------
(* Theorems about ChaincodeDeploy, for all specs, templates and bounds.       *)
EXTENDS ChaincodeDeploy, TLAPS

USE DEF Goto, NoFault, NoPass, vars, crVars, quietVars, cryptoVars, podVars, clusterVars,
        copyVars, passVars, envVars

-----------------------------------------------------------------------------
(* What the steps are made of.                                                *)

\* The environment, the resource, the cluster and the worker, each of its own types.
EnvTypeOK == edits \in Nat /\ faults \in Nat /\ crashes \in Nat
ResourceTypeOK == /\ cr \in Object /\ cache \in Object
                  /\ synced \in BOOLEAN /\ queued \in BOOLEAN
                  /\ template \in Templates /\ announced \in BOOLEAN /\ repeated \in BOOLEAN
ClusterTypeOK == /\ secret \in Nat \cup {Absent} /\ issued \in Nat /\ pods \in Nat
                 /\ service \in BOOLEAN /\ rolling \in BOOLEAN /\ missed \in BOOLEAN
                 /\ deployment \in {None} \cup
                        [spec : Specs, template : Templates \cup {None}, restart : Nat]
WorkTypeOK == /\ pc \in Labels /\ obj \in Object /\ objFresh \in BOOLEAN
              /\ defaults \in Templates \cup {None}
              /\ read \in {"", "absent", "current", "stale", "error"}
              /\ crypto \in [cert : Nat, updated : BOOLEAN] /\ result \in Result

LEMMA TypeParts ==
    /\ TypeOK <=> EnvTypeOK /\ ResourceTypeOK /\ ClusterTypeOK /\ WorkTypeOK
    /\ TypeOK' <=> EnvTypeOK' /\ ResourceTypeOK' /\ ClusterTypeOK' /\ WorkTypeOK'
BY DEF TypeOK, EnvTypeOK, ResourceTypeOK, ClusterTypeOK, WorkTypeOK

Conditioned == UNION {[T -> [status : {"True", "False"}, reason : Messages]] :
                          T \in SUBSET {"Failed", "Running"}}

\* The blank copy and the copies that are stored are objects.
LEMMA CopyTypes ==
    /\ Blank \in Object
    /\ \A o \in Object :
        /\ \A s \in Specs : [o EXCEPT !.spec = s] \in Object
        /\ \A p \in {"new", "managed", "deleting", "gone"} : [o EXCEPT !.phase = p] \in Object
        /\ \A s \in {"", "Running", "Failed"} : [o EXCEPT !.status = s] \in Object
<1>1. NoConditions \in Conditioned
  <2>1. NoConditions \in [{} -> [status : {"True", "False"}, reason : Messages]]
    BY DEF NoConditions
  <2> QED BY <2>1 DEF Conditioned
<1>2. Blank \in Object
  BY <1>1, SpecAssumption DEF Blank, Object, Conditioned, Messages
<1> QED BY <1>2 DEF Object

LEMMA ResultTypes == /\ Success \in Result /\ NoCrypto \in [cert : Nat, updated : BOOLEAN]
                     /\ \A e \in Messages : Failure(e) \in Result
BY DEF Success, NoCrypto, Failure, Result, Messages

\* A condition that is set is one of the two there are.
LEMMA SetConditionType ==
    ASSUME NEW c \in Conditioned, NEW t \in {"Failed", "Running"},
           NEW s \in {"True", "False"}, NEW m \in Messages
    PROVE  SetCondition(c, t, Condition(s, m)) \in Conditioned
<1>1. PICK T \in SUBSET {"Failed", "Running"} :
            c \in [T -> [status : {"True", "False"}, reason : Messages]]
  BY DEF Conditioned
<1>2. Condition(s, m) \in [status : {"True", "False"}, reason : Messages]
  BY DEF Condition
<1>3. SetCondition(c, t, Condition(s, m))
        \in [T \cup {t} -> [status : {"True", "False"}, reason : Messages]]
  BY <1>1, <1>2 DEF SetCondition
<1>4. T \cup {t} \in SUBSET {"Failed", "Running"}
  OBVIOUS
<1> QED BY <1>3, <1>4 DEF Conditioned

LEMMA MarkedType ==
    ASSUME WorkTypeOK, NEW o \in Object, NEW m \in Messages
    PROVE  /\ Marked(o, m) \in Object /\ Marked(o, m).status = result.status
           /\ Marked(o, m).spec = o.spec /\ Marked(o, m).phase = o.phase
           /\ Marked(o, m).message = m
<1> DEFINE s == IF result.status = "Running" THEN "True" ELSE "False"
           new == SetCondition(o.conditions, result.status, Condition(s, m))
<1>1. new \in Conditioned
  <2>1. o.conditions \in Conditioned /\ result.status \in {"Failed", "Running"}
    BY DEF Object, Conditioned, WorkTypeOK, Result
  <2> QED BY <2>1, SetConditionType
<1>2. Marked(o, m) = [o EXCEPT !.status = result.status, !.message = m, !.conditions = new]
  BY DEF Marked
<1> HIDE DEF new
<1> QED BY <1>1, <1>2 DEF Object, Conditioned, WorkTypeOK, Result

\* Every call leaves the counters of the bounds numbers.
LEMMA CountTypes ==
    ASSUME EnvTypeOK, NoFault \/ (\E c : Fault(c)) \/ Edits
    PROVE  EnvTypeOK'
BY DEF EnvTypeOK, Fault, Edits

LEMMA StoreType == ASSUME ResourceTypeOK, NEW o \in Object, Store(o)
                   PROVE  cr' \in Object /\ cache' \in Object /\ synced' \in BOOLEAN
BY DEF ResourceTypeOK, Store

LEMMA ReturnType == ASSUME ResourceTypeOK, NEW r \in BOOLEAN, Return(r)
                    PROVE  WorkTypeOK' /\ queued' \in BOOLEAN
BY CopyTypes, ResultTypes DEF ResourceTypeOK, WorkTypeOK, Return, Labels

LEMMA ConcludeType == ASSUME WorkTypeOK, NEW r \in Result, Conclude(r)
                      PROVE  WorkTypeOK' /\ queued' = queued
BY ResultTypes DEF WorkTypeOK, Conclude, Labels

LEMMA FailType ==
    ASSUME WorkTypeOK, ClusterTypeOK, NEW e \in Messages, Fail(e)
    PROVE  /\ WorkTypeOK' /\ queued' = queued
           /\ missed' \in BOOLEAN /\ pods' = pods /\ rolling' = rolling
<1>1. missed' \in BOOLEAN
  <2>1. missed \in BOOLEAN /\ crypto.updated \in BOOLEAN
    BY DEF ClusterTypeOK, WorkTypeOK
  <2> QED BY <2>1 DEF Fail, Missed
<1>2. Failure(e) \in Result
  BY ResultTypes
<1> QED BY <1>1, <1>2, ConcludeType DEF Fail

-----------------------------------------------------------------------------
(* Type correctness.                                                          *)

\* The initial state is of the types.
THEOREM TypeInit == Init => TypeOK
<1> SUFFICES ASSUME Init PROVE TypeOK OBVIOUS
<1>1. EnvTypeOK
  BY DEF Init, EnvTypeOK
<1>2. ResourceTypeOK
  BY SpecAssumption, CopyTypes DEF Init, ResourceTypeOK
<1>3. ClusterTypeOK
  BY DEF Init, ClusterTypeOK
<1>4. WorkTypeOK
  BY CopyTypes, ResultTypes DEF Init, WorkTypeOK, Labels
<1> QED BY <1>1, <1>2, <1>3, <1>4, TypeParts

LEMMA TypeEnvironment ==
    ASSUME TypeOK,
           Edit \/ EditTemplate \/ LoseSecret \/ CacheSync \/ TemplateEvent \/ RolloutDone
    PROVE  TypeOK'
<1>0. EnvTypeOK /\ ResourceTypeOK /\ ClusterTypeOK /\ WorkTypeOK
  BY TypeParts
<1>1. EnvTypeOK'
  <2>1. NoFault \/ Edits
    BY DEF Edit, EditTemplate, LoseSecret, CacheSync, TemplateEvent, RolloutDone
  <2> QED BY <1>0, <2>1, CountTypes
<1>2. ResourceTypeOK'
  <2>1. CASE Edit
    <3>1. cr' \in Object
      BY <1>0, <2>1, CopyTypes DEF Edit, ResourceTypeOK
    <3> QED BY <1>0, <2>1, <3>1 DEF Edit, ResourceTypeOK
  <2>2. CASE TemplateEvent
    <3>1. queued' \in BOOLEAN
      BY <1>0, <2>2, ZenonT(30) DEF TemplateEvent, ResourceTypeOK
    <3> QED BY <1>0, <2>2, <3>1 DEF TemplateEvent, ResourceTypeOK
  <2>3. CASE EditTemplate \/ LoseSecret \/ CacheSync \/ RolloutDone
    BY <1>0, <2>3 DEF EditTemplate, LoseSecret, CacheSync, RolloutDone, ResourceTypeOK
  <2> QED BY <2>1, <2>2, <2>3
<1>3. ClusterTypeOK'
  <2>1. CASE RolloutDone
    <3>1. pods' \in Nat
      BY <1>0, <2>1 DEF RolloutDone, ClusterTypeOK, Absent
    <3> QED BY <1>0, <2>1, <3>1 DEF RolloutDone, ClusterTypeOK
  <2>2. CASE ~RolloutDone
    BY <1>0, <2>2 DEF Edit, EditTemplate, LoseSecret, CacheSync, TemplateEvent, ClusterTypeOK
  <2> QED BY <2>1, <2>2
<1>4. WorkTypeOK'
  BY <1>0 DEF Edit, EditTemplate, LoseSecret, CacheSync, TemplateEvent, RolloutDone, WorkTypeOK
<1> QED BY <1>1, <1>2, <1>3, <1>4, TypeParts

LEMMA TypeCrash == ASSUME TypeOK, Crash PROVE TypeOK'
<1>0. EnvTypeOK /\ ResourceTypeOK /\ ClusterTypeOK /\ WorkTypeOK
  BY TypeParts
<1>1. EnvTypeOK'
  <2>1. edits \in Nat /\ faults \in Nat /\ crashes \in Nat
    BY <1>0 DEF EnvTypeOK
  <2>2. edits' = edits /\ faults' = faults /\ crashes' = crashes + 1
    BY DEF Crash
  <2> QED BY <2>1, <2>2 DEF EnvTypeOK
<1>2. ResourceTypeOK'
  <2>1. queued' \in BOOLEAN
    BY ZenonT(30) DEF Crash
  <2> QED BY <1>0, <2>1 DEF Crash, ResourceTypeOK
<1>3. missed \in BOOLEAN /\ crypto.updated \in BOOLEAN
  BY <1>0 DEF ClusterTypeOK, WorkTypeOK
<1>4. ClusterTypeOK'
  BY <1>0, <1>3 DEF Crash, ClusterTypeOK, Missed
<1>5. WorkTypeOK'
  BY CopyTypes, ResultTypes DEF Crash, WorkTypeOK, Labels
<1> QED BY <1>1, <1>2, <1>4, <1>5, TypeParts

\* The steps that change the resource: they write the finalizer or the status.
Writing == Adopt \/ Release \/ Mark \/ UpdateStatus
Cleaning == FinalizeFails \/ DeleteDeployment \/ DeleteService \/ DeleteSecret
Deploying == ReadTemplate \/ ReadSecret \/ Enroll \/ StoreSecret \/ Deploy \/ ApplyService

LEMMA TypeWriting == ASSUME TypeOK, Writing PROVE TypeOK'
<1>0. EnvTypeOK /\ ResourceTypeOK /\ ClusterTypeOK /\ WorkTypeOK
  BY TypeParts
<1>1. EnvTypeOK'
  <2>1. NoFault \/ \E c : Fault(c)
    BY DEF Writing, Adopt, Release, Mark, UpdateStatus, WritePhase
  <2> QED BY <1>0, <2>1, CountTypes
<1>2. ClusterTypeOK'
  BY <1>0 DEF Writing, Adopt, Release, Mark, UpdateStatus, ClusterTypeOK
<1>3. ResourceTypeOK' /\ WorkTypeOK'
  <2>1. CASE Adopt
    <3>1. [cr EXCEPT !.phase = "managed"] \in Object
      BY <1>0, CopyTypes DEF ResourceTypeOK
    <3>2. cr' \in Object /\ cache' \in Object /\ synced' \in BOOLEAN
      BY <1>0, <2>1, <3>1, StoreType DEF Adopt, WritePhase, ResourceTypeOK
    <3>3. CASE Return(TRUE)
      BY <1>0, <2>1, <3>2, <3>3, ReturnType DEF Adopt, ResourceTypeOK
    <3>4. CASE ~Return(TRUE)
      BY <1>0, <2>1, <3>2, <3>4 DEF Adopt, ResourceTypeOK, WorkTypeOK, Labels
    <3> QED BY <3>3, <3>4
  <2>2. CASE Release
    <3>1. [cr EXCEPT !.phase = "gone"] \in Object
      BY <1>0, CopyTypes DEF ResourceTypeOK
    <3>2. cr' \in Object /\ cache' \in Object /\ synced' \in BOOLEAN
      BY <1>0, <2>2, <3>1, StoreType DEF Release, WritePhase, ResourceTypeOK
    <3>3. WorkTypeOK' /\ queued' \in BOOLEAN
      BY <1>0, <2>2, ReturnType DEF Release
    <3> QED BY <1>0, <2>2, <3>2, <3>3 DEF Release, ResourceTypeOK
  <2>3. CASE Mark
    <3>1. result.status \in {"", "Running", "Failed"} /\ result.message \in Messages
          /\ "patch" \in Messages /\ "" \in Messages
      BY <1>0 DEF WorkTypeOK, Result, Messages
    <3>2. [cr EXCEPT !.status = result.status] \in Object
      BY <1>0, <3>1, CopyTypes DEF ResourceTypeOK
    <3>3. cr' \in Object /\ cache' \in Object /\ synced' \in BOOLEAN
      BY <1>0, <2>3, <3>2, StoreType DEF Mark, ResourceTypeOK
    <3>4. obj' \in Object
      <4>1. /\ Marked(obj, result.message) \in Object /\ Marked(cr, "") \in Object
            /\ Marked(obj, "patch") \in Object
        BY <1>0, <3>1, MarkedType DEF ResourceTypeOK, WorkTypeOK
      <4> QED BY <2>3, <4>1 DEF Mark
    <3>5. ResourceTypeOK'
      BY <1>0, <2>3, <3>3 DEF Mark, ResourceTypeOK
    <3> QED BY <1>0, <2>3, <3>4, <3>5 DEF Mark, WorkTypeOK, Labels
  <2>4. CASE UpdateStatus
    <3>1. [cr EXCEPT !.status = obj.status, !.message = obj.message,
                     !.conditions = obj.conditions] \in Object
      BY <1>0 DEF ResourceTypeOK, WorkTypeOK, Object
    <3>2. cr' \in Object /\ cache' \in Object /\ synced' \in BOOLEAN
      BY <1>0, <2>4, <3>1, StoreType DEF UpdateStatus, ResourceTypeOK
    <3>3. WorkTypeOK' /\ queued' \in BOOLEAN
      BY <1>0, <2>4, ReturnType DEF UpdateStatus
    <3>4. repeated' \in BOOLEAN
      BY <1>0, <2>4, ZenonT(30) DEF UpdateStatus, ResourceTypeOK
    <3> QED BY <1>0, <2>4, <3>2, <3>3, <3>4 DEF UpdateStatus, ResourceTypeOK
  <2> QED BY <2>1, <2>2, <2>3, <2>4 DEF Writing
<1> QED BY <1>1, <1>2, <1>3, TypeParts

LEMMA TypeCleaning == ASSUME TypeOK, Cleaning PROVE TypeOK'
<1>0. EnvTypeOK /\ ResourceTypeOK /\ ClusterTypeOK /\ WorkTypeOK
  BY TypeParts
<1>1. EnvTypeOK'
  <2>1. NoFault \/ \E c : Fault(c)
    BY DEF Cleaning, FinalizeFails, DeleteDeployment, DeleteService, DeleteSecret
  <2> QED BY <1>0, <2>1, CountTypes
<1>2. ResourceTypeOK' /\ WorkTypeOK'
  <2>1. CASE FinalizeFails
    BY <1>0, <2>1, ReturnType DEF FinalizeFails, ResourceTypeOK
  <2>2. CASE DeleteDeployment \/ DeleteService \/ DeleteSecret
    BY <1>0, <2>2
       DEF DeleteDeployment, DeleteService, DeleteSecret, ResourceTypeOK, WorkTypeOK, Labels
  <2> QED BY <2>1, <2>2 DEF Cleaning
<1>3. ClusterTypeOK'
  <2>1. CASE FinalizeFails
    BY <1>0, <2>1 DEF FinalizeFails, ClusterTypeOK
  <2>2. CASE DeleteDeployment
    BY <1>0, <2>2 DEF DeleteDeployment, ClusterTypeOK
  <2>3. CASE DeleteService \/ DeleteSecret
    BY <1>0, <2>3 DEF DeleteService, DeleteSecret, ClusterTypeOK
  <2> QED BY <2>1, <2>2, <2>3 DEF Cleaning
<1> QED BY <1>1, <1>2, <1>3, TypeParts

LEMMA TypeDeploying == ASSUME TypeOK, Deploying PROVE TypeOK'
<1>0. EnvTypeOK /\ ResourceTypeOK /\ ClusterTypeOK /\ WorkTypeOK
  BY TypeParts
<1>1. EnvTypeOK'
  <2>1. NoFault \/ \E c : Fault(c)
    BY DEF Deploying, ReadTemplate, ReadSecret, Enroll, StoreSecret, Deploy, ApplyService
  <2> QED BY <1>0, <2>1, CountTypes
<1>2. \A r \in Result : Conclude(r) => WorkTypeOK' /\ queued' = queued
  BY <1>0, ConcludeType
<1>3. \A e \in Messages : Fail(e) => /\ WorkTypeOK' /\ queued' = queued /\ missed' \in BOOLEAN
                                     /\ pods' = pods /\ rolling' = rolling
  BY <1>0, FailType
<1>4. {"template", "read", "enroll", "conflict", "store", "deploy", "immutable", "service", ""}
         \subseteq Messages
  BY DEF Messages
<1>5. WorkTypeOK' /\ queued' = queued
  <2>1. CASE ReadTemplate
    <3>1. CASE Fail("template")
      BY <1>3, <1>4, <3>1
    <3>2. CASE ~Fail("template")
      BY <1>0, <2>1, <3>2 DEF ReadTemplate, ResourceTypeOK, WorkTypeOK, Labels
    <3> QED BY <3>1, <3>2
  <2>2. CASE ReadSecret
    <3>1. crypto' \in [cert : Nat, updated : BOOLEAN]
      <4>1. CASE secret > 0 /\ crypto' = [NoCrypto EXCEPT !.cert = secret]
        <5>1. secret \in Nat
          BY <1>0, <4>1 DEF ClusterTypeOK, Absent
        <5> QED BY <4>1, <5>1, ResultTypes
      <4>2. CASE crypto' = crypto
        BY <1>0, <4>2 DEF WorkTypeOK
      <4> QED BY <2>2, <4>1, <4>2 DEF ReadSecret
    <3> QED BY <1>0, <2>2, <3>1 DEF ReadSecret, WorkTypeOK, Labels
  <2>3. CASE Enroll
    <3>1. CASE Fail("read") \/ Fail("enroll")
      BY <1>3, <1>4, <3>1
    <3>2. CASE ~(Fail("read") \/ Fail("enroll"))
      <4>1. /\ pc' = "store" /\ crypto' = [cert |-> issued + 1, updated |-> TRUE]
            /\ UNCHANGED <<queued, copyVars, read, defaults, result>>
        BY <2>3, <3>2 DEF Enroll
      <4>2. issued + 1 \in Nat
        BY <1>0 DEF ClusterTypeOK
      <4> QED BY <1>0, <4>1, <4>2 DEF WorkTypeOK, Labels
    <3> QED BY <3>1, <3>2
  <2>4. CASE StoreSecret
    <3>1. CASE Fail("conflict") \/ Fail("store")
      BY <1>3, <1>4, <3>1
    <3>2. CASE ~(Fail("conflict") \/ Fail("store"))
      BY <1>0, <2>4, <3>2 DEF StoreSecret, WorkTypeOK, Labels
    <3> QED BY <3>1, <3>2
  <2>5. CASE Deploy
    <3>1. CASE Fail("immutable") \/ Fail("deploy")
      BY <1>3, <1>4, <3>1
    <3>2. CASE Conclude(Failure("deploy"))
      BY <1>2, <1>4, <3>2, ResultTypes
    <3>3. CASE Goto("service") /\ crypto' = NoCrypto /\ UNCHANGED <<defaults, read, result>>
      BY <1>0, <3>3, ResultTypes DEF WorkTypeOK, Labels
    <3> QED BY <2>5, <3>1, <3>2, <3>3 DEF Deploy
  <2>6. CASE ApplyService
    BY <1>2, <1>4, <2>6, ResultTypes DEF ApplyService
  <2> QED BY <2>1, <2>2, <2>3, <2>4, <2>5, <2>6 DEF Deploying
<1>6. ResourceTypeOK'
  BY <1>0, <1>5 DEF Deploying, ReadTemplate, ReadSecret, Enroll, StoreSecret, Deploy,
                    ApplyService, ResourceTypeOK
<1>7. ClusterTypeOK'
  <2>1. CASE ReadTemplate
    BY <1>0, <1>3, <1>4, <2>1 DEF ReadTemplate, ClusterTypeOK
  <2>2. CASE ReadSecret
    BY <1>0, <2>2 DEF ReadSecret, ClusterTypeOK
  <2>3. CASE Enroll
    <3>1. issued' \in Nat
      BY <1>0, <2>3 DEF Enroll, ClusterTypeOK
    <3>2. missed' \in BOOLEAN /\ pods' = pods /\ rolling' = rolling
      BY <1>0, <1>3, <1>4, <2>3 DEF Enroll, ClusterTypeOK
    <3> QED BY <1>0, <2>3, <3>1, <3>2 DEF Enroll, ClusterTypeOK
  <2>4. CASE StoreSecret
    BY <1>0, <1>3, <1>4, <2>4 DEF StoreSecret, ClusterTypeOK, WorkTypeOK
  <2>5. CASE Deploy
    <3>1. Wanted \in [spec : Specs, template : Templates \cup {None}, restart : Nat]
      BY <1>0 DEF Wanted, WorkTypeOK, Object
    <3>2. deployment' \in {Wanted, deployment}
      BY <2>5 DEF Deploy
    <3>3. missed' \in BOOLEAN /\ pods' \in Nat /\ rolling' \in BOOLEAN
      <4>1. CASE Fail("immutable") \/ Fail("deploy")
        BY <1>0, <1>3, <1>4, <4>1 DEF ClusterTypeOK
      <4>2. CASE rolling' = (rolling \/ Wanted # deployment) /\ UNCHANGED <<pods, missed>>
        <5>1. rolling' \in BOOLEAN
          BY <4>2
        <5> QED BY <1>0, <4>2, <5>1 DEF ClusterTypeOK
      <4> QED BY <2>5, <4>1, <4>2 DEF Deploy
    <3> QED BY <1>0, <2>5, <3>1, <3>2, <3>3 DEF Deploy, ClusterTypeOK
  <2>6. CASE ApplyService
    BY <1>0, <2>6 DEF ApplyService, ClusterTypeOK
  <2> QED BY <2>1, <2>2, <2>3, <2>4, <2>5, <2>6 DEF Deploying
<1> QED BY <1>1, <1>5, <1>6, <1>7, TypeParts

LEMMA TypeBegin == ASSUME TypeOK, Begin PROVE TypeOK'
<1>0. EnvTypeOK /\ ResourceTypeOK /\ ClusterTypeOK /\ WorkTypeOK
  BY TypeParts
<1>1. EnvTypeOK' /\ ResourceTypeOK' /\ ClusterTypeOK'
  BY <1>0 DEF Begin, EnvTypeOK, ResourceTypeOK, ClusterTypeOK
<1>2. WorkTypeOK'
  BY <1>0 DEF Begin, ResourceTypeOK, WorkTypeOK, Labels
<1> QED BY <1>1, <1>2, TypeParts

\* Every step keeps the types.
THEOREM TypeStep == TypeOK /\ [Next]_vars => TypeOK'
<1> SUFFICES ASSUME TypeOK, [Next]_vars PROVE TypeOK' OBVIOUS
<1>1. CASE UNCHANGED vars
  BY <1>1 DEF TypeOK
<1>2. CASE Next
  BY <1>2, TypeEnvironment, TypeCrash, TypeBegin, TypeWriting, TypeCleaning, TypeDeploying
     DEF Next, Reconcile, Writing, Cleaning, Deploying
<1> QED BY <1>1, <1>2

\* Every variable of the chaincode controller keeps to its type in every behaviour.
THEOREM TypeCorrect == Spec => []TypeOK
BY TypeInit, TypeStep, PTL DEF Spec

-----------------------------------------------------------------------------
(* Nothing is left behind.  What makes it inductive: how far the resource,    *)
(* the cache and the worker are on the way from new to gone, and what the     *)
(* worker has deleted so far.  A pass that no other will follow works on the  *)
(* last spec.                                                                 *)

Removing == {"deleteDeployment", "deleteService", "deleteSecret", "release"}
Installing == {"template", "secret", "enroll", "store", "deploy", "service"}
Reporting == {"mark", "status"}

\* There is a pass to come.
Awaited == queued \/ ~synced \/ ~announced

PhaseLinked ==
    /\ synced => cache = cr
    /\ objFresh => pc # "idle" /\ obj.phase = cr.phase
    /\ pc # "idle" /\ synced /\ ~queued => obj.spec = cr.spec
    /\ cache.phase = "managed" => cr.phase \in {"managed", "deleting"}
    /\ cache.phase = "deleting" => cr.phase \in {"deleting", "gone"}
    /\ cache.phase = "gone" => cr.phase = "gone"
    /\ pc = "adopt" => obj.phase = "new"
    /\ pc \in Removing => {cr.phase, cache.phase} \subseteq {"deleting", "gone"}
    /\ pc \in Installing \cup Reporting => cr.phase \in {"managed", "deleting"}

Left ==
    /\ cr.phase = "new" => deployment = None /\ ~service /\ secret = Absent
    /\ pc \in {"deleteService", "deleteSecret", "release"} => deployment = None
    /\ pc \in {"deleteSecret", "release"} => ~service
    /\ pc = "release" => secret = Absent
    /\ NothingLeftBehind

\* The phase and the spec of a changed copy.
LEMMA FieldsOf ==
    ASSUME NEW o \in Object
    PROVE  /\ \A x : [o EXCEPT !.spec = x].phase = o.phase
           /\ \A x : [o EXCEPT !.phase = x].phase = x
           /\ \A x : [o EXCEPT !.phase = x].spec = o.spec
           /\ \A x : [o EXCEPT !.status = x].phase = o.phase
           /\ \A x : [o EXCEPT !.status = x].spec = o.spec
           /\ \A x : [o EXCEPT !.status = x].status = x
BY DEF Object

\* A step of the worker after which the resource is in the phase it was in before.
LEMMA PhaseKept ==
    ASSUME PhaseLinked, cr'.phase = cr.phase, cr'.spec = cr.spec, cache' = cache,
           synced' => synced /\ cr' = cr, ~queued' => ~queued,
           objFresh' => pc' # "idle" /\ obj'.phase = cr.phase,
           pc' # "idle" => pc # "idle" /\ obj'.spec \in {obj.spec, cr.spec},
           pc' # "adopt", pc' \in Removing => pc \in Removing,
           pc' \in Installing \cup Reporting => pc \in Installing \cup Reporting
    PROVE  PhaseLinked'
BY DEF PhaseLinked

\* What an edit makes of the phase.
LEMMA EditPhase ==
    ASSUME cr \in Object, Edit
    PROVE  \/ cr'.phase = cr.phase /\ cr.phase # "gone"
           \/ cr.phase = "new" /\ cr'.phase = "gone"
           \/ cr.phase = "managed" /\ cr'.phase = "deleting"
<1>1. CASE cr.phase # "gone" /\ \E s \in Specs \ {cr.spec} : cr' = [cr EXCEPT !.spec = s]
  <2>1. PICK s : cr' = [cr EXCEPT !.spec = s]
    BY <1>1
  <2>2. cr'.phase = cr.phase
    BY <2>1, FieldsOf
  <2> QED BY <1>1, <2>2
<1>2. CASE cr.phase = "new" /\ cr' = [cr EXCEPT !.phase = "gone"]
  <2>1. cr'.phase = "gone"
    BY <1>2, FieldsOf
  <2> QED BY <1>2, <2>1
<1>3. CASE cr.phase = "managed" /\ cr' = [cr EXCEPT !.phase = "deleting"]
  <2>1. cr'.phase = "deleting"
    BY <1>3, FieldsOf
  <2> QED BY <1>3, <2>1
<1> QED BY <1>1, <1>2, <1>3 DEF Edit

LEMMA PhaseAround ==
    ASSUME TypeOK, PhaseLinked,
           Edit \/ EditTemplate \/ LoseSecret \/ CacheSync \/ TemplateEvent \/ RolloutDone \/ Crash
    PROVE  PhaseLinked'
<1>0. cr \in Object
  BY TypeParts DEF ResourceTypeOK
<1>1. CASE Edit
  <2>1. \/ cr'.phase = cr.phase
        \/ cr.phase = "new" /\ cr'.phase = "gone"
        \/ cr.phase = "managed" /\ cr'.phase = "deleting"
    BY <1>0, <1>1, EditPhase
  <2> QED BY <1>1, <2>1 DEF Edit, PhaseLinked
<1>2. CASE EditTemplate \/ LoseSecret \/ RolloutDone
  BY <1>2 DEF EditTemplate, LoseSecret, RolloutDone, PhaseLinked
<1>3. CASE CacheSync
  BY <1>3 DEF CacheSync, PhaseLinked
<1>4. CASE TemplateEvent
  <2>1. UNCHANGED <<cr, cache, synced, pc, obj, objFresh>> /\ (~queued' => ~queued)
    BY <1>4 DEF TemplateEvent
  <2> QED BY <2>1 DEF PhaseLinked
<1>5. CASE Crash
  <2>1. cache' = cr /\ cr' = cr /\ synced' /\ pc' = "idle" /\ ~objFresh'
    BY <1>5 DEF Crash
  <2> QED BY <2>1 DEF PhaseLinked, Removing, Installing, Reporting
<1> QED BY <1>1, <1>2, <1>3, <1>4, <1>5

LEMMA PhaseBegin == ASSUME TypeOK, PhaseLinked, Begin PROVE PhaseLinked'
<1>0. cache \in Object
  BY TypeParts DEF ResourceTypeOK
<1>1. UNCHANGED crVars /\ pc = "idle" /\ ~objFresh
  BY DEF Begin, PhaseLinked
<1>2. CASE cache.phase = "gone"
  BY <1>1, <1>2 DEF Begin, PhaseLinked
<1>3. CASE cache.phase # "gone"
  <2>1. obj' = cache /\ objFresh' = synced /\ pc' # "idle"
    BY <1>3 DEF Begin
  <2>2. \/ cache.phase = "new" /\ pc' = "adopt"
        \/ cache.phase = "deleting" /\ pc' = "deleteDeployment"
        \/ cache.phase = "managed" /\ pc' = "template"
    BY <1>0, <1>3 DEF Begin, Object
  <2>3. pc' = "adopt" => obj'.phase = "new"
    BY <2>1, <2>2
  <2>4. pc' \in Removing => {cr.phase, cache.phase} \subseteq {"deleting", "gone"}
    BY <2>2 DEF PhaseLinked, Removing
  <2>5. pc' \in Installing \cup Reporting => cr.phase \in {"managed", "deleting"}
    BY <2>2 DEF PhaseLinked, Installing, Reporting
  <2> QED BY <1>1, <2>1, <2>3, <2>4, <2>5 DEF PhaseLinked
<1> QED BY <1>2, <1>3

LEMMA PhaseWriting == ASSUME TypeOK, PhaseLinked, Writing PROVE PhaseLinked'
<1>0. cr \in Object /\ obj \in Object /\ WorkTypeOK
  BY TypeParts DEF ResourceTypeOK, WorkTypeOK
<1>1. CASE Adopt
  <2>1. CASE WritePhase("managed") /\ obj' = cr' /\ pc' = "template"
             /\ UNCHANGED <<queued, objFresh, passVars>>
    <3>1. cr' = [cr EXCEPT !.phase = "managed"] /\ objFresh /\ cache' = cache
          /\ (synced' => synced /\ cr' = cr)
      BY <2>1 DEF WritePhase, Store
    <3>2. cr'.phase = "managed" /\ cr'.spec = cr.spec
      BY <1>0, <3>1, FieldsOf
    <3>3. cr.phase = "new"
      BY <1>1, <3>1 DEF Adopt, PhaseLinked
    <3> QED BY <2>1, <3>1, <3>2, <3>3 DEF PhaseLinked, Removing
  <2>2. CASE Return(TRUE) /\ UNCHANGED crVars
    BY <2>2, PhaseKept DEF Return, Removing, Installing, Reporting
  <2> QED BY <1>1, <2>1, <2>2 DEF Adopt
<1>2. CASE Release
  <2>1. CASE WritePhase("gone") /\ Return(FALSE)
    <3>1. cr' = [cr EXCEPT !.phase = "gone"] /\ cache' = cache
          /\ (synced' => synced /\ cr' = cr)
      BY <2>1 DEF WritePhase, Store
    <3>2. cr'.phase = "gone"
      BY <1>0, <3>1, FieldsOf
    <3>3. {cr.phase, cache.phase} \subseteq {"deleting", "gone"}
      BY <1>2 DEF Release, PhaseLinked, Removing
    <3> QED BY <2>1, <3>1, <3>2, <3>3 DEF PhaseLinked, Return, Removing, Installing, Reporting
  <2>2. CASE Return(TRUE) /\ UNCHANGED crVars
    BY <2>2, PhaseKept DEF Return, Removing, Installing, Reporting
  <2> QED BY <1>2, <2>1, <2>2 DEF Release
<1>3. CASE Mark
  <2>1. /\ Marked(obj, result.message).phase = obj.phase
        /\ Marked(obj, result.message).spec = obj.spec
        /\ Marked(obj, "patch").phase = obj.phase /\ Marked(obj, "patch").spec = obj.spec
        /\ Marked(cr, "").phase = cr.phase /\ Marked(cr, "").spec = cr.spec
    <3>1. {result.message, "patch", ""} \subseteq Messages
      BY <1>0 DEF WorkTypeOK, Result, Messages
    <3> QED BY <1>0, <3>1, MarkedType
  <2>2. CASE /\ obj' \in {Marked(obj, result.message), Marked(obj, "patch")}
             /\ UNCHANGED <<crVars, objFresh>>
    <3>1. obj'.phase = obj.phase /\ obj'.spec = obj.spec
      BY <2>1, <2>2
    <3> QED BY <1>3, <2>2, <3>1, PhaseKept DEF Mark, PhaseLinked, Removing, Installing, Reporting
  <2>3. CASE Store([cr EXCEPT !.status = result.status]) /\ obj' = Marked(cr, "") /\ objFresh'
    <3>1. cr'.phase = cr.phase /\ cr'.spec = cr.spec
      BY <1>0, <2>3, FieldsOf DEF Store
    <3>2. cache' = cache /\ (synced' => synced /\ cr' = cr)
      BY <2>3 DEF Store
    <3> QED BY <1>3, <2>1, <2>3, <3>1, <3>2, PhaseKept DEF Mark, Removing, Installing, Reporting
  <2> QED BY <1>3, <2>2, <2>3 DEF Mark
<1>4. CASE UpdateStatus
  <2>1. CASE Return(FALSE) /\ Store([cr EXCEPT !.status = obj.status, !.message = obj.message,
                                               !.conditions = obj.conditions])
    <3>1. cr'.phase = cr.phase /\ cr'.spec = cr.spec
      BY <1>0, <2>1 DEF Store, Object
    <3>2. cache' = cache /\ (synced' => synced /\ cr' = cr)
      BY <2>1 DEF Store
    <3> QED BY <2>1, <3>1, <3>2, PhaseKept DEF Return, Removing, Installing, Reporting
  <2>2. CASE Return(TRUE) /\ UNCHANGED crVars
    BY <2>2, PhaseKept DEF Return, Removing, Installing, Reporting
  <2> QED BY <1>4, <2>1, <2>2 DEF UpdateStatus
<1> QED BY <1>1, <1>2, <1>3, <1>4 DEF Writing

LEMMA PhaseCleaning == ASSUME PhaseLinked, Cleaning PROVE PhaseLinked'
<1>1. CASE FinalizeFails
  BY <1>1, PhaseKept DEF FinalizeFails, Return, Removing, Installing, Reporting
<1>2. CASE DeleteDeployment \/ DeleteService \/ DeleteSecret
  BY <1>2, PhaseKept
     DEF DeleteDeployment, DeleteService, DeleteSecret, PhaseLinked, Removing, Installing,
         Reporting
<1> QED BY <1>1, <1>2 DEF Cleaning

LEMMA PhaseDeploying == ASSUME PhaseLinked, Deploying PROVE PhaseLinked'
<1>1. UNCHANGED <<crVars, queued, copyVars>>
  BY DEF Deploying, ReadTemplate, ReadSecret, Enroll, StoreSecret, Deploy, ApplyService, Fail,
         Conclude
<1>2. pc \in Installing
  BY DEF Deploying, ReadTemplate, ReadSecret, Enroll, StoreSecret, Deploy, ApplyService,
         Installing
<1>3. pc' \in Installing \cup Reporting
  BY DEF Deploying, ReadTemplate, ReadSecret, Enroll, StoreSecret, Deploy, ApplyService, Fail,
         Conclude, Installing, Reporting
<1>4. pc # "idle" /\ pc' # "idle" /\ pc' # "adopt" /\ pc' \notin Removing
  BY <1>2, <1>3 DEF Installing, Reporting, Removing
<1> QED BY <1>1, <1>2, <1>3, <1>4, PhaseKept DEF PhaseLinked

LEMMA PhaseStep == TypeOK /\ PhaseLinked /\ [Next]_vars => PhaseLinked'
<1> SUFFICES ASSUME TypeOK, PhaseLinked, [Next]_vars PROVE PhaseLinked' OBVIOUS
<1>1. CASE UNCHANGED vars
  BY <1>1 DEF PhaseLinked
<1>2. CASE Next
  BY <1>2, PhaseAround, PhaseBegin, PhaseWriting, PhaseCleaning, PhaseDeploying
     DEF Next, Reconcile, Writing, Cleaning, Deploying
<1> QED BY <1>1, <1>2

LEMMA LeftAround ==
    ASSUME TypeOK, PhaseLinked, Left,
           Edit \/ EditTemplate \/ LoseSecret \/ CacheSync \/ TemplateEvent \/ RolloutDone \/ Crash
    PROVE  Left'
<1>1. CASE Edit
  <2>1. \/ cr'.phase = cr.phase /\ cr.phase # "gone"
        \/ cr.phase = "new" /\ cr'.phase = "gone"
        \/ cr.phase = "managed" /\ cr'.phase = "deleting"
    BY <1>1, TypeParts, EditPhase DEF ResourceTypeOK
  <2> QED BY <1>1, <2>1 DEF Edit, Left, NothingLeftBehind
<1>2. CASE LoseSecret
  BY <1>2 DEF LoseSecret, Left, NothingLeftBehind, Absent
<1>3. CASE EditTemplate \/ CacheSync \/ TemplateEvent \/ RolloutDone
  BY <1>3 DEF EditTemplate, CacheSync, TemplateEvent, RolloutDone, Left, NothingLeftBehind
<1>4. CASE Crash
  BY <1>4 DEF Crash, Left, NothingLeftBehind
<1> QED BY <1>1, <1>2, <1>3, <1>4

LEMMA LeftWriting == ASSUME TypeOK, PhaseLinked, Left, Begin \/ Writing PROVE Left'
<1>0. cr \in Object
  BY TypeParts DEF ResourceTypeOK
<1>1. UNCHANGED <<deployment, service, secret>>
  BY DEF Begin, Writing, Adopt, Release, Mark, UpdateStatus
<1>2. CASE Begin
  BY <1>1, <1>2 DEF Begin, Left, NothingLeftBehind
<1>3. CASE Adopt
  <2>1. cr' = cr \/ cr'.phase = "managed"
    <3>1. [cr EXCEPT !.phase = "managed"].phase = "managed"
      BY <1>0, FieldsOf
    <3> QED BY <1>3, <3>1 DEF Adopt, WritePhase, Store
  <2>2. pc' \in {"template", "idle"}
    BY <1>3 DEF Adopt, Return
  <2> QED BY <1>1, <2>1, <2>2 DEF Left, NothingLeftBehind
<1>4. CASE Release
  <2>1. cr' = cr \/ cr'.phase = "gone"
    <3>1. [cr EXCEPT !.phase = "gone"].phase = "gone"
      BY <1>0, FieldsOf
    <3> QED BY <1>4, <3>1 DEF Release, WritePhase, Store
  <2>2. pc = "release" /\ pc' = "idle"
    BY <1>4 DEF Release, Return
  <2> QED BY <1>1, <2>1, <2>2 DEF Left, NothingLeftBehind
<1>5. CASE Mark \/ UpdateStatus
  <2>1. cr'.phase = cr.phase
    <3>1. CASE Mark
      <4>1. [cr EXCEPT !.status = result.status].phase = cr.phase
        BY <1>0, FieldsOf
      <4> QED BY <3>1, <4>1 DEF Mark, Store
    <3>2. CASE UpdateStatus
      BY <1>0, <3>2 DEF UpdateStatus, Store, Object
    <3> QED BY <1>5, <3>1, <3>2
  <2>2. pc' \in {"status", "idle"}
    BY <1>5 DEF Mark, UpdateStatus, Return
  <2> QED BY <1>1, <2>1, <2>2 DEF Left, NothingLeftBehind
<1> QED BY <1>2, <1>3, <1>4, <1>5 DEF Writing

LEMMA LeftReconciling == ASSUME PhaseLinked, Left, Cleaning \/ Deploying PROVE Left'
<1>1. CASE FinalizeFails
  BY <1>1 DEF FinalizeFails, Return, Left, NothingLeftBehind
<1>2. CASE DeleteDeployment \/ DeleteService \/ DeleteSecret
  BY <1>2 DEF DeleteDeployment, DeleteService, DeleteSecret, Left, NothingLeftBehind
<1>3. CASE Deploying
  <2>1. cr.phase \in {"managed", "deleting"}
    BY <1>3 DEF Deploying, ReadTemplate, ReadSecret, Enroll, StoreSecret, Deploy, ApplyService,
                PhaseLinked, Installing
  <2>2. cr' = cr /\ pc' \in Installing \cup Reporting
    BY <1>3 DEF Deploying, ReadTemplate, ReadSecret, Enroll, StoreSecret, Deploy, ApplyService,
                Fail, Conclude, Installing, Reporting
  <2> QED BY <2>1, <2>2 DEF Left, NothingLeftBehind, Installing, Reporting
<1> QED BY <1>1, <1>2, <1>3 DEF Cleaning

\* A new chaincode has no objects in the cluster yet.
THEOREM LeftInit == Init => PhaseLinked /\ Left
BY DEF Init, Blank, PhaseLinked, Left, NothingLeftBehind, Removing, Installing, Reporting

\* Every step keeps what is left to be deleted in reach of the worker.
THEOREM LeftStep == TypeOK /\ PhaseLinked /\ Left /\ [Next]_vars => Left'
<1> SUFFICES ASSUME TypeOK, PhaseLinked, Left, [Next]_vars PROVE Left' OBVIOUS
<1>1. CASE UNCHANGED vars
  BY <1>1 DEF Left, NothingLeftBehind
<1>2. CASE Next
  BY <1>2, LeftAround, LeftWriting, LeftReconciling
     DEF Next, Reconcile, Writing, Cleaning, Deploying
<1> QED BY <1>1, <1>2

\* A chaincode that is gone has left no Deployment, Service or Secret behind, however its
\* deletion was interrupted.
THEOREM Removed == Spec => []NothingLeftBehind
<1>1. Left => NothingLeftBehind
  BY DEF Left
<1> QED BY <1>1, TypeInit, TypeStep, LeftInit, PhaseStep, LeftStep, PTL DEF Spec

-----------------------------------------------------------------------------
(* Running means deployed.  What makes it inductive: a pass that no other     *)
(* will follow has read the template there is, and has the Deployment and the *)
(* Service in place when it is about to report success.                       *)

Applied == /\ deployment # None /\ deployment.spec = obj.spec
           /\ deployment.template = IF obj.spec \in Templated THEN template ELSE None

StatusLinked ==
    /\ pc \in {"secret", "enroll", "store", "deploy"} /\ ~Awaited =>
           defaults = IF obj.spec \in Templated THEN template ELSE None
    /\ pc = "service" /\ ~Awaited => Applied
    /\ pc \in Reporting /\ result.status = "Running" /\ ~Awaited => Applied /\ service
    /\ pc = "status" => obj.status = result.status
    /\ RunningMeansDeployed

\* Nothing has to be known of a pass that another will follow ...
LEMMA AwaitedLinked ==
    ASSUME Awaited', pc' = "status" => obj'.status = result'.status
    PROVE  StatusLinked'
BY DEF StatusLinked, Awaited, RunningMeansDeployed, Quiet

\* ... or of one that does not deploy.
LEMMA ElsewhereLinked ==
    ASSUME pc' \notin Reporting \cup (Installing \ {"template"}),
           pc' = "idle" => cr'.phase # "managed"
    PROVE  StatusLinked'
BY DEF StatusLinked, RunningMeansDeployed, Quiet, Reporting, Installing

LEMMA StatusAround ==
    ASSUME PhaseLinked, StatusLinked,
           Edit \/ EditTemplate \/ LoseSecret \/ CacheSync \/ TemplateEvent \/ RolloutDone \/ Crash
    PROVE  StatusLinked'
<1>1. CASE Edit \/ EditTemplate \/ CacheSync
  BY <1>1, AwaitedLinked DEF Edit, EditTemplate, CacheSync, Awaited, StatusLinked
<1>2. CASE LoseSecret \/ RolloutDone
  BY <1>2 DEF LoseSecret, RolloutDone, StatusLinked, RunningMeansDeployed, Quiet, Deployed,
              Applied, Awaited
<1>3. CASE TemplateEvent
  <2>1. CASE cache.phase # "gone"
    BY <1>3, <2>1, AwaitedLinked DEF TemplateEvent, Awaited, StatusLinked
  <2>2. CASE cache.phase = "gone"
    BY <1>3, <2>2, ElsewhereLinked DEF TemplateEvent, PhaseLinked
  <2> QED BY <2>1, <2>2
<1>4. CASE Crash
  <2>1. CASE cr.phase # "gone"
    BY <1>4, <2>1, AwaitedLinked DEF Crash, Awaited
  <2>2. CASE cr.phase = "gone"
    BY <1>4, <2>2, ElsewhereLinked DEF Crash, Reporting, Installing
  <2> QED BY <2>1, <2>2
<1> QED BY <1>1, <1>2, <1>3, <1>4

LEMMA StatusWriting ==
    ASSUME TypeOK, PhaseLinked, StatusLinked, Begin \/ Writing
    PROVE  StatusLinked'
<1>0. cr \in Object /\ obj \in Object /\ WorkTypeOK /\ cache \in Object
  BY TypeParts DEF ResourceTypeOK, WorkTypeOK
<1>1. CASE Begin
  <2>1. pc' \in {"idle", "adopt", "deleteDeployment", "template"}
    BY <1>1 DEF Begin
  <2>2. pc' = "idle" => cr'.phase = "gone"
    BY <1>0, <1>1 DEF Begin, PhaseLinked
  <2> QED BY <2>1, <2>2, ElsewhereLinked DEF Reporting, Installing
<1>2. CASE Adopt
  <2>1. CASE pc' = "template"
    BY <2>1, ElsewhereLinked DEF Reporting, Installing
  <2>2. CASE Return(TRUE)
    BY <2>2, AwaitedLinked DEF Return, Awaited
  <2> QED BY <1>2, <2>1, <2>2 DEF Adopt
<1>3. CASE Release
  <2>1. CASE WritePhase("gone") /\ Return(FALSE)
    <3>1. [cr EXCEPT !.phase = "gone"].phase = "gone"
      BY <1>0, FieldsOf
    <3>2. cr'.phase = "gone" /\ pc' = "idle"
      BY <2>1, <3>1 DEF WritePhase, Store, Return
    <3> QED BY <3>2, ElsewhereLinked DEF Reporting, Installing
  <2>2. CASE Return(TRUE)
    BY <2>2, AwaitedLinked DEF Return, Awaited
  <2> QED BY <1>3, <2>1, <2>2 DEF Release
<1>4. CASE Mark
  <2>1. /\ pc = "mark" /\ pc' = "status" /\ result' = result /\ queued' = queued
        /\ UNCHANGED <<template, announced, deployment, service>>
    BY <1>4 DEF Mark
  <2>2. \/ obj' \in {Marked(obj, result.message), Marked(obj, "patch")} /\ UNCHANGED crVars
        \/ obj' = Marked(cr, "") /\ Store([cr EXCEPT !.status = result.status])
    BY <1>4 DEF Mark
  <2>3. obj'.status = result.status /\ obj'.spec \in {obj.spec, cr.spec}
    <3>1. {result.message, "patch", ""} \subseteq Messages
      BY <1>0 DEF WorkTypeOK, Result, Messages
    <3>2. \A m \in {result.message, "patch", ""}, o \in {obj, cr} :
              Marked(o, m).status = result.status /\ Marked(o, m).spec = o.spec
      BY <1>0, <3>1, MarkedType
    <3> QED BY <2>2, <3>2
  <2>4. synced' => synced
    BY <2>2 DEF Store
  <2>5. CASE Awaited'
    BY <2>1, <2>3, <2>5, AwaitedLinked
  <2>6. CASE ~Awaited'
    <3>1. ~Awaited /\ obj'.spec = obj.spec
      BY <2>1, <2>3, <2>4, <2>6 DEF Awaited, PhaseLinked
    <3>2. result.status = "Running" => Applied /\ service
      BY <2>1, <3>1 DEF StatusLinked, Reporting
    <3>3. result'.status = "Running" => Applied' /\ service'
      BY <2>1, <3>1, <3>2 DEF Applied
    <3> QED BY <2>1, <2>3, <3>3 DEF StatusLinked, RunningMeansDeployed, Quiet
  <2> QED BY <2>5, <2>6
<1>5. CASE UpdateStatus
  <2>1. CASE Return(FALSE) /\ Store([cr EXCEPT !.status = obj.status, !.message = obj.message,
                                               !.conditions = obj.conditions])
    <3>1. cr'.status = obj.status /\ cr'.spec = cr.spec
      BY <1>0, <2>1 DEF Store, Object
    <3>2. pc = "status" /\ UNCHANGED <<template, announced, deployment, service>>
          /\ (synced' => synced) /\ (~queued' => ~queued) /\ pc' = "idle"
      BY <1>5, <2>1 DEF UpdateStatus, Return, Store
    <3>3. CASE Awaited'
      BY <3>2, <3>3, AwaitedLinked
    <3>4. CASE ~Awaited'
      <4>1. ~Awaited /\ obj.spec = cr.spec
        BY <3>2, <3>4 DEF Awaited, PhaseLinked
      <4>2. cr'.status = "Running" => Applied /\ service
        BY <3>1, <3>2, <4>1 DEF StatusLinked, Reporting
      <4>3. cr'.status = "Running" => Deployed'
        BY <3>1, <3>2, <4>1, <4>2 DEF Applied, Deployed
      <4> QED BY <3>2, <4>3 DEF StatusLinked, RunningMeansDeployed, Reporting
    <3> QED BY <3>3, <3>4
  <2>2. CASE Return(TRUE)
    BY <2>2, AwaitedLinked DEF Return, Awaited
  <2> QED BY <1>5, <2>1, <2>2 DEF UpdateStatus
<1> QED BY <1>1, <1>2, <1>3, <1>4, <1>5 DEF Writing

LEMMA StatusCleaning == ASSUME Cleaning PROVE StatusLinked'
<1>1. CASE FinalizeFails
  BY <1>1, AwaitedLinked DEF FinalizeFails, Return, Awaited
<1>2. CASE DeleteDeployment \/ DeleteService \/ DeleteSecret
  BY <1>2, ElsewhereLinked DEF DeleteDeployment, DeleteService, DeleteSecret, Reporting, Installing
<1> QED BY <1>1, <1>2 DEF Cleaning

\* A failure to be reported.
LEMMA FailedLinked == ASSUME NEW e, Conclude(Failure(e)) PROVE StatusLinked'
BY DEF Conclude, Failure, StatusLinked, RunningMeansDeployed, Quiet, Reporting

LEMMA StatusDeploying == ASSUME TypeOK, StatusLinked, Deploying PROVE StatusLinked'
<1>1. CASE \E e : Conclude(Failure(e))
  BY <1>1, FailedLinked
<1>2. CASE \A e : ~Conclude(Failure(e))
  <2>0. UNCHANGED <<queued, synced, announced, template, obj>>
    BY DEF Deploying, ReadTemplate, ReadSecret, Enroll, StoreSecret, Deploy, ApplyService, Fail,
           Conclude
  <2>1. Awaited' <=> Awaited
    BY <2>0 DEF Awaited
  <2>2. CASE ReadTemplate
    BY <1>2, <2>0, <2>2
       DEF ReadTemplate, Fail, StatusLinked, RunningMeansDeployed, Quiet, Reporting
  <2>3. CASE ReadSecret \/ Enroll \/ StoreSecret
    <3>1. /\ pc \in {"secret", "enroll", "store"} /\ pc' \in {"enroll", "store", "deploy"}
          /\ defaults' = defaults
      BY <1>2, <2>3 DEF ReadSecret, Enroll, StoreSecret, Fail
    <3> QED BY <2>0, <2>1, <3>1 DEF StatusLinked, RunningMeansDeployed, Quiet, Reporting
  <2>4. CASE Deploy
    <3>1. pc = "deploy" /\ pc' = "service" /\ deployment' = Wanted
      BY <1>2, <2>4 DEF Deploy, Fail
    <3>2. Wanted # None
      <4>1. Wanted \in [spec : Specs, template : Templates \cup {None}, restart : Nat]
        BY TypeParts DEF Wanted, WorkTypeOK, Object
      <4> QED BY <4>1, NoneAssumption
    <3>3. Wanted.spec = obj.spec /\ Wanted.template = defaults
      BY DEF Wanted
    <3>4. ~Awaited' => Applied'
      BY <2>0, <2>1, <3>1, <3>2, <3>3 DEF StatusLinked, Applied
    <3> QED BY <3>1, <3>4 DEF StatusLinked, RunningMeansDeployed, Quiet, Reporting
  <2>5. CASE ApplyService
    <3>1. pc = "service" /\ pc' = "mark" /\ service' /\ deployment' = deployment
      BY <1>2, <2>5 DEF ApplyService, Conclude
    <3>2. ~Awaited' => Applied'
      BY <2>0, <2>1, <3>1 DEF StatusLinked, Applied
    <3> QED BY <3>1, <3>2 DEF StatusLinked, RunningMeansDeployed, Quiet, Reporting
  <2> QED BY <2>2, <2>3, <2>4, <2>5 DEF Deploying
<1> QED BY <1>1, <1>2

\* There is nothing to report at first.
THEOREM StatusInit == Init => StatusLinked
BY DEF Init, Blank, StatusLinked, RunningMeansDeployed, Quiet, Reporting

\* Every step keeps the links of the status to what is deployed.
THEOREM StatusStep == TypeOK /\ PhaseLinked /\ StatusLinked /\ [Next]_vars => StatusLinked'
<1> SUFFICES ASSUME TypeOK, PhaseLinked, StatusLinked, [Next]_vars PROVE StatusLinked' OBVIOUS
<1>1. CASE UNCHANGED vars
  BY <1>1 DEF StatusLinked, Applied, Awaited, RunningMeansDeployed, Quiet, Deployed
<1>2. CASE Next
  BY <1>2, StatusAround, StatusWriting, StatusCleaning, StatusDeploying
     DEF Next, Reconcile, Writing, Cleaning, Deploying
<1> QED BY <1>1, <1>2

\* Once everything has been worked off, Running means that the Deployment is the one that
\* spec and template ask for.
THEOREM RunningDeployed == Spec => []RunningMeansDeployed
<1>1. StatusLinked => RunningMeansDeployed
  BY DEF StatusLinked
<1> QED BY <1>1, TypeInit, TypeStep, LeftInit, PhaseStep, StatusInit, StatusStep, PTL DEF Spec

-----------------------------------------------------------------------------
(* The pods use the Secret.  What makes it inductive: a certificate that is   *)
(* not noted in the Deployment yet is newer than the one that is, so that to  *)
(* note it restarts the pods.                                                 *)

PodsLinked ==
    /\ pc \notin {"store", "deploy"} => crypto = NoCrypto
    /\ crypto.updated => crypto.cert = issued
    /\ deployment # None => deployment.restart <= issued
    /\ deployment # None /\ crypto.updated => deployment.restart < issued
    /\ pc = "store" /\ ~crypto.updated =>
           read = "stale" \/ (read = "current" /\ secret = crypto.cert)
    /\ ~rolling /\ ~missed /\ ~crypto.updated /\ deployment # None =>
           (deployment.spec \in TLS /\ secret > 0 => pods = secret)

LEMMA NotUpdated == ~NoCrypto.updated
BY DEF NoCrypto

\* What leaves the worker's certificate and the Deployment alone.
LEMMA PodsKept ==
    ASSUME PodsLinked, UNCHANGED <<secret, issued, deployment, pods, rolling>>,
           \/ /\ pc' = pc \/ {pc, pc'} \cap {"store", "deploy"} = {}
              /\ crypto' = crypto /\ read' = read /\ missed' = missed
           \/ crypto' = NoCrypto /\ pc' \notin {"store", "deploy"} /\ missed' = Missed
    PROVE  PodsLinked'
<1>1. CASE /\ pc' = pc \/ {pc, pc'} \cap {"store", "deploy"} = {}
           /\ crypto' = crypto /\ read' = read /\ missed' = missed
  BY <1>1 DEF PodsLinked
<1>2. CASE crypto' = NoCrypto /\ pc' \notin {"store", "deploy"} /\ missed' = Missed
  <2>1. ~crypto'.updated
    BY <1>2, NotUpdated
  <2>2. ~missed' => ~missed /\ ~crypto.updated
    BY <1>2 DEF Missed
  <2> QED BY <1>2, <2>1, <2>2 DEF PodsLinked
<1> QED BY <1>1, <1>2

LEMMA PodsAround ==
    ASSUME TypeOK, PodsLinked,
           Edit \/ EditTemplate \/ LoseSecret \/ CacheSync \/ TemplateEvent \/ RolloutDone \/ Crash
    PROVE  PodsLinked'
<1>1. CASE Edit \/ EditTemplate \/ CacheSync \/ TemplateEvent
  BY <1>1, PodsKept DEF Edit, EditTemplate, CacheSync, TemplateEvent
<1>2. CASE LoseSecret
  <2>1. ~(secret' > 0) /\ UNCHANGED <<issued, deployment, pods, rolling, missed, pc, crypto>>
    BY <1>2 DEF LoseSecret, Absent
  <2>2. read' = "stale" \/ (read # "current" /\ read' = read)
    BY <1>2 DEF LoseSecret
  <2> QED BY <2>1, <2>2 DEF PodsLinked
<1>3. CASE RolloutDone
  BY <1>3 DEF RolloutDone, PodsLinked
<1>4. CASE Crash
  BY <1>4, PodsKept DEF Crash
<1> QED BY <1>1, <1>2, <1>3, <1>4

LEMMA PodsWriting == ASSUME PodsLinked, Begin \/ Writing PROVE PodsLinked'
<1>1. /\ UNCHANGED <<cryptoVars, deployment, podVars>>
      /\ pc \notin {"store", "deploy"} /\ pc' \notin {"store", "deploy"}
  BY DEF Begin, Writing, Adopt, Release, Mark, UpdateStatus, Return
<1>2. crypto = NoCrypto
  BY <1>1 DEF PodsLinked
<1>3. crypto' = NoCrypto
  BY <1>2 DEF Begin, Writing, Adopt, Release, Mark, UpdateStatus, Return
<1>4. missed' = missed \/ missed' = Missed
  BY <1>1
<1> QED BY <1>1, <1>2, <1>3 DEF PodsLinked

LEMMA PodsCleaning == ASSUME PodsLinked, Cleaning PROVE PodsLinked'
<1>1. /\ pc \notin {"store", "deploy"} /\ pc' \notin {"store", "deploy"}
      /\ issued' = issued
  BY DEF Cleaning, FinalizeFails, DeleteDeployment, DeleteService, DeleteSecret, Return
<1>2. crypto = NoCrypto /\ crypto' = NoCrypto
  BY <1>1 DEF Cleaning, FinalizeFails, DeleteDeployment, DeleteService, DeleteSecret, Return,
              PodsLinked
<1>3. CASE FinalizeFails \/ DeleteService
  BY <1>1, <1>2, <1>3 DEF FinalizeFails, DeleteService, PodsLinked
<1>4. CASE DeleteDeployment
  BY <1>1, <1>2, <1>4 DEF DeleteDeployment, PodsLinked, NoCrypto
<1>5. CASE DeleteSecret
  BY <1>1, <1>2, <1>5 DEF DeleteSecret, PodsLinked, Absent
<1> QED BY <1>3, <1>4, <1>5 DEF Cleaning

LEMMA PodsDeploying == ASSUME TypeOK, PodsLinked, Deploying PROVE PodsLinked'
<1>0. ClusterTypeOK /\ WorkTypeOK
  BY TypeParts
<1>1. CASE /\ \E e : Fail(e)
           /\ UNCHANGED <<secret, issued, deployment>>
  BY <1>1, PodsKept DEF Fail, Conclude
<1>2. CASE ReadTemplate
  BY <1>1, <1>2, PodsKept DEF ReadTemplate
<1>3. CASE ReadSecret
  <2>1. crypto = NoCrypto /\ UNCHANGED <<cryptoVars, deployment, podVars>>
    BY <1>3 DEF ReadSecret, PodsLinked
  <2>2. \/ pc' \in {"deploy", "enroll"} /\ crypto' = NoCrypto
        \/ pc' = "store" /\ read' = "current" /\ crypto' = [NoCrypto EXCEPT !.cert = secret]
    BY <1>3, <2>1 DEF ReadSecret
  <2> QED BY <2>1, <2>2 DEF PodsLinked, NoCrypto
<1>4. CASE Enroll
  <2>1. CASE Fail("read") /\ issued' = issued + 1
    <3>1. deployment # None => deployment.restart \in Nat
      BY <1>0 DEF ClusterTypeOK
    <3>2. issued \in Nat
      BY <1>0 DEF ClusterTypeOK
    <3>3. /\ pc' = "mark" /\ crypto' = NoCrypto /\ missed' = Missed
          /\ UNCHANGED <<secret, deployment, pods, rolling>>
      BY <1>4, <2>1 DEF Enroll, Fail, Conclude
    <3>4. deployment # None => deployment.restart <= issued'
      BY <2>1, <3>1, <3>2 DEF PodsLinked
    <3>5. ~missed' => ~missed /\ ~crypto.updated
      BY <3>3 DEF Missed
    <3> QED BY <3>3, <3>4, <3>5, NotUpdated DEF PodsLinked
  <2>2. CASE Fail("enroll") /\ issued' = issued
    BY <1>1, <1>4, <2>2 DEF Enroll
  <2>3. CASE /\ issued' = issued + 1 /\ crypto' = [cert |-> issued + 1, updated |-> TRUE]
             /\ pc' = "store" /\ UNCHANGED <<secret, deployment, podVars>>
    <3>1. deployment # None => deployment.restart \in Nat
      BY <1>0 DEF ClusterTypeOK
    <3>2. issued \in Nat
      BY <1>0 DEF ClusterTypeOK
    <3>3. deployment # None => deployment.restart < issued'
      BY <2>3, <3>1, <3>2 DEF PodsLinked
    <3>4. deployment # None => deployment.restart <= issued'
      BY <2>3, <3>1, <3>2, <3>3
    <3>5. crypto'.updated /\ crypto'.cert = issued'
      BY <2>3
    <3> QED BY <2>3, <3>3, <3>4, <3>5 DEF PodsLinked
  <2> QED BY <1>4, <2>1, <2>2, <2>3 DEF Enroll
<1>5. CASE StoreSecret
  <2>1. CASE /\ read # "stale" /\ secret' = crypto.cert /\ pc' = "deploy"
             /\ UNCHANGED <<passVars, podVars>>
    <3>1. pc = "store" /\ UNCHANGED <<issued, deployment>>
      BY <1>5 DEF StoreSecret
    <3>2. ~crypto.updated => secret' = secret
      BY <2>1, <3>1 DEF PodsLinked
    <3> QED BY <2>1, <3>1, <3>2 DEF PodsLinked
  <2>2. CASE (Fail("conflict") \/ Fail("store")) /\ UNCHANGED secret
    BY <1>1, <1>5, <2>2 DEF StoreSecret
  <2> QED BY <1>5, <2>1, <2>2 DEF StoreSecret
<1>6. CASE Deploy
  <2>1. CASE (Fail("immutable") \/ Fail("deploy")) /\ UNCHANGED deployment
    BY <1>1, <1>6, <2>1 DEF Deploy
  <2>2. CASE /\ deployment' = Wanted /\ rolling' = (rolling \/ Wanted # deployment)
             /\ UNCHANGED <<pods, missed>> /\ pc' \in {"service", "mark"} /\ crypto' = NoCrypto
    <3>1. UNCHANGED <<secret, issued>>
      BY <1>6 DEF Deploy
    <3>2. Wanted.restart <= issued
      <4>1. issued \in Nat
        BY <1>0 DEF ClusterTypeOK
      <4>2. CASE crypto.updated /\ deployment # None
        BY <4>1, <4>2 DEF Wanted, PodsLinked
      <4>3. CASE ~(crypto.updated /\ deployment # None)
        BY <4>1, <4>3 DEF Wanted
      <4> QED BY <4>2, <4>3
    <3>3. CASE Wanted = deployment
      <4>1. deployment # None => ~crypto.updated
        <5>1. issued \in Nat /\ (deployment # None => deployment.restart \in Nat)
          BY <1>0 DEF ClusterTypeOK
        <5>2. deployment # None /\ crypto.updated => Wanted.restart = issued
          BY DEF Wanted, PodsLinked
        <5> QED BY <3>3, <5>1, <5>2 DEF PodsLinked
      <4> QED BY <2>2, <3>1, <3>3, <4>1 DEF PodsLinked, NoCrypto
    <3>4. CASE Wanted # deployment
      BY <2>2, <3>1, <3>2, <3>4 DEF PodsLinked, NoCrypto
    <3> QED BY <3>3, <3>4
  <2> QED BY <1>6, <2>1, <2>2 DEF Deploy, Conclude
<1>7. CASE ApplyService
  <2>1. /\ UNCHANGED <<cryptoVars, deployment, podVars>> /\ pc = "service" /\ pc' = "mark"
        /\ crypto' = NoCrypto
    BY <1>7 DEF ApplyService, Conclude
  <2> QED BY <2>1 DEF PodsLinked
<1> QED BY <1>2, <1>3, <1>4, <1>5, <1>6, <1>7 DEF Deploying

\* There are no pods at first.
THEOREM PodsInit == Init => PodsLinked
BY NotUpdated DEF Init, PodsLinked

\* Every step keeps the links of the certificate to the pods.
THEOREM PodsStep == TypeOK /\ PodsLinked /\ [Next]_vars => PodsLinked'
<1> SUFFICES ASSUME TypeOK, PodsLinked, [Next]_vars PROVE PodsLinked' OBVIOUS
<1>1. CASE UNCHANGED vars
  BY <1>1 DEF PodsLinked
<1>2. CASE Next
  BY <1>2, PodsAround, PodsWriting, PodsCleaning, PodsDeploying
     DEF Next, Reconcile, Writing, Cleaning, Deploying
<1> QED BY <1>1, <1>2

\* Once everything has been worked off and rolled out, the pods of a chaincode that is
\* Running use the certificate in the Secret, unless a pass that had a new one ended before
\* it could say so.
THEOREM PodsServed == Spec => []PodsUseSecret
<1>1. StatusLinked /\ PodsLinked => PodsUseSecret
  BY DEF StatusLinked, RunningMeansDeployed, Deployed, PodsLinked, PodsUseSecret, Quiet, NoCrypto
<1> QED BY <1>1, TypeInit, TypeStep, LeftInit, PhaseStep, StatusInit, StatusStep, PodsInit,
           PodsStep, PTL DEF Spec

-----------------------------------------------------------------------------
(* No chaincode is forgotten.  What makes it inductive: a pass that no other  *)
(* will follow works on the last version of the resource, and what it is to   *)
(* report without an error is in place, also where it says Failed because the *)
(* Service had to be created.                                                 *)

\* What is at rest is deployed as spec and template ask for, or repeats its error.
NoneForgotten ==
    Quiet /\ cr.phase # "gone" =>
        /\ cr.phase = "managed"
        /\ cr.message # "" => repeated
        /\ cr.message = "" => Deployed

RestLinked ==
    /\ pc \in Installing \cup {"mark"} /\ ~Awaited => obj = cr
    /\ pc \in Installing \cup Reporting /\ ~Awaited => cr.phase = "managed"
    /\ pc \in Reporting /\ result.message = "" /\ ~Awaited => Applied /\ service
    /\ pc = "status" /\ obj.message = "" /\ ~Awaited => Applied /\ service
    /\ NoneForgotten

\* Nothing has to be known of a pass that another will follow ...
LEMMA RestAwaited == ASSUME Awaited' PROVE RestLinked'
BY DEF RestLinked, NoneForgotten, Quiet, Awaited

\* ... or of one that does not deploy.
LEMMA RestElsewhere ==
    ASSUME pc' \notin Installing \cup Reporting, pc' = "idle" => cr'.phase = "gone"
    PROVE  RestLinked'
BY DEF RestLinked, NoneForgotten, Quiet, Installing, Reporting

LEMMA RestAround ==
    ASSUME PhaseLinked, RestLinked,
           Edit \/ EditTemplate \/ LoseSecret \/ CacheSync \/ TemplateEvent \/ RolloutDone \/ Crash
    PROVE  RestLinked'
<1>1. CASE Edit \/ EditTemplate \/ CacheSync
  BY <1>1, RestAwaited DEF Edit, EditTemplate, CacheSync, Awaited
<1>2. CASE LoseSecret \/ RolloutDone
  <2>1. UNCHANGED <<cr, obj, pc, result, deployment, service, template>>
    BY <1>2 DEF LoseSecret, RolloutDone
  <2>2. /\ (Awaited' <=> Awaited) /\ (Quiet' <=> Quiet)
        /\ (repeated' <=> repeated) /\ (service' <=> service)
    BY <1>2 DEF LoseSecret, RolloutDone, Awaited, Quiet
  <2>3. (Applied' <=> Applied) /\ (Deployed' <=> Deployed)
    BY <2>1 DEF Applied, Deployed
  <2> QED BY <2>1, <2>2, <2>3 DEF RestLinked, NoneForgotten
<1>3. CASE TemplateEvent
  <2>1. CASE cache.phase # "gone"
    BY <1>3, <2>1, RestAwaited DEF TemplateEvent, Awaited
  <2>2. CASE cache.phase = "gone"
    BY <1>3, <2>2, RestElsewhere DEF TemplateEvent, PhaseLinked
  <2> QED BY <2>1, <2>2
<1>4. CASE Crash
  <2>1. CASE cr.phase # "gone"
    BY <1>4, <2>1, RestAwaited DEF Crash, Awaited
  <2>2. CASE cr.phase = "gone"
    BY <1>4, <2>2, RestElsewhere DEF Crash, Reporting, Installing
  <2> QED BY <2>1, <2>2
<1> QED BY <1>1, <1>2, <1>3, <1>4

\* A pass begins with the version in the cache; adopting it makes a new one.
LEMMA RestStart ==
    ASSUME TypeOK, PhaseLinked, RestLinked, Begin \/ Adopt \/ Release
    PROVE  RestLinked'
<1>0. cr \in Object /\ cache \in Object
  BY TypeParts DEF ResourceTypeOK
<1>1. CASE Begin
  <2>1. pc' \in {"idle", "adopt", "deleteDeployment", "template"} /\ cr' = cr
    BY <1>1 DEF Begin
  <2>2. pc' = "idle" => cr'.phase = "gone"
    BY <1>0, <1>1 DEF Begin, PhaseLinked
  <2>3. CASE pc' # "template"
    BY <2>1, <2>2, <2>3, RestElsewhere DEF Reporting, Installing
  <2>4. CASE pc' = "template"
    <3>1. pc = "idle" /\ obj' = cache /\ cache.phase = "managed"
      BY <1>0, <1>1, <2>4 DEF Begin, Object
    <3>2. ~Awaited' => cache = cr
      BY <1>1 DEF Begin, Awaited, PhaseLinked
    <3> QED BY <2>1, <2>4, <3>1, <3>2 DEF RestLinked, NoneForgotten, Quiet, Reporting
  <2> QED BY <2>3, <2>4
<1>2. CASE Return(TRUE)
  BY <1>2, RestAwaited DEF Return, Awaited
<1>3. CASE Adopt /\ ~Return(TRUE)
  <2>1. /\ pc = "adopt" /\ objFresh /\ cr' = [cr EXCEPT !.phase = "managed"]
        /\ synced' = (synced /\ [cr EXCEPT !.phase = "managed"] = cr)
    BY <1>3 DEF Adopt, WritePhase, Store
  <2>2. cr.phase = "new"
    BY <2>1 DEF PhaseLinked
  <2>3. [cr EXCEPT !.phase = "managed"] # cr
    BY <1>0, <2>2, FieldsOf
  <2> QED BY <2>1, <2>3, RestAwaited DEF Awaited
<1>4. CASE Release /\ ~Return(TRUE)
  <2>1. [cr EXCEPT !.phase = "gone"].phase = "gone"
    BY <1>0, FieldsOf
  <2>2. cr'.phase = "gone" /\ pc' = "idle"
    BY <1>4, <2>1 DEF Release, WritePhase, Store, Return
  <2> QED BY <2>2, RestElsewhere DEF Reporting, Installing
<1> QED BY <1>1, <1>2, <1>3, <1>4

\* The patch of a new status makes a new version; without one the copy is the last one.
LEMMA RestMark == ASSUME TypeOK, RestLinked, Mark PROVE RestLinked'
<1>0. cr \in Object /\ obj \in Object /\ WorkTypeOK
  BY TypeParts DEF ResourceTypeOK, WorkTypeOK
<1>1. /\ pc = "mark" /\ pc' = "status" /\ result' = result /\ queued' = queued
      /\ UNCHANGED <<template, announced, deployment, service, repeated>>
  BY DEF Mark
<1>2. result.message \in Messages /\ "patch" \in Messages
  BY <1>0 DEF WorkTypeOK, Result, Messages
<1>3. CASE /\ obj' \in {Marked(obj, result.message), Marked(obj, "patch")}
           /\ UNCHANGED crVars
  <2>1. Awaited' <=> Awaited
    BY <1>1, <1>3 DEF Awaited
  <2>2. obj'.spec = obj.spec /\ (obj'.message = "" => result.message = "")
    <3>1. \A m \in {result.message, "patch"} : Marked(obj, m).spec = obj.spec
                                               /\ Marked(obj, m).message = m
      BY <1>0, <1>2, MarkedType
    <3> QED BY <1>3, <3>1
  <2>3. result.message = "" /\ ~Awaited => Applied' /\ service'
    BY <1>1, <2>2 DEF RestLinked, Reporting, Applied
  <2>4. ~Awaited => cr'.phase = "managed"
    BY <1>1, <1>3 DEF RestLinked, Reporting
  <2> QED BY <1>1, <2>1, <2>2, <2>3, <2>4 DEF RestLinked, NoneForgotten, Quiet, Installing
<1>4. CASE obj.status # result.status /\ Store([cr EXCEPT !.status = result.status])
  <2>1. [cr EXCEPT !.status = result.status].status = result.status
    BY <1>0, FieldsOf
  <2>2. /\ cr' = [cr EXCEPT !.status = result.status]
        /\ synced' => synced /\ [cr EXCEPT !.status = result.status] = cr
    BY <1>4 DEF Store
  <2>3. ~Awaited' => ~Awaited /\ cr.status = result.status
    BY <1>1, <2>1, <2>2 DEF Awaited
  <2>4. ~Awaited => obj = cr
    BY <1>1 DEF RestLinked
  <2>5. Awaited'
    BY <1>4, <2>3, <2>4
  <2> QED BY <2>5, RestAwaited
<1> QED BY <1>3, <1>4 DEF Mark

\* A pass for which no other comes ends with a write that changes nothing.
LEMMA RestStatus == ASSUME TypeOK, PhaseLinked, RestLinked, UpdateStatus PROVE RestLinked'
<1>0. cr \in Object /\ obj \in Object /\ WorkTypeOK
  BY TypeParts DEF ResourceTypeOK, WorkTypeOK
<1>1. CASE Return(TRUE)
  BY <1>1, RestAwaited DEF Return, Awaited
<1>2. CASE ~Return(TRUE)
  <2> DEFINE o == [cr EXCEPT !.status = obj.status, !.message = obj.message,
                             !.conditions = obj.conditions]
  <2>1. Return(FALSE) /\ Store(o) /\ repeated' = (cr' = cr /\ cr.message # "")
    BY <1>2 DEF UpdateStatus
  <2>2. o.message = obj.message /\ o.spec = cr.spec /\ o.phase = cr.phase
    BY <1>0 DEF Object
  <2>3. cr' = o /\ (synced' => synced /\ o = cr)
    BY <2>1 DEF Store
  <2>4. pc = "status" /\ pc' = "idle" /\ UNCHANGED <<template, announced, deployment, service>>
        /\ (~queued' => ~queued)
    BY <2>1 DEF UpdateStatus, Return
  <2> HIDE DEF o
  <2>5. CASE Awaited'
    BY <2>5, RestAwaited
  <2>6. CASE ~Awaited'
    <3>1. ~Awaited /\ cr' = cr /\ cr.message = obj.message
      BY <2>2, <2>3, <2>4, <2>6 DEF Awaited
    <3>2. obj.spec = cr.spec
      BY <2>4, <3>1 DEF Awaited, PhaseLinked
    <3>3. cr'.phase = "managed"
      BY <2>4, <3>1 DEF RestLinked, Reporting
    <3>4. cr'.message # "" => repeated'
      BY <2>1, <3>1
    <3>5. cr'.message = "" => Applied /\ service
      BY <2>4, <3>1 DEF RestLinked
    <3>6. cr'.message = "" => Deployed'
      BY <2>4, <3>1, <3>2, <3>5 DEF Applied, Deployed
    <3> QED BY <2>4, <3>3, <3>4, <3>6 DEF RestLinked, NoneForgotten, Installing, Reporting
  <2> QED BY <2>5, <2>6
<1> QED BY <1>1, <1>2

LEMMA RestCleaning == ASSUME Cleaning PROVE RestLinked'
<1>1. CASE FinalizeFails
  BY <1>1, RestAwaited DEF FinalizeFails, Return, Awaited
<1>2. CASE DeleteDeployment \/ DeleteService \/ DeleteSecret
  BY <1>2, RestElsewhere DEF DeleteDeployment, DeleteService, DeleteSecret, Reporting, Installing
<1> QED BY <1>1, <1>2 DEF Cleaning

\* A failure has a text; what ends without one has the Deployment and the Service in place.
LEMMA RestDeploying ==
    ASSUME TypeOK, StatusLinked, RestLinked, Deploying PROVE RestLinked'
<1>0. /\ UNCHANGED <<queued, synced, announced, template, obj, cr>>
      /\ pc \in Installing /\ pc' \in Installing \cup {"mark"}
  BY DEF Deploying, ReadTemplate, ReadSecret, Enroll, StoreSecret, Deploy, ApplyService, Fail,
         Conclude, Installing
<1>1. Awaited' <=> Awaited
  BY <1>0 DEF Awaited
<1>2. ~Awaited' => obj' = cr' /\ cr'.phase = "managed"
  BY <1>0, <1>1 DEF RestLinked
<1>3. pc' = "mark" /\ result'.message = "" /\ ~Awaited' => Applied' /\ service'
  <2>1. CASE ApplyService
    <3>1. CASE Conclude(Failure("service"))
      BY <3>1 DEF Conclude, Failure
    <3>2. CASE service' = TRUE /\ deployment' = deployment /\ pc = "service"
      <4>1. ~Awaited' => Applied
        BY <1>1, <3>2 DEF StatusLinked
      <4> QED BY <1>0, <3>2, <4>1 DEF Applied
    <3> QED BY <2>1, <3>1, <3>2 DEF ApplyService
  <2>2. CASE ~ApplyService
    <3>1. pc' = "mark" => result'.message # ""
      <4>1. pc' = "mark" => \E e \in Messages \ {""} : Conclude(Failure(e))
        BY <2>2 DEF Deploying, ReadTemplate, ReadSecret, Enroll, StoreSecret, Deploy, Fail,
                    Messages
      <4>2. \A e : Failure(e).message = e
        BY DEF Failure
      <4> QED BY <4>1, <4>2 DEF Conclude
    <3> QED BY <3>1
  <2> QED BY <2>1, <2>2
<1> QED BY <1>0, <1>2, <1>3 DEF RestLinked, NoneForgotten, Quiet, Installing, Reporting

LEMMA RestInit == Init => RestLinked
BY DEF Init, RestLinked, NoneForgotten, Quiet, Awaited, Installing, Reporting

LEMMA RestStep ==
    TypeOK /\ PhaseLinked /\ StatusLinked /\ RestLinked /\ [Next]_vars => RestLinked'
<1> SUFFICES ASSUME TypeOK, PhaseLinked, StatusLinked, RestLinked, [Next]_vars
             PROVE  RestLinked'
  OBVIOUS
<1>1. CASE UNCHANGED vars
  BY <1>1 DEF RestLinked, NoneForgotten, Applied, Awaited, Quiet, Deployed
<1>2. CASE Next
  BY <1>2, RestAround, RestStart, RestMark, RestStatus, RestCleaning, RestDeploying
     DEF Next, Reconcile, Cleaning, Deploying
<1> QED BY <1>1, <1>2

\* A chaincode that nothing will look at any more has the Deployment and the Service its
\* spec and the template ask for, or its status repeats the error of the pass before: no
\* restart, conflict or failed write leaves one behind half deployed (Reconcile).
THEOREM Remembered == Spec => []NoneForgotten
<1>1. RestLinked => NoneForgotten
  BY DEF RestLinked
<1> QED BY <1>1, TypeInit, TypeStep, LeftInit, PhaseStep, StatusInit, StatusStep, RestInit,
           RestStep, PTL DEF Spec

===============================================================================
