------------------------ MODULE ChaincodeLifecycleProofs ------------------------
(* Theorems about ChaincodeLifecycle, for all organizations, peers, packages, *)
(* definitions and bounds.                                                    *)
EXTENDS ChaincodeLifecycle, SequenceTheorems, TLAPS

USE DEF NoFault, vars, apiVars, lifecycleVars, fabricVars, copyVars, envVars

-----------------------------------------------------------------------------
(* What the steps are made of.                                                *)

Objects == UNION {Object(k) : k \in Keys}
Work == [pkg : Packages, todo : SUBSET Peers, done : SUBSET Peers]

\* The environment, the API server, Fabric and the workers, each of its own types.
EnvTypeOK == edits \in Nat /\ faults \in Nat /\ crashes \in Nat
ApiTypeOK == /\ cr \in [Keys -> Objects] /\ cache \in [Keys -> Objects]
             /\ \A k \in Keys : cr[k] \in Object(k) /\ cache[k] \in Object(k)
             /\ synced \in SUBSET Keys /\ queue \in SUBSET Keys
FabricTypeOK == /\ inst \in [Peers -> SUBSET Packages]
                /\ approved \in [Orgs -> [Seqs -> Approval \cup {None}]]
                /\ committed \in Seq(Defs) /\ Len(committed) <= MaxSeq
                /\ second \in Packages
WorkTypeOK == /\ pc \in [Keys -> Labels] /\ objFresh \in SUBSET Keys
              /\ obj \in [Keys -> Objects] /\ \A k \in Keys : obj[k] \in Object(k)
              /\ work \in [Keys -> Work]

\* The steps that all kinds of resources have, and those of one kind.
CommonSteps == {"idle", "adopt", "finalize", "fail"}
OwnSteps == [install |-> {"package", "install", "report"},
             approve |-> {"queryCommitted", "queryApproved", "approve", "already", "finish"},
             commit  |-> {"commit", "finish"}]
StepOK(k, l) == l \in CommonSteps \cup OwnSteps[Kind(k)]

TypeInv == /\ EnvTypeOK /\ ApiTypeOK /\ FabricTypeOK /\ WorkTypeOK
           /\ \A k \in Keys : StepOK(k, pc[k])

LEMMA KindOf == \A k \in Keys : Kind(k) \in {"install", "approve", "commit"} /\ Org(k) \in Orgs
BY KeyAssumption DEF Kinds, Kind, Org

\* The keys of one kind differ in the organization.
LEMMA KeyOf == \A k \in Keys : k = <<Kind(k), Org(k)>>
BY KeyAssumption DEF Kinds, Kind, Org

LEMMA BoundTypes == MaxSeq \in Nat /\ 0 \in Packages
BY LimitAssumption DEF Packages

LEMMA BlankTypes == \A k \in Keys : Blank(k) \in Object(k) /\ Blank(k).phase = "new"
<1>1. NoReport \in Report
  BY BoundTypes DEF NoReport, Report
<1>2. \A k \in Keys : First[k] \in SpecsOf(k)
  BY SpecAssumption
<1> QED BY <1>1, <1>2 DEF Blank, Object

LEMMA NoWorkType == NoWork \in Work
BY BoundTypes DEF NoWork, Work

\* The fields of a changed copy.
LEMMA CopyTypes ==
    ASSUME NEW k \in Keys, NEW o \in Object(k)
    PROVE  /\ o \in Objects
           /\ o.spec \in SpecsOf(k) /\ o.phase \in {"new", "managed", "deleting", "gone"}
           /\ \A s \in SpecsOf(k) : [o EXCEPT !.spec = s] \in Object(k)
           /\ \A p \in {"new", "managed", "deleting", "gone"} :
                  [o EXCEPT !.phase = p] \in Object(k)
           /\ \A s \in {"", "Running", "Failed"} : [o EXCEPT !.status = s] \in Object(k)
           /\ \A r \in Report : [o EXCEPT !.status = "Running", !.report = r] \in Object(k)
BY DEF Objects, Object

LEMMA FieldsOf ==
    ASSUME NEW k \in Keys, NEW o \in Object(k)
    PROVE  /\ \A s : [o EXCEPT !.spec = s].phase = o.phase
           /\ \A p : [o EXCEPT !.phase = p].phase = p
           /\ \A p : [o EXCEPT !.phase = p].spec = o.spec
           /\ \A p : [o EXCEPT !.phase = p].status = o.status
           /\ \A s : [o EXCEPT !.status = s].phase = o.phase
           /\ \A s : [o EXCEPT !.status = s].spec = o.spec
           /\ \A s : [o EXCEPT !.status = s].status = s
           /\ \A r : [o EXCEPT !.status = "Running", !.report = r].phase = o.phase
           /\ \A r : [o EXCEPT !.status = "Running", !.report = r].spec = o.spec
           /\ \A r : [o EXCEPT !.status = "Running", !.report = r].report = r
BY DEF Object

\* Every call leaves the counters of the bounds numbers.
LEMMA CountTypes ==
    ASSUME EnvTypeOK, NoFault \/ (\E c : Fault(c)) \/ Edits
    PROVE  EnvTypeOK'
BY DEF EnvTypeOK, Fault, Edits

\* A step changes the resource of one key only ...
LEMMA Touched ==
    ASSUME ApiTypeOK, NEW k \in Keys, NEW o \in Object(k), Store(k, o) \/ Touch(k, o)
    PROVE  /\ cr' \in [Keys -> Objects] /\ cr'[k] = o
           /\ \A j \in Keys : cr'[j] \in Object(j)
           /\ \A j \in Keys \ {k} : cr'[j] = cr[j] /\ (j \in synced' <=> j \in synced)
           /\ cache' = cache /\ synced' \in SUBSET synced
           /\ Store(k, o) => (k \in synced' => k \in synced /\ cr'[k] = cr[k])
<1>1. o \in Objects
  BY DEF Objects
<1> QED BY <1>1 DEF ApiTypeOK, Store, Touch

\* ... and takes the worker of one key to another label.
LEMMA GoneTo ==
    ASSUME WorkTypeOK, NEW k \in Keys, NEW l \in Labels, Goto(k, l)
    PROVE  /\ pc' \in [Keys -> Labels] /\ pc'[k] = l
           /\ \A j \in Keys \ {k} : pc'[j] = pc[j]
BY DEF WorkTypeOK, Goto

LEMMA Returned ==
    ASSUME WorkTypeOK, ApiTypeOK, NEW k \in Keys, NEW r \in BOOLEAN, Return(k, r)
    PROVE  /\ WorkTypeOK' /\ queue' \in SUBSET Keys
           /\ pc'[k] = "idle" /\ k \notin objFresh'
           /\ r => k \in queue'
           /\ k \in queue => k \in queue'
           /\ \A j \in Keys \ {k} :
                  /\ pc'[j] = pc[j] /\ obj'[j] = obj[j] /\ work'[j] = work[j]
                  /\ (j \in queue' <=> j \in queue) /\ (j \in objFresh' <=> j \in objFresh)
<1>1. "idle" \in Labels
  BY DEF Labels
<1>2. pc' \in [Keys -> Labels] /\ pc'[k] = "idle" /\ \A j \in Keys \ {k} : pc'[j] = pc[j]
  BY <1>1, GoneTo DEF Return
<1>3. Blank(k) \in Object(k) /\ Blank(k) \in Objects
  BY BlankTypes DEF Objects
<1>4. /\ obj' \in [Keys -> Objects] /\ \A j \in Keys : obj'[j] \in Object(j)
      /\ \A j \in Keys \ {k} : obj'[j] = obj[j]
  BY <1>3 DEF Return, WorkTypeOK
<1>5. work' \in [Keys -> Work] /\ \A j \in Keys \ {k} : work'[j] = work[j]
  BY NoWorkType DEF Return, WorkTypeOK
<1>6. /\ queue' \in SUBSET Keys /\ (r => k \in queue') /\ (k \in queue => k \in queue')
      /\ \A j \in Keys \ {k} : (j \in queue' <=> j \in queue)
  BY DEF Return, ApiTypeOK
<1>7. /\ objFresh' \in SUBSET Keys /\ k \notin objFresh'
      /\ \A j \in Keys \ {k} : (j \in objFresh' <=> j \in objFresh)
  BY DEF Return, WorkTypeOK
<1> QED BY <1>2, <1>4, <1>5, <1>6, <1>7 DEF WorkTypeOK

LEMMA FirstStepOK ==
    ASSUME NEW k \in Keys, NEW s \in SpecsOf(k)
    PROVE  FirstStep(k, s) \in (Labels \cap OwnSteps[Kind(k)]) \ {"finish", "already", "install", "report"}
<1>1. CASE Kind(k) = "install"
  BY <1>1 DEF FirstStep, Labels, OwnSteps
<1>2. CASE Kind(k) = "approve"
  <2>1. s.seq = 1 \/ s.seq > 1
    BY <1>2, BoundTypes DEF SpecsOf, Seqs
  <2> QED BY <1>2, <2>1 DEF FirstStep, Labels, OwnSteps
<1>3. CASE Kind(k) = "commit"
  BY <1>3 DEF FirstStep, Labels, OwnSteps
<1> QED BY <1>1, <1>2, <1>3, KindOf

-----------------------------------------------------------------------------
(* Type correctness.                                                          *)

\* The initial state is of the types.
THEOREM TypeInit == Init => TypeInv
<1> SUFFICES ASSUME Init PROVE TypeInv OBVIOUS
<1>1. EnvTypeOK
  BY DEF Init, EnvTypeOK
<1>2. ApiTypeOK
  <2>1. PICK there \in Present :
            /\ cr = [k \in Keys |-> [Blank(k) EXCEPT !.phase = IF k \in there THEN @ ELSE "gone"]]
            /\ queue = there
    BY DEF Init
  <2>2. \A k \in Keys : cr[k] \in Object(k)
    <3> SUFFICES ASSUME NEW k \in Keys PROVE cr[k] \in Object(k) OBVIOUS
    <3>1. Blank(k) \in Object(k)
      BY BlankTypes
    <3>2. [Blank(k) EXCEPT !.phase = IF k \in there THEN @ ELSE "gone"] \in Object(k)
      BY <3>1 DEF Object
    <3> QED BY <2>1, <3>2
  <2>3. cr \in [Keys -> Objects]
    BY <2>1, <2>2 DEF Objects
  <2>4. queue \in SUBSET Keys
    BY <2>1, KeyAssumption
  <2> QED BY <2>2, <2>3, <2>4 DEF Init, ApiTypeOK
<1>3. FabricTypeOK
  <2>1. << >> \in Seq(Defs) /\ Len(<< >>) = 0
    OBVIOUS
  <2> QED BY <2>1, BoundTypes DEF Init, FabricTypeOK
<1>4. WorkTypeOK
  <2>1. \A k \in Keys : Blank(k) \in Object(k) /\ Blank(k) \in Objects
    BY BlankTypes DEF Objects
  <2> QED BY <2>1, NoWorkType DEF Init, WorkTypeOK, Labels
<1>5. \A k \in Keys : StepOK(k, pc[k])
  BY DEF Init, StepOK, CommonSteps
<1> QED BY <1>1, <1>2, <1>3, <1>4, <1>5 DEF TypeInv

LEMMA TypeUser ==
    ASSUME TypeInv, NEW k \in Keys, Edit(k) \/ Delete(k) \/ CacheSync(k)
    PROVE  TypeInv'
<1>0. EnvTypeOK /\ ApiTypeOK /\ FabricTypeOK /\ WorkTypeOK /\ cr[k] \in Object(k)
  BY DEF TypeInv, ApiTypeOK
<1>1. EnvTypeOK'
  BY <1>0, CountTypes DEF Edit, Delete, CacheSync
<1>2. FabricTypeOK' /\ WorkTypeOK' /\ \A j \in Keys : StepOK(j, pc'[j])
  BY <1>0 DEF Edit, Delete, CacheSync, FabricTypeOK, WorkTypeOK, TypeInv
<1>3. ApiTypeOK'
  <2>1. CASE CacheSync(k)
    BY <1>0, <2>1 DEF CacheSync, ApiTypeOK
  <2>2. ASSUME NEW o \in Object(k), Touch(k, o), queue' = queue PROVE ApiTypeOK'
    BY <1>0, <2>2, Touched DEF ApiTypeOK
  <2>3. CASE Edit(k)
    <3>1. PICK s \in Choices[k] : Touch(k, [cr[k] EXCEPT !.spec = s])
      BY <2>3 DEF Edit
    <3>2. [cr[k] EXCEPT !.spec = s] \in Object(k)
      BY <1>0, <3>1, SpecAssumption, CopyTypes
    <3> QED BY <2>2, <2>3, <3>1, <3>2 DEF Edit
  <2>4. CASE Delete(k)
    <3>1. [cr[k] EXCEPT !.phase = IF @ = "new" THEN "gone" ELSE "deleting"] \in Object(k)
      BY <1>0 DEF Object
    <3> QED BY <2>2, <2>4, <3>1 DEF Delete
  <2> QED BY <2>1, <2>3, <2>4
<1> QED BY <1>1, <1>2, <1>3 DEF TypeInv

LEMMA TypeWorld ==
    ASSUME TypeInv, Tick \/ Crash \/ \E o \in Orgs : OtherApproves(o)
    PROVE  TypeInv'
<1>0. EnvTypeOK /\ ApiTypeOK /\ FabricTypeOK /\ WorkTypeOK
  BY DEF TypeInv
<1>1. CASE Tick
  <2>1. second' \in Packages
    BY <1>0, <1>1, LimitAssumption DEF Tick, FabricTypeOK, Packages
  <2> QED BY <1>0, <1>1, <2>1
          DEF Tick, TypeInv, EnvTypeOK, ApiTypeOK, FabricTypeOK, WorkTypeOK
<1>2. CASE Crash
  <2>1. EnvTypeOK'
    <3>1. edits \in Nat /\ faults \in Nat /\ crashes \in Nat
      BY <1>0 DEF EnvTypeOK
    <3>2. edits' = edits /\ faults' = faults /\ crashes' = crashes + 1
      BY <1>2 DEF Crash
    <3> QED BY <3>1, <3>2 DEF EnvTypeOK
  <2>2. ApiTypeOK'
    BY <1>0, <1>2 DEF Crash, ApiTypeOK
  <2>3. FabricTypeOK'
    BY <1>0, <1>2 DEF Crash, FabricTypeOK
  <2>4. WorkTypeOK' /\ \A k \in Keys : pc'[k] = "idle"
    <3>1. \A k \in Keys : Blank(k) \in Object(k) /\ Blank(k) \in Objects
      BY BlankTypes DEF Objects
    <3> QED BY <1>2, <3>1, NoWorkType DEF Crash, WorkTypeOK, Labels
  <2> QED BY <2>1, <2>2, <2>3, <2>4 DEF TypeInv, StepOK, CommonSteps
<1>3. ASSUME NEW o \in Orgs, OtherApproves(o) PROVE TypeInv'
  <2> DEFINE n == Len(committed) + 1
  <2>1. n \in Seqs
    <3>1. Len(committed) \in Nat
      BY <1>0, LenProperties DEF FabricTypeOK
    <3> QED BY <1>3, <3>1, BoundTypes DEF OtherApproves, Seqs
  <2>2. PICK d \in Defs : approved' = [approved EXCEPT ![o][n] = [def |-> d, pkg |-> 0]]
    BY <1>3 DEF OtherApproves
  <2>3. [def |-> d, pkg |-> 0] \in Approval
    BY BoundTypes DEF Approval
  <2> HIDE DEF n
  <2>4. approved' \in [Orgs -> [Seqs -> Approval \cup {None}]]
    BY <1>0, <2>1, <2>2, <2>3 DEF FabricTypeOK
  <2> QED BY <1>0, <1>3, <2>4
          DEF OtherApproves, TypeInv, EnvTypeOK, ApiTypeOK, FabricTypeOK, WorkTypeOK
<1> QED BY <1>1, <1>2, <1>3

\* What a step of the worker that ends a pass keeps.
LEMMA TypeReturn ==
    ASSUME TypeInv, NEW k \in Keys, NEW r \in BOOLEAN, Return(k, r),
           UNCHANGED <<fabricVars, second>>, EnvTypeOK',
           UNCHANGED apiVars \/ \E o \in Object(k) : Store(k, o)
    PROVE  TypeInv'
<1>0. EnvTypeOK /\ ApiTypeOK /\ FabricTypeOK /\ WorkTypeOK /\ \A j \in Keys : StepOK(j, pc[j])
  BY DEF TypeInv
<1>1. WorkTypeOK' /\ queue' \in SUBSET Keys
  BY <1>0, Returned
<1>2. \A j \in Keys : StepOK(j, pc'[j])
  <2>1. pc'[k] = "idle" /\ \A j \in Keys \ {k} : pc'[j] = pc[j]
    BY <1>0, Returned
  <2>2. StepOK(k, "idle")
    BY DEF StepOK, CommonSteps
  <2> QED BY <1>0, <2>1, <2>2
<1>3. /\ cr' \in [Keys -> Objects] /\ cache' = cache /\ synced' \in SUBSET synced
      /\ \A j \in Keys : cr'[j] \in Object(j)
  BY <1>0, Touched DEF ApiTypeOK
<1>4. ApiTypeOK'
  BY <1>0, <1>1, <1>3 DEF ApiTypeOK
<1>5. FabricTypeOK'
  BY <1>0 DEF FabricTypeOK
<1> QED BY <1>1, <1>2, <1>4, <1>5 DEF TypeInv

\* What a step of the worker to another label keeps.
LEMMA TypeGoto ==
    ASSUME TypeInv, NEW k \in Keys, NEW l \in Labels, StepOK(k, l), Goto(k, l)
    PROVE  /\ pc' \in [Keys -> Labels] /\ \A j \in Keys : StepOK(j, pc'[j])
<1>1. /\ pc' \in [Keys -> Labels] /\ pc'[k] = l
      /\ \A j \in Keys \ {k} : pc'[j] = pc[j]
  BY GoneTo DEF TypeInv
<1> QED BY <1>1 DEF TypeInv

LEMMA TypeStart == ASSUME TypeInv, NEW k \in Keys, Begin(k) \/ Adopt(k) PROVE TypeInv'
<1>0. /\ EnvTypeOK /\ ApiTypeOK /\ FabricTypeOK /\ WorkTypeOK
      /\ cr[k] \in Object(k) /\ cache[k] \in Object(k)
  BY DEF TypeInv, ApiTypeOK
<1>1. EnvTypeOK'
  BY <1>0, CountTypes DEF Begin, Adopt
<1>2. FabricTypeOK'
  BY <1>0 DEF Begin, Adopt, FabricTypeOK
<1>3. \A o \in Object(k) : o \in Objects /\ o.spec \in SpecsOf(k)
                           /\ FirstStep(k, o.spec) \in Labels /\ StepOK(k, FirstStep(k, o.spec))
  BY CopyTypes, FirstStepOK DEF StepOK
<1>4. CASE Begin(k)
  <2>1. ApiTypeOK'
    BY <1>0, <1>4 DEF Begin, ApiTypeOK
  <2>2. CASE cache[k].phase = "gone"
    BY <1>0, <1>1, <1>2, <1>4, <2>1, <2>2 DEF Begin, TypeInv, WorkTypeOK
  <2>3. CASE cache[k].phase # "gone"
    <3>1. PICK l : Goto(k, l) /\ l \in {"adopt", "finalize", FirstStep(k, cache[k].spec)}
      BY <1>4, <2>3 DEF Begin
    <3>2. l \in Labels /\ StepOK(k, l)
      BY <1>0, <1>3, <3>1 DEF Labels, StepOK, CommonSteps
    <3>3. pc' \in [Keys -> Labels] /\ \A j \in Keys : StepOK(j, pc'[j])
      BY <3>1, <3>2, TypeGoto
    <3>4. obj' \in [Keys -> Objects] /\ \A j \in Keys : obj'[j] \in Object(j)
      BY <1>0, <1>3, <1>4, <2>3 DEF Begin, WorkTypeOK
    <3> QED BY <1>0, <1>1, <1>2, <1>4, <2>1, <2>3, <3>3, <3>4 DEF Begin, TypeInv, WorkTypeOK
  <2> QED BY <2>2, <2>3
<1>5. CASE Adopt(k)
  <2>1. CASE Return(k, TRUE) /\ UNCHANGED apiVars
    BY <1>1, <1>5, <2>1, TypeReturn DEF Adopt
  <2>2. CASE /\ Store(k, [cr[k] EXCEPT !.phase = "managed"])
             /\ obj' = [obj EXCEPT ![k] = cr'[k]] /\ Goto(k, FirstStep(k, cr[k].spec))
             /\ UNCHANGED <<queue, objFresh, work>>
    <3>1. [cr[k] EXCEPT !.phase = "managed"] \in Object(k)
      BY <1>0, CopyTypes
    <3>2. /\ cr' \in [Keys -> Objects] /\ \A j \in Keys : cr'[j] \in Object(j)
          /\ cache' = cache /\ synced' \in SUBSET synced
      BY <1>0, <2>2, <3>1, Touched
    <3>3. ApiTypeOK'
      BY <1>0, <2>2, <3>2 DEF ApiTypeOK
    <3>4. pc' \in [Keys -> Labels] /\ \A j \in Keys : StepOK(j, pc'[j])
      BY <1>0, <1>3, <2>2, TypeGoto
    <3>5. obj' \in [Keys -> Objects] /\ \A j \in Keys : obj'[j] \in Object(j)
      BY <1>0, <1>3, <2>2, <3>2 DEF WorkTypeOK
    <3> QED BY <1>0, <1>1, <1>2, <2>2, <3>3, <3>4, <3>5 DEF TypeInv, WorkTypeOK
  <2> QED BY <1>5, <2>1, <2>2 DEF Adopt
<1> QED BY <1>4, <1>5

\* A pass ends with what it has to report.
LEMMA TypeWrite ==
    ASSUME TypeInv, NEW k \in Keys, NEW report \in Report, Write(k, report),
           UNCHANGED <<fabricVars, second>>
    PROVE  TypeInv'
<1>0. EnvTypeOK /\ cr[k] \in Object(k)
  BY DEF TypeInv, ApiTypeOK
<1>1. EnvTypeOK'
  BY <1>0, CountTypes DEF Write
<1>2. [cr[k] EXCEPT !.status = "Running", !.report = report] \in Object(k)
  BY <1>0, CopyTypes
<1> QED BY <1>1, <1>2, TypeReturn DEF Write

LEMMA TypeEnd ==
    ASSUME TypeInv, NEW k \in Keys,
           Finalize(k) \/ Fail(k) \/ Finish(k) \/ ReportInstall(k)
    PROVE  TypeInv'
<1>0. EnvTypeOK /\ FabricTypeOK /\ WorkTypeOK /\ cr[k] \in Object(k)
  BY DEF TypeInv, ApiTypeOK
<1>1. CASE Finalize(k)
  <2>1. [cr[k] EXCEPT !.phase = "gone"] \in Object(k)
    BY <1>0, CopyTypes
  <2>2. EnvTypeOK'
    BY <1>0, <1>1, CountTypes DEF Finalize
  <2> QED BY <1>1, <2>1, <2>2, TypeReturn DEF Finalize
<1>2. CASE Fail(k)
  <2>1. [cr[k] EXCEPT !.status = IF obj[k].status = "Failed" THEN @ ELSE "Failed"] \in Object(k)
    BY <1>0 DEF Object
  <2>2. EnvTypeOK'
    BY <1>0, <1>2, CountTypes DEF Fail
  <2> QED BY <1>2, <2>1, <2>2, TypeReturn DEF Fail
<1>3. CASE Finish(k)
  <2>1. cr[k].report \in Report
    BY <1>0 DEF Object
  <2> QED BY <1>3, <2>1, TypeWrite DEF Finish
<1>4. CASE ReportInstall(k)
  <2>1. [pkg |-> work[k].pkg, at |-> second, done |-> work[k].done] \in Report
    BY <1>0 DEF WorkTypeOK, Work, FabricTypeOK, Report
  <2> QED BY <1>4, <2>1, TypeWrite DEF ReportInstall
<1> QED BY <1>1, <1>2, <1>3, <1>4

\* A step that calls Fabric.
Calling(k) == \/ SetupFails(k) \/ Package(k) \/ \E p \in Peers : InstallOn(k, p)
              \/ QueryCommitted(k) \/ QueryApproved(k) \/ ApproveCC(k) \/ CommitCC(k)

\* The kind of resource a label belongs to, and the label that follows.
LEMMA CallingSteps ==
    ASSUME TypeInv, NEW k \in Keys, Calling(k)
    PROVE  /\ pc[k] # "idle"
           /\ \E l \in Labels \ {"idle", "adopt"} : StepOK(k, l) /\ Step(k, l)
<1>0. StepOK(k, pc[k]) /\ Kind(k) \in {"install", "approve", "commit"}
  BY KindOf DEF TypeInv
<1>1. \A l : l \in OwnSteps[Kind(k)] => StepOK(k, l)
  BY DEF StepOK
<1>2. "fail" \in Labels /\ StepOK(k, "fail")
  BY DEF Labels, StepOK, CommonSteps
<1>3. CASE SetupFails(k)
  <2>1. FirstStep(k, obj[k].spec) # "idle"
    <3>1. FirstStep(k, obj[k].spec) \in OwnSteps[Kind(k)]
      BY CopyTypes, FirstStepOK DEF TypeInv, WorkTypeOK
    <3> QED BY <3>1, KindOf DEF OwnSteps
  <2> QED BY <1>2, <1>3, <2>1 DEF SetupFails
<1>4. CASE Package(k) \/ \E p \in Peers : InstallOn(k, p)
  <2>1. pc[k] \in {"package", "install"}
    BY <1>4 DEF Package, InstallOn
  <2>2. Kind(k) = "install"
    BY <1>0, <2>1 DEF StepOK, CommonSteps, OwnSteps
  <2>3. \A l \in {"install", "report"} : l \in Labels /\ StepOK(k, l)
    BY <1>1, <2>2 DEF Labels, OwnSteps
  <2> QED BY <1>4, <2>3 DEF Package, InstallOn
<1>5. CASE QueryCommitted(k) \/ QueryApproved(k) \/ ApproveCC(k)
  <2>1. pc[k] \in {"queryCommitted", "queryApproved", "approve"}
    BY <1>5 DEF QueryCommitted, QueryApproved, ApproveCC
  <2>2. Kind(k) = "approve"
    BY <1>0, <2>1 DEF StepOK, CommonSteps, OwnSteps
  <2>3. \A l \in {"finish", "queryApproved", "already", "approve"} : l \in Labels /\ StepOK(k, l)
    BY <1>1, <2>2 DEF Labels, OwnSteps
  <2> QED BY <1>2, <1>5, <2>3 DEF QueryCommitted, QueryApproved, ApproveCC
<1>6. CASE CommitCC(k)
  <2>1. pc[k] = "commit"
    BY <1>6 DEF CommitCC
  <2>2. Kind(k) = "commit"
    BY <1>0, <2>1 DEF StepOK, CommonSteps, OwnSteps
  <2>3. "finish" \in Labels /\ StepOK(k, "finish")
    BY <1>1, <2>2 DEF Labels, OwnSteps
  <2> QED BY <1>2, <1>6, <2>3 DEF CommitCC
<1> QED BY <1>3, <1>4, <1>5, <1>6 DEF Calling

LEMMA TypeCalling == ASSUME TypeInv, NEW k \in Keys, Calling(k) PROVE TypeInv'
<1>0. /\ EnvTypeOK /\ ApiTypeOK /\ FabricTypeOK /\ WorkTypeOK
      /\ obj[k] \in Object(k) /\ obj[k].spec \in SpecsOf(k) /\ StepOK(k, pc[k])
      /\ Kind(k) \in {"install", "approve", "commit"} /\ Org(k) \in Orgs
  BY CopyTypes, KindOf DEF TypeInv, WorkTypeOK
<1>1. EnvTypeOK'
  <2>1. NoFault \/ \E c : Fault(c)
    BY DEF Calling, SetupFails, Package, InstallOn, QueryCommitted, QueryApproved, ApproveCC,
           CommitCC
  <2> QED BY <1>0, <2>1, CountTypes
<1>2. PICK l \in Labels : StepOK(k, l) /\ Step(k, l)
  BY CallingSteps
<1>3. pc' \in [Keys -> Labels] /\ \A j \in Keys : StepOK(j, pc'[j])
  BY <1>2, TypeGoto DEF Step
<1>4. ApiTypeOK'
  BY <1>0, <1>2 DEF Step, ApiTypeOK
<1>5. inst' \in [Peers -> SUBSET Packages] /\ work' \in [Keys -> Work]
  <2>1. CASE Package(k)
    <3>1. pc[k] = "package"
      BY <2>1 DEF Package
    <3>2. obj[k].spec \in SUBSET Peers
      BY <1>0, <3>1 DEF StepOK, CommonSteps, OwnSteps, SpecsOf
    <3>3. [pkg |-> second, todo |-> obj[k].spec, done |-> {}] \in Work
      BY <1>0, <3>2 DEF FabricTypeOK, Work
    <3> QED BY <1>0, <2>1, <3>3 DEF Package, FabricTypeOK, WorkTypeOK
  <2>2. ASSUME NEW p \in Peers, InstallOn(k, p)
        PROVE  inst' \in [Peers -> SUBSET Packages] /\ work' \in [Keys -> Work]
    <3>1. work[k] \in Work /\ p \in Peers
      BY <1>0 DEF WorkTypeOK
    <3>2. /\ [work[k] EXCEPT !.todo = @ \ {p}, !.done = @ \cup {p}] \in Work
          /\ [work[k] EXCEPT !.todo = @ \ {p}] \in Work
      BY <3>1 DEF Work
    <3>3. work' \in [Keys -> Work]
      BY <1>0, <2>2, <3>2 DEF InstallOn, WorkTypeOK
    <3>4. work[k].pkg \in Packages
      BY <3>1 DEF Work
    <3>5. inst' \in [Peers -> SUBSET Packages]
      <4>1. inst' \in {inst, [inst EXCEPT ![p] = @ \cup {work[k].pkg}]}
        BY <2>2 DEF InstallOn
      <4> QED BY <1>0, <3>4, <4>1 DEF FabricTypeOK
    <3> QED BY <3>3, <3>5
  <2>3. CASE SetupFails(k) \/ QueryCommitted(k) \/ QueryApproved(k) \/ ApproveCC(k) \/ CommitCC(k)
    BY <1>0, <2>3
       DEF SetupFails, QueryCommitted, QueryApproved, ApproveCC, CommitCC, FabricTypeOK, WorkTypeOK
  <2> QED BY <2>1, <2>2, <2>3 DEF Calling
<1>6. approved' \in [Orgs -> [Seqs -> Approval \cup {None}]]
  <2>1. CASE ApproveCC(k)
    <3>1. pc[k] = "approve"
      BY <2>1 DEF ApproveCC
    <3>2. obj[k].spec \in [seq : Seqs, def : Defs, pkg : Packages]
      <4>1. Kind(k) = "approve"
        BY <1>0, <3>1 DEF StepOK, CommonSteps, OwnSteps
      <4> QED BY <1>0, <4>1 DEF SpecsOf
    <3> DEFINE s == obj[k].spec.seq
               a == [def |-> obj[k].spec.def, pkg |-> obj[k].spec.pkg]
    <3>3. s \in Seqs /\ a \in Approval
      BY <3>2 DEF Approval
    <3>4. approved' \in {approved, [approved EXCEPT ![Org(k)][s] = a]}
      BY <2>1 DEF ApproveCC
    <3> HIDE DEF s, a
    <3>5. Org(k) \in Orgs /\ approved[Org(k)] \in [Seqs -> Approval \cup {None}]
      BY <1>0 DEF FabricTypeOK
    <3>6. [approved[Org(k)] EXCEPT ![s] = a] \in [Seqs -> Approval \cup {None}]
      BY <3>3, <3>5
    <3>7. [approved EXCEPT ![Org(k)][s] = a]
              = [approved EXCEPT ![Org(k)] = [approved[Org(k)] EXCEPT ![s] = a]]
      OBVIOUS
    <3> QED BY <1>0, <3>4, <3>5, <3>6, <3>7 DEF FabricTypeOK
  <2>2. CASE ~ApproveCC(k)
    BY <1>0, <2>2 DEF Calling, SetupFails, Package, InstallOn, QueryCommitted, QueryApproved,
                      CommitCC, FabricTypeOK
  <2> QED BY <2>1, <2>2
<1>7. committed' \in Seq(Defs) /\ Len(committed') <= MaxSeq
  <2>1. CASE CommitCC(k)
    <3>1. pc[k] = "commit"
      BY <2>1 DEF CommitCC
    <3>2. obj[k].spec \in [seq : Seqs, def : Defs]
      <4>1. Kind(k) = "commit"
        BY <1>0, <3>1 DEF StepOK, CommonSteps, OwnSteps
      <4> QED BY <1>0, <4>1 DEF SpecsOf
    <3>3. \/ committed' = committed
          \/ /\ obj[k].spec.seq = Len(committed) + 1
             /\ committed' = Append(committed, obj[k].spec.def)
      BY <2>1 DEF CommitCC
    <3>4. /\ Append(committed, obj[k].spec.def) \in Seq(Defs)
          /\ Len(Append(committed, obj[k].spec.def)) = Len(committed) + 1
      BY <1>0, <3>2, AppendProperties DEF FabricTypeOK
    <3>5. obj[k].spec.seq \in Nat /\ obj[k].spec.seq <= MaxSeq
      BY <3>2, BoundTypes DEF Seqs
    <3> QED BY <1>0, <3>3, <3>4, <3>5 DEF FabricTypeOK
  <2>2. CASE ~CommitCC(k)
    BY <1>0, <2>2 DEF Calling, SetupFails, Package, InstallOn, QueryCommitted, QueryApproved,
                      ApproveCC, FabricTypeOK
  <2> QED BY <2>1, <2>2
<1>8. FabricTypeOK'
  BY <1>0, <1>2, <1>5, <1>6, <1>7 DEF Step, FabricTypeOK
<1>9. WorkTypeOK'
  BY <1>0, <1>2, <1>3, <1>5 DEF Step, WorkTypeOK
<1> QED BY <1>1, <1>3, <1>4, <1>8, <1>9 DEF TypeInv

LEMMA TypeAlready == ASSUME TypeInv, NEW k \in Keys, Already(k) PROVE TypeInv'
<1>0. /\ EnvTypeOK /\ ApiTypeOK /\ FabricTypeOK /\ WorkTypeOK /\ cr[k] \in Object(k)
      /\ StepOK(k, pc[k]) /\ Kind(k) \in {"install", "approve", "commit"}
  BY KindOf DEF TypeInv, ApiTypeOK
<1>1. EnvTypeOK' /\ FabricTypeOK'
  BY <1>0, CountTypes DEF Already, FabricTypeOK
<1>2. pc' \in [Keys -> Labels] /\ \A j \in Keys : StepOK(j, pc'[j])
  <2>1. pc[k] = "already" /\ Goto(k, "finish") /\ "finish" \in Labels
    BY DEF Already, Labels
  <2>2. StepOK(k, "finish")
    BY <1>0, <2>1 DEF StepOK, CommonSteps, OwnSteps
  <2> QED BY <2>1, <2>2, TypeGoto
<1>3. CASE UNCHANGED <<apiVars, copyVars>>
  BY <1>0, <1>1, <1>2, <1>3 DEF Already, TypeInv, ApiTypeOK, WorkTypeOK
<1>4. CASE /\ Store(k, [cr[k] EXCEPT !.status = "Running"])
           /\ obj' = [obj EXCEPT ![k] = cr'[k]] /\ objFresh' = objFresh \cup {k}
  <2>1. [cr[k] EXCEPT !.status = "Running"] \in Object(k)
    BY <1>0, CopyTypes
  <2>2. /\ cr' \in [Keys -> Objects] /\ \A j \in Keys : cr'[j] \in Object(j)
        /\ cache' = cache /\ synced' \in SUBSET synced
    BY <1>0, <1>4, <2>1, Touched
  <2>3. ApiTypeOK'
    BY <1>0, <2>2 DEF Already, ApiTypeOK
  <2>4. obj' \in [Keys -> Objects] /\ \A j \in Keys : obj'[j] \in Object(j)
    BY <1>0, <1>4, <2>2 DEF WorkTypeOK
  <2> QED BY <1>0, <1>1, <1>2, <1>4, <2>3, <2>4 DEF Already, TypeInv, WorkTypeOK
<1> QED BY <1>3, <1>4 DEF Already

\* Every step keeps the types.
THEOREM TypeStep == TypeInv /\ [Next]_vars => TypeInv'
<1> SUFFICES ASSUME TypeInv, [Next]_vars PROVE TypeInv' OBVIOUS
<1>1. CASE UNCHANGED vars
  BY <1>1 DEF TypeInv, EnvTypeOK, ApiTypeOK, FabricTypeOK, WorkTypeOK
<1>2. CASE Next
  BY <1>2, TypeUser, TypeWorld, TypeStart, TypeEnd, TypeCalling, TypeAlready
     DEF Next, Reconcile, Calling
<1> QED BY <1>1, <1>2

\* Every variable of the chaincode lifecycle keeps to its type in every behaviour.
THEOREM TypeCorrect == Spec => []TypeOK
<1>1. TypeInv => TypeOK
  BY DEF TypeInv, TypeOK, EnvTypeOK, ApiTypeOK, FabricTypeOK, WorkTypeOK, Work
<1> QED BY <1>1, TypeInit, TypeStep, PTL DEF Spec

-----------------------------------------------------------------------------
(* What a settled resource says is so.  What makes it inductive: a pass that  *)
(* no other will follow works on the last spec, and what it is about to       *)
(* report has been done for that spec.                                        *)

\* There is a pass to come.
Awaited(k) == k \in queue \/ k \notin synced

PhaseOK(k) ==
    /\ k \in synced => cache[k] = cr[k]
    /\ cache[k].phase = "gone" => cr[k].phase = "gone"
    /\ k \in objFresh => pc[k] # "idle" /\ obj[k].phase = cr[k].phase
    /\ pc[k] = "adopt" => obj[k].phase = "new"
    /\ pc[k] # "idle" /\ ~Awaited(k) => obj[k].spec = cr[k].spec

Stands(a, n, spec) ==
    spec.seq <= n \/ (a[spec.seq] # None /\ a[spec.seq].pkg = spec.pkg)

ApproveOK(k) ==
    Kind(k) = "approve" =>
        /\ pc[k] \in {"already", "finish"} /\ ~Awaited(k) =>
               Stands(approved[Org(k)], Len(committed), obj[k].spec)
        /\ Settled(k) => Stands(approved[Org(k)], Len(committed), cr[k].spec)

\* What an install has to show for the spec its pass works on.
Working(k) ==
    /\ work[k].done \cup work[k].todo \subseteq obj[k].spec
    /\ faults = 0 => work[k].done \cup work[k].todo = obj[k].spec
    /\ pc[k] = "report" => work[k].todo = {}
    /\ \A p \in work[k].done : work[k].pkg \in inst[p]

InstallOK(k) ==
    Kind(k) = "install" =>
        /\ pc[k] \in {"install", "report"} => Working(k)
        /\ Settled(k) =>
               /\ cr[k].report.done \subseteq cr[k].spec
               /\ faults = 0 => cr[k].report.done = cr[k].spec
               /\ \A p \in cr[k].report.done : cr[k].report.pkg \in inst[p]

Linked == \A k \in Keys : PhaseOK(k) /\ ApproveOK(k) /\ InstallOK(k)

\* At first, everything is to be looked at that there is.
THEOREM LinkedInit == Init => Linked
<1> SUFFICES ASSUME Init, NEW k \in Keys PROVE PhaseOK(k) /\ ApproveOK(k) /\ InstallOK(k)
  BY DEF Linked
<1>1. cache = cr /\ pc[k] = "idle" /\ k \notin objFresh
  BY DEF Init
<1>2. cr[k].status # "Running"
  <2>1. PICK there \in Present :
            cr = [j \in Keys |-> [Blank(j) EXCEPT !.phase = IF j \in there THEN @ ELSE "gone"]]
    BY DEF Init
  <2>2. cr[k].status = ""
    BY <2>1 DEF Blank
  <2> QED BY <2>2
<1> QED BY <1>1, <1>2 DEF PhaseOK, ApproveOK, InstallOK, Settled

\* What the step of one key leaves alone of the others.
Same(j) == /\ cr'[j] = cr[j] /\ cache'[j] = cache[j] /\ obj'[j] = obj[j]
           /\ pc'[j] = pc[j] /\ work'[j] = work[j]
           /\ (j \in synced' <=> j \in synced) /\ (j \in queue' <=> j \in queue)
           /\ (j \in objFresh' <=> j \in objFresh)

\* What a step never takes back.
Grows == /\ Len(committed) \in Nat /\ Len(committed') \in Nat
         /\ Len(committed) <= Len(committed')
         /\ \A p \in Peers : inst[p] \subseteq inst'[p]
         /\ faults' = 0 => faults = 0

LEMMA LinkedSame ==
    ASSUME TypeInv, NEW k \in Keys, PhaseOK(k), ApproveOK(k), InstallOK(k), Same(k), Grows,
           Kind(k) = "approve" => approved'[Org(k)] = approved[Org(k)]
    PROVE  PhaseOK(k)' /\ ApproveOK(k)' /\ InstallOK(k)'
<1>1. PhaseOK(k)'
  BY DEF PhaseOK, Same, Awaited
<1>2. ASSUME Kind(k) = "approve" PROVE ApproveOK(k)'
  <2>1. \A s \in SpecsOf(k) : Stands(approved[Org(k)], Len(committed), s)
                                  => Stands(approved'[Org(k)], Len(committed'), s)
    <3>1. \A s \in SpecsOf(k) : s.seq \in Nat
      BY <1>2, BoundTypes DEF SpecsOf, Seqs
    <3> QED BY <1>2, <3>1 DEF Stands, Grows
  <2>2. obj[k].spec \in SpecsOf(k) /\ cr[k].spec \in SpecsOf(k)
    BY CopyTypes DEF TypeInv, ApiTypeOK, WorkTypeOK
  <2> QED BY <1>2, <2>1, <2>2 DEF ApproveOK, Same, Awaited, Settled
<1>3. ASSUME Kind(k) = "install" PROVE InstallOK(k)'
  <2>1. work[k].done \subseteq Peers /\ cr[k].report.done \subseteq Peers
    BY DEF TypeInv, ApiTypeOK, WorkTypeOK, Work, Object, Report
  <2>2. Settled(k)' => Settled(k)
    BY DEF Same, Settled
  <2>3. \A p \in Peers : inst[p] \subseteq inst'[p]
    BY DEF Grows
  <2>4. faults' = 0 => faults = 0
    BY DEF Grows
  <2> QED BY <1>3, <2>1, <2>2, <2>3, <2>4 DEF InstallOK, Same, Working
<1> QED BY <1>1, <1>2, <1>3 DEF ApproveOK, InstallOK

\* As long as the worker is at the same step, its work stands.
LEMMA WorkingSame ==
    ASSUME TypeInv, NEW k \in Keys, Grows, Working(k), pc'[k] = pc[k],
           obj'[k] = obj[k], work'[k] = work[k]
    PROVE  Working(k)'
<1>1. work[k].done \subseteq Peers
  BY DEF TypeInv, WorkTypeOK, Work
<1> QED BY <1>1 DEF Working, Grows

\* Nothing is to be said of a resource that another pass will look at.
LEMMA LinkedAwaited ==
    ASSUME NEW k \in Keys, Awaited(k)', pc'[k] \notin {"install", "report"}
    PROVE  ApproveOK(k)' /\ InstallOK(k)'
BY DEF Awaited, ApproveOK, InstallOK, Settled

LEMMA GrowsStep == ASSUME TypeInv, Next PROVE Grows
<1>0. EnvTypeOK /\ FabricTypeOK /\ TypeInv'
  BY TypeStep DEF TypeInv
<1>1. Len(committed) \in Nat /\ Len(committed') \in Nat
  BY <1>0, LenProperties DEF FabricTypeOK, TypeInv
<1>2. Len(committed) <= Len(committed')
  <2>1. \/ committed' = committed
        \/ \E k \in Keys : CommitCC(k) /\ committed' = Append(committed, obj[k].spec.def)
    BY DEF Next, Reconcile, Tick, Crash, OtherApproves, Edit, Delete, CacheSync, Begin, Adopt,
           Finalize, SetupFails, Fail, Finish, Package, InstallOn, ReportInstall,
           QueryCommitted, QueryApproved, ApproveCC, Already, CommitCC
  <2>2. ASSUME NEW k \in Keys, CommitCC(k), committed' = Append(committed, obj[k].spec.def)
        PROVE  Len(committed') = Len(committed) + 1
    <3>1. StepOK(k, "commit") /\ Kind(k) \in {"install", "approve", "commit"}
      BY <2>2, KindOf DEF TypeInv, CommitCC
    <3>2. Kind(k) = "commit"
      BY <3>1 DEF StepOK, CommonSteps, OwnSteps
    <3>3. obj[k].spec \in [seq : Seqs, def : Defs]
      BY <3>2, CopyTypes DEF TypeInv, WorkTypeOK, SpecsOf
    <3> QED BY <1>0, <2>2, <3>3, AppendProperties DEF FabricTypeOK
  <2> QED BY <1>1, <2>1, <2>2
<1>3. \A p \in Peers : inst[p] \subseteq inst'[p]
  <2>1. \/ inst' = inst
        \/ \E k \in Keys, q \in Peers : inst' = [inst EXCEPT ![q] = @ \cup {work[k].pkg}]
    <3>1. CASE \E k \in Keys, q \in Peers : InstallOn(k, q)
      BY <3>1 DEF InstallOn
    <3>2. CASE ~\E k \in Keys, q \in Peers : InstallOn(k, q)
      BY <3>2 DEF Next, Reconcile, Tick, Crash, OtherApproves, Edit, Delete, CacheSync, Begin,
                  Adopt, Finalize, SetupFails, Fail, Finish, Package, ReportInstall,
                  QueryCommitted, QueryApproved, ApproveCC, Already, CommitCC
    <3> QED BY <3>1, <3>2
  <2> QED BY <1>0, <2>1 DEF FabricTypeOK
<1>4. faults' = 0 => faults = 0
  <2>1. NoFault \/ (\E c : Fault(c)) \/ Edits \/ Crash
    <3>1. ASSUME NEW k \in Keys, Reconcile(k) PROVE NoFault \/ \E c : Fault(c)
      <4>1. CASE Begin(k) \/ Adopt(k) \/ Finalize(k) \/ Fail(k) \/ Finish(k) \/ ReportInstall(k)
        BY <4>1 DEF Begin, Adopt, Finalize, Fail, Finish, ReportInstall, Write
      <4>2. CASE SetupFails(k) \/ Package(k) \/ \E p \in Peers : InstallOn(k, p)
        BY <4>2 DEF SetupFails, Package, InstallOn
      <4>3. CASE QueryCommitted(k) \/ QueryApproved(k) \/ ApproveCC(k) \/ Already(k) \/ CommitCC(k)
        BY <4>3 DEF QueryCommitted, QueryApproved, ApproveCC, Already, CommitCC
      <4> QED BY <3>1, <4>1, <4>2, <4>3 DEF Reconcile
    <3>2. ASSUME NEW k \in Keys, Edit(k) \/ Delete(k) \/ CacheSync(k) PROVE NoFault \/ Edits
      BY <3>2 DEF Edit, Delete, CacheSync
    <3>3. CASE Tick \/ \E o \in Orgs : OtherApproves(o)
      BY <3>3 DEF Tick, OtherApproves
    <3> QED BY <3>1, <3>2, <3>3 DEF Next
  <2>2. faults' = faults \/ faults' = faults + 1
    BY <2>1 DEF Fault, Edits, Crash
  <2> QED BY <1>0, <2>2 DEF EnvTypeOK
<1> QED BY <1>1, <1>2, <1>3, <1>4 DEF Grows

\* An organization's approvals are changed by its own resource only.
LEMMA ApprovalsKept ==
    ASSUME TypeInv, Next, NEW k \in Keys, Kind(k) = "approve", ~ApproveCC(k)
    PROVE  approved'[Org(k)] = approved[Org(k)]
<1>0. FabricTypeOK /\ Org(k) \in Orgs /\ k = <<"approve", Org(k)>>
  BY KindOf, KeyOf DEF TypeInv
<1>1. \/ approved' = approved
      \/ \E o \in Orgs : OtherApproves(o)
      \/ \E j \in Keys : ApproveCC(j)
  BY DEF Next, Reconcile, Tick, Crash, Edit, Delete, CacheSync, Begin, Adopt,
         Finalize, SetupFails, Fail, Finish, Package, InstallOn, ReportInstall,
         QueryCommitted, QueryApproved, Already, CommitCC
<1>2. ASSUME NEW o \in Orgs, OtherApproves(o) PROVE approved'[Org(k)] = approved[Org(k)]
  <2>1. o # Org(k)
    BY <1>0, <1>2 DEF OtherApproves
  <2>2. PICK f : approved' = [approved EXCEPT ![o] = f]
    BY <1>2 DEF OtherApproves
  <2> QED BY <1>0, <2>1, <2>2 DEF FabricTypeOK
<1>3. ASSUME NEW j \in Keys, ApproveCC(j) PROVE approved'[Org(k)] = approved[Org(k)]
  <2>1. Kind(j) = "approve"
    <3>1. StepOK(j, "approve") /\ Kind(j) \in {"install", "approve", "commit"}
      BY <1>3, KindOf DEF TypeInv, ApproveCC
    <3> QED BY <3>1 DEF StepOK, CommonSteps, OwnSteps
  <2>2. Org(j) # Org(k)
    BY <1>0, <1>3, <2>1, KeyOf
  <2>3. approved' = approved \/ \E f : approved' = [approved EXCEPT ![Org(j)] = f]
    BY <1>3 DEF ApproveCC
  <2> QED BY <1>0, <2>2, <2>3 DEF FabricTypeOK
<1> QED BY <1>1, <1>2, <1>3

\* The steps of one key leave the others alone.
LEMMA Frame ==
    ASSUME TypeInv, NEW k \in Keys, NEW j \in Keys \ {k},
           Edit(k) \/ Delete(k) \/ CacheSync(k) \/ Reconcile(k)
    PROVE  Same(j)
<1>0. ApiTypeOK /\ WorkTypeOK /\ cr[k] \in Object(k) /\ cache[k] \in Object(k)
  BY DEF TypeInv, ApiTypeOK
<1>1. /\ \A s \in SpecsOf(k) : [cr[k] EXCEPT !.spec = s] \in Object(k)
      /\ \A p \in {"new", "managed", "deleting", "gone"} : [cr[k] EXCEPT !.phase = p] \in Object(k)
      /\ \A s \in {"", "Running", "Failed"} : [cr[k] EXCEPT !.status = s] \in Object(k)
      /\ cr[k].status \in {"", "Running", "Failed"}
  BY <1>0, CopyTypes DEF Object
<1>2. ASSUME NEW o \in Object(k), Store(k, o) \/ Touch(k, o)
      PROVE  cr'[j] = cr[j] /\ cache'[j] = cache[j] /\ (j \in synced' <=> j \in synced)
  BY <1>0, <1>2, Touched
<1>3. ASSUME NEW r \in BOOLEAN, Return(k, r)
      PROVE  /\ pc'[j] = pc[j] /\ obj'[j] = obj[j] /\ work'[j] = work[j]
             /\ (j \in queue' <=> j \in queue) /\ (j \in objFresh' <=> j \in objFresh)
  BY <1>0, <1>3, Returned
<1>4. ASSUME NEW l, Goto(k, l) PROVE pc'[j] = pc[j]
  BY <1>0, <1>4 DEF Goto, WorkTypeOK
<1>5. ASSUME NEW o \in Object(k), NEW r \in BOOLEAN, Return(k, r),
             UNCHANGED apiVars \/ Store(k, o)
      PROVE  Same(j)
  BY <1>2, <1>3, <1>5 DEF Same
<1>6. CASE Edit(k)
  <2>1. PICK s \in SpecsOf(k) : Touch(k, [cr[k] EXCEPT !.spec = s])
    BY <1>6, SpecAssumption DEF Edit
  <2> QED BY <1>1, <1>2, <1>6, <2>1 DEF Edit, Same
<1>7. CASE Delete(k)
  <2>1. PICK p \in {"gone", "deleting"} : Touch(k, [cr[k] EXCEPT !.phase = p])
    BY <1>7 DEF Delete
  <2> QED BY <1>1, <1>2, <1>7, <2>1 DEF Delete, Same
<1>8. CASE CacheSync(k)
  BY <1>0, <1>8 DEF CacheSync, Same, ApiTypeOK
<1>9. CASE Begin(k)
  <2>1. pc'[j] = pc[j]
    BY <1>4, <1>9 DEF Begin
  <2>2. obj'[j] = obj[j] /\ (j \in objFresh' <=> j \in objFresh) /\ (j \in queue' <=> j \in queue)
    BY <1>0, <1>9 DEF Begin, WorkTypeOK
  <2> QED BY <1>9, <2>1, <2>2 DEF Begin, Same
<1>10. CASE Adopt(k)
  <2>1. [cr[k] EXCEPT !.phase = "managed"] \in Object(k)
    BY <1>1
  <2>2. CASE Return(k, TRUE) /\ UNCHANGED apiVars
    BY <1>5, <2>1, <2>2
  <2>3. CASE /\ Store(k, [cr[k] EXCEPT !.phase = "managed"])
             /\ obj' = [obj EXCEPT ![k] = cr'[k]] /\ Goto(k, FirstStep(k, cr[k].spec))
             /\ UNCHANGED <<queue, objFresh, work>>
    <3>1. obj'[j] = obj[j]
      BY <1>0, <2>3 DEF WorkTypeOK
    <3> QED BY <1>2, <1>4, <2>1, <2>3, <3>1 DEF Same
  <2> QED BY <1>10, <2>2, <2>3 DEF Adopt
<1>11. CASE Finalize(k)
  <2>1. [cr[k] EXCEPT !.phase = "gone"] \in Object(k)
    BY <1>1
  <2> QED BY <1>5, <1>11, <2>1 DEF Finalize
<1>12. CASE Fail(k)
  <2>1. PICK s \in {"", "Running", "Failed"} :
            UNCHANGED apiVars \/ Store(k, [cr[k] EXCEPT !.status = s])
    BY <1>1, <1>12 DEF Fail
  <2> QED BY <1>1, <1>5, <1>12, <2>1 DEF Fail
<1>13. CASE Finish(k) \/ ReportInstall(k)
  <2>1. PICK r \in Report : Write(k, r)
    <3>1. cr[k].report \in Report
      BY <1>0 DEF Object
    <3>2. [pkg |-> work[k].pkg, at |-> second, done |-> work[k].done] \in Report
      BY <1>0 DEF WorkTypeOK, Work, TypeInv, FabricTypeOK, Report
    <3> QED BY <1>13, <3>1, <3>2 DEF Finish, ReportInstall
  <2>2. [cr[k] EXCEPT !.status = "Running", !.report = r] \in Object(k)
    BY <1>0, CopyTypes
  <2> QED BY <1>5, <2>1, <2>2 DEF Write
<1>14. CASE Calling(k)
  <2>1. PICK l : Step(k, l)
    BY <1>14, CallingSteps
  <2>2. work'[j] = work[j]
    BY <1>0, <1>14 DEF Calling, SetupFails, Package, InstallOn, QueryCommitted, QueryApproved,
                       ApproveCC, CommitCC, WorkTypeOK
  <2> QED BY <1>4, <2>1, <2>2 DEF Step, Same
<1>15. CASE Already(k)
  <2>1. pc'[j] = pc[j]
    BY <1>4, <1>15 DEF Already
  <2>2. [cr[k] EXCEPT !.status = "Running"] \in Object(k)
    BY <1>1
  <2>3. cr'[j] = cr[j] /\ cache'[j] = cache[j] /\ (j \in synced' <=> j \in synced)
    BY <1>2, <1>15, <2>2 DEF Already
  <2>4. obj'[j] = obj[j] /\ (j \in objFresh' <=> j \in objFresh)
    BY <1>0, <1>15 DEF Already, WorkTypeOK
  <2> QED BY <1>15, <2>1, <2>3, <2>4 DEF Already, Same
<1> QED BY <1>6, <1>7, <1>8, <1>9, <1>10, <1>11, <1>12, <1>13, <1>14, <1>15 DEF Reconcile, Calling

\* A pass that is over and will be followed by another, or that has written the last
\* version of the resource to the API server, has left nothing open.
LEMMA LinkedReturn ==
    ASSUME TypeInv, NEW k \in Keys, PhaseOK(k), NEW r \in BOOLEAN, Return(k, r),
           UNCHANGED apiVars \/ \E o \in Object(k) : Store(k, o) /\ (cr[k].phase = "gone" => o.phase = "gone")
    PROVE  /\ PhaseOK(k)' /\ pc'[k] = "idle"
           /\ Awaited(k) => Awaited(k)'
           /\ ~Awaited(k)' => ~Awaited(k) /\ cr'[k] = cr[k]
           /\ Awaited(k)' \/ ~Settled(k)' => ApproveOK(k)' /\ InstallOK(k)'
<1>0. ApiTypeOK /\ WorkTypeOK
  BY DEF TypeInv
<1>1. pc'[k] = "idle" /\ k \notin objFresh' /\ (r => k \in queue') /\ (k \in queue => k \in queue')
  BY <1>0, Returned
<1>2. /\ cache' = cache /\ (k \in synced' => k \in synced /\ cr'[k] = cr[k])
      /\ cr[k].phase = "gone" => cr'[k].phase = "gone"
  <2>1. CASE UNCHANGED apiVars
    BY <2>1
  <2>2. ASSUME NEW o \in Object(k), Store(k, o), cr[k].phase = "gone" => o.phase = "gone"
        PROVE  /\ cache' = cache /\ (k \in synced' => k \in synced /\ cr'[k] = cr[k])
               /\ cr[k].phase = "gone" => cr'[k].phase = "gone"
    BY <1>0, <2>2, Touched
  <2> QED BY <2>1, <2>2
<1>3. PhaseOK(k)'
  BY <1>1, <1>2 DEF PhaseOK
<1>4. /\ Awaited(k) => Awaited(k)'
      /\ ~Awaited(k)' => ~Awaited(k) /\ cr'[k] = cr[k]
  BY <1>1, <1>2 DEF Awaited
<1>5. Awaited(k)' \/ ~Settled(k)' => ApproveOK(k)' /\ InstallOK(k)'
  BY <1>1 DEF ApproveOK, InstallOK, Settled, Awaited
<1> QED BY <1>1, <1>3, <1>4, <1>5

\* A key on which a user or the informer has acted is worked on again.
LEMMA LinkedUser ==
    ASSUME TypeInv, NEW k \in Keys, PhaseOK(k), ApproveOK(k), InstallOK(k), Grows,
           Edit(k) \/ Delete(k) \/ CacheSync(k)
    PROVE  PhaseOK(k)' /\ ApproveOK(k)' /\ InstallOK(k)'
<1>0. ApiTypeOK /\ WorkTypeOK /\ cr[k] \in Object(k)
  BY DEF TypeInv, ApiTypeOK
<1>1. pc' = pc /\ obj' = obj /\ work' = work
  BY DEF Edit, Delete, CacheSync
<1>2. Awaited(k)'
  <2>1. CASE CacheSync(k)
    BY <2>1 DEF CacheSync, Awaited
  <2>2. CASE Edit(k) \/ Delete(k)
    BY <2>2 DEF Edit, Delete, Touch, Awaited
  <2> QED BY <2>1, <2>2
<1>3. PhaseOK(k)'
  <2>1. CASE CacheSync(k)
    BY <1>0, <1>1, <1>2, <2>1 DEF CacheSync, PhaseOK, ApiTypeOK
  <2>2. CASE Edit(k) \/ Delete(k)
    <3>1. cr[k].phase # "gone" /\ k \notin synced' /\ k \notin objFresh' /\ cache' = cache
      BY <2>2 DEF Edit, Delete, Touch
    <3> QED BY <1>1, <1>2, <3>1 DEF PhaseOK
  <2> QED BY <2>1, <2>2
<1>4. ApproveOK(k)' /\ InstallOK(k)'
  BY <1>1, <1>2, WorkingSame DEF ApproveOK, InstallOK, Settled, Awaited
<1> QED BY <1>3, <1>4

\* After a restart everything there is will be worked on.
LEMMA LinkedCrash ==
    ASSUME NEW k \in Keys, Crash PROVE PhaseOK(k)' /\ ApproveOK(k)' /\ InstallOK(k)'
<1>1. /\ cache' = cr' /\ pc'[k] = "idle" /\ k \notin objFresh'
      /\ k \in queue' <=> cr'[k].phase # "gone"
  BY DEF Crash
<1> QED BY <1>1 DEF PhaseOK, ApproveOK, InstallOK, Settled

\* A pass begins with what the cache has.
LEMMA LinkedBegin ==
    ASSUME TypeInv, NEW k \in Keys, PhaseOK(k), Begin(k)
    PROVE  PhaseOK(k)' /\ ApproveOK(k)' /\ InstallOK(k)'
<1>0. /\ ApiTypeOK /\ WorkTypeOK /\ cache[k] \in Object(k) /\ cache[k].spec \in SpecsOf(k)
  BY CopyTypes DEF TypeInv, ApiTypeOK
<1>1. pc[k] = "idle" /\ k \notin objFresh /\ UNCHANGED apiVars
  BY DEF Begin, PhaseOK
<1>2. CASE cache[k].phase = "gone"
  <2>1. pc' = pc /\ objFresh' = objFresh
    BY <1>2 DEF Begin
  <2>2. ~Settled(k)'
    BY <1>1, <1>2 DEF Settled, PhaseOK
  <2> QED BY <1>1, <2>1, <2>2 DEF PhaseOK, ApproveOK, InstallOK
<1>3. CASE cache[k].phase # "gone"
  <2> DEFINE l == CASE cache[k].phase = "new" -> "adopt"
                    [] cache[k].phase = "deleting" -> "finalize"
                    [] OTHER -> FirstStep(k, cache[k].spec)
  <2>1. /\ FirstStep(k, cache[k].spec) \in Labels
        /\ FirstStep(k, cache[k].spec)
              \notin {"idle", "adopt", "finish", "already", "install", "report"}
    BY <1>0, FirstStepOK, KindOf DEF OwnSteps
  <2>2. /\ l \in Labels /\ l \notin {"idle", "finish", "already", "install", "report"}
        /\ l = "adopt" => cache[k].phase = "new"
    <3>1. CASE cache[k].phase = "new"
      BY <3>1 DEF Labels
    <3>2. CASE cache[k].phase = "deleting"
      BY <3>2 DEF Labels
    <3>3. CASE cache[k].phase \notin {"new", "deleting"}
      BY <2>1, <3>3
    <3> QED BY <3>1, <3>2, <3>3
  <2>3. Goto(k, l)
    BY <1>3 DEF Begin
  <2> HIDE DEF l
  <2>4. pc'[k] = l
    BY <1>0, <2>2, <2>3, GoneTo
  <2>5. obj'[k] = cache[k] /\ (k \in objFresh' => k \in synced)
    BY <1>0, <1>1, <1>3 DEF Begin, WorkTypeOK
  <2>6. PhaseOK(k)'
    BY <1>1, <2>2, <2>4, <2>5 DEF PhaseOK, Awaited
  <2> QED BY <2>2, <2>4, <2>6 DEF ApproveOK, InstallOK, Settled
<1> QED BY <1>2, <1>3

\* A resource is adopted before anything else is done for it.
LEMMA LinkedAdopt ==
    ASSUME TypeInv, NEW k \in Keys, PhaseOK(k), Adopt(k)
    PROVE  PhaseOK(k)' /\ ApproveOK(k)' /\ InstallOK(k)'
<1>0. /\ ApiTypeOK /\ WorkTypeOK /\ cr[k] \in Object(k) /\ cr[k].spec \in SpecsOf(k)
  BY CopyTypes DEF TypeInv, ApiTypeOK
<1>1. CASE Return(k, TRUE) /\ UNCHANGED apiVars
  <2>1. Awaited(k)'
    BY <1>0, <1>1, Returned DEF Awaited
  <2> QED BY <1>1, <2>1, LinkedReturn
<1>2. CASE /\ k \in objFresh
           /\ Store(k, [cr[k] EXCEPT !.phase = "managed"])
           /\ obj' = [obj EXCEPT ![k] = cr'[k]] /\ Goto(k, FirstStep(k, cr[k].spec))
           /\ UNCHANGED <<queue, objFresh, work>>
  <2>1. cr[k].phase = "new"
    BY <1>2 DEF Adopt, PhaseOK
  <2>2. [cr[k] EXCEPT !.phase = "managed"].phase = "managed"
    BY <1>0, FieldsOf
  <2>3. Touch(k, [cr[k] EXCEPT !.phase = "managed"])
    BY <1>2, <2>1, <2>2 DEF Store
  <2>4. k \notin synced' /\ cache' = cache
    BY <2>3 DEF Touch
  <2>5. /\ FirstStep(k, cr[k].spec) \in Labels
        /\ FirstStep(k, cr[k].spec)
              \notin {"idle", "adopt", "finish", "already", "install", "report"}
    BY <1>0, FirstStepOK, KindOf DEF OwnSteps
  <2>6. pc'[k] = FirstStep(k, cr[k].spec)
    BY <1>0, <1>2, <2>5, GoneTo
  <2>7. obj'[k] = cr'[k]
    BY <1>0, <1>2 DEF WorkTypeOK
  <2>8. PhaseOK(k)'
    BY <2>1, <2>4, <2>5, <2>6, <2>7 DEF PhaseOK, Awaited
  <2> QED BY <2>4, <2>5, <2>6, <2>8, LinkedAwaited DEF Awaited
<1> QED BY <1>1, <1>2 DEF Adopt

\* A pass that deletes or fails leaves nothing Running that no other pass will look at.
LEMMA LinkedFail ==
    ASSUME TypeInv, NEW k \in Keys, PhaseOK(k), Finalize(k) \/ Fail(k)
    PROVE  PhaseOK(k)' /\ ApproveOK(k)' /\ InstallOK(k)'
<1>0. /\ ApiTypeOK /\ WorkTypeOK /\ cr[k] \in Object(k)
  BY DEF TypeInv, ApiTypeOK
<1>1. CASE Return(k, TRUE) /\ (UNCHANGED apiVars \/ \E o \in Object(k) :
                 Store(k, o) /\ (cr[k].phase = "gone" => o.phase = "gone"))
  <2>1. Awaited(k)'
    BY <1>0, <1>1, Returned DEF Awaited
  <2> QED BY <1>1, <2>1, LinkedReturn
<1>2. CASE Fail(k)
  <2> DEFINE o == [cr[k] EXCEPT !.status = IF obj[k].status = "Failed" THEN @ ELSE "Failed"]
  <2>1. o \in Object(k) /\ o.phase = cr[k].phase
    BY <1>0 DEF Object
  <2> QED BY <1>1, <1>2, <2>1 DEF Fail
<1>3. CASE Finalize(k)
  <2> DEFINE o == [cr[k] EXCEPT !.phase = "gone"]
  <2>1. o \in Object(k) /\ o.phase = "gone"
    <3>1. o \in Object(k)
      BY <1>0, CopyTypes
    <3>2. o.phase = "gone"
      BY <1>0, FieldsOf
    <3> QED BY <3>1, <3>2
  <2>2. CASE Return(k, FALSE) /\ Store(k, o)
    <3>1. cr'[k].phase = "gone"
      BY <1>0, <2>1, <2>2, Touched
    <3>2. ~Settled(k)'
      BY <3>1 DEF Settled
    <3> HIDE DEF o
    <3> QED BY <2>1, <2>2, <3>2, LinkedReturn
  <2> QED BY <1>1, <1>3, <2>2 DEF Finalize
<1> QED BY <1>2, <1>3

\* A pass that reports a success has it to report: for the last version of the spec, unless
\* another pass is to follow.
LEMMA LinkedWrite ==
    ASSUME TypeInv, NEW k \in Keys, PhaseOK(k), ApproveOK(k), InstallOK(k),
           Finish(k) \/ ReportInstall(k)
    PROVE  PhaseOK(k)' /\ ApproveOK(k)' /\ InstallOK(k)'
<1>0. /\ ApiTypeOK /\ WorkTypeOK /\ FabricTypeOK /\ cr[k] \in Object(k) /\ StepOK(k, pc[k])
      /\ Kind(k) \in {"install", "approve", "commit"} /\ work[k] \in Work
  BY KindOf DEF TypeInv, ApiTypeOK, WorkTypeOK
<1>1. PICK r \in Report :
          /\ Write(k, r)
          /\ ReportInstall(k) => r = [pkg |-> work[k].pkg, at |-> second, done |-> work[k].done]
  <2>1. cr[k].report \in Report
    BY <1>0 DEF Object
  <2>2. [pkg |-> work[k].pkg, at |-> second, done |-> work[k].done] \in Report
    BY <1>0 DEF Work, FabricTypeOK, Report
  <2>3. CASE ReportInstall(k)
    BY <2>2, <2>3 DEF ReportInstall
  <2>4. CASE Finish(k) /\ ~ReportInstall(k)
    BY <2>1, <2>4 DEF Finish
  <2> QED BY <2>3, <2>4
<1>2. UNCHANGED <<fabricVars, second>> /\ pc[k] # "idle"
  BY DEF Finish, ReportInstall
<1>3. CASE Return(k, TRUE) /\ UNCHANGED apiVars
  <2>1. Awaited(k)'
    BY <1>0, <1>3, Returned DEF Awaited
  <2> QED BY <1>3, <2>1, LinkedReturn
<1>4. CASE /\ Return(k, FALSE) /\ NoFault
           /\ Store(k, [cr[k] EXCEPT !.status = "Running", !.report = r])
  <2> DEFINE o == [cr[k] EXCEPT !.status = "Running", !.report = r]
  <2>1. o \in Object(k) /\ o.phase = cr[k].phase /\ o.spec = cr[k].spec /\ o.report = r
    <3>1. o \in Object(k)
      BY <1>0, CopyTypes
    <3>2. o.phase = cr[k].phase /\ o.spec = cr[k].spec /\ o.report = r
      BY <1>0, FieldsOf
    <3> QED BY <3>1, <3>2
  <2>2. cr'[k] = o
    BY <1>0, <1>4, <2>1, Touched
  <2> HIDE DEF o
  <2>3. /\ PhaseOK(k)' /\ pc'[k] = "idle"
        /\ ~Awaited(k)' => ~Awaited(k) /\ cr'[k] = cr[k]
        /\ Awaited(k)' => ApproveOK(k)' /\ InstallOK(k)'
    BY <1>4, <2>1, LinkedReturn DEF o
  <2>4. ASSUME ~Awaited(k)' PROVE ApproveOK(k)' /\ InstallOK(k)'
    <3>1. obj[k].spec = cr[k].spec /\ cr'[k].spec = cr[k].spec /\ cr'[k].report = r
      BY <1>2, <2>1, <2>2, <2>3, <2>4 DEF PhaseOK
    <3>2. Kind(k) = "approve" => pc[k] = "finish"
      BY <1>0 DEF StepOK, CommonSteps, OwnSteps, Finish, ReportInstall
    <3>3. ApproveOK(k)'
      BY <1>2, <2>3, <2>4, <3>1, <3>2 DEF ApproveOK
    <3>4. ASSUME Kind(k) = "install" PROVE InstallOK(k)'
      <4>1. pc[k] = "report" /\ ReportInstall(k)
        BY <1>0, <3>4 DEF StepOK, CommonSteps, OwnSteps, Finish, ReportInstall
      <4>2. r.pkg = work[k].pkg /\ r.done = work[k].done
        BY <1>1, <4>1
      <4>3. Working(k) /\ work[k].todo = {}
        BY <3>4, <4>1 DEF InstallOK, Working
      <4>4. /\ r.done \subseteq obj[k].spec /\ (faults = 0 => r.done = obj[k].spec)
            /\ \A p \in r.done : r.pkg \in inst[p]
        BY <4>2, <4>3 DEF Working
      <4> QED BY <1>2, <1>4, <2>3, <3>1, <4>4 DEF InstallOK
    <3> QED BY <3>3, <3>4 DEF InstallOK
  <2> QED BY <2>3, <2>4
<1> QED BY <1>1, <1>3, <1>4 DEF Write

\* What an approval has found approved, or has taken for a success, stands.
LEMMA ApproveCalling ==
    ASSUME TypeInv, NEW k \in Keys, Calling(k), Kind(k) = "approve",
           pc'[k] \in {"already", "finish"}
    PROVE  Stands(approved'[Org(k)], Len(committed'), obj[k].spec)
<1>0. /\ FabricTypeOK /\ WorkTypeOK /\ Org(k) \in Orgs /\ StepOK(k, pc[k])
      /\ obj[k].spec \in [seq : Seqs, def : Defs, pkg : Packages]
  BY KindOf, CopyTypes DEF TypeInv, WorkTypeOK, SpecsOf
<1>1. PICK l \in Labels : Step(k, l)
  BY CallingSteps
<1>2. l \in {"already", "finish"}
  BY <1>0, <1>1, GoneTo DEF Step
<1>3. \A m \in Labels : Step(k, m) => m = l
  BY <1>0, <1>1, GoneTo DEF Step
<1>4. {"fail", "approve", "queryApproved", "install", "report", "already"} \subseteq Labels
  BY DEF Labels
<1>5. ~Step(k, "fail") /\ ~Step(k, "approve") /\ ~Step(k, "queryApproved")
  BY <1>2, <1>3, <1>4
<1>6. Len(committed) \in Nat /\ obj[k].spec.seq \in Nat
  BY <1>0, LenProperties, BoundTypes DEF FabricTypeOK, Seqs
<1>7. CASE QueryCommitted(k)
  BY <1>5, <1>7 DEF QueryCommitted, Stands
<1>8. CASE QueryApproved(k)
  BY <1>5, <1>8 DEF QueryApproved, Stands
<1>9. CASE ApproveCC(k)
  <2> DEFINE s == obj[k].spec.seq
             a == [def |-> obj[k].spec.def, pkg |-> obj[k].spec.pkg]
             e == ApprovalError(Org(k), s, a)
  <2>1. s \in Seqs /\ a \in Approval /\ a # None /\ a.pkg = obj[k].spec.pkg
    BY <1>0, NoneAssumption DEF Approval
  <2>2. committed' = committed
    BY <1>9 DEF ApproveCC
  <2>3. \/ approved' = [approved EXCEPT ![Org(k)][s] = a]
        \/ /\ e \in {"redefine committed", "redefine uncommitted"}
           /\ approved' = approved
    BY <1>5, <1>9 DEF ApproveCC
  <2>4. CASE approved' = [approved EXCEPT ![Org(k)][s] = a]
    <3>1. approved'[Org(k)][s] = a
      BY <1>0, <2>1, <2>4 DEF FabricTypeOK
    <3> QED BY <2>1, <3>1 DEF Stands
  <2>5. CASE e \in {"redefine committed", "redefine uncommitted"} /\ approved' = approved
    <3>1. s = Len(committed) \/ a = approved[Org(k)][s]
      BY <2>5 DEF ApprovalError
    <3> HIDE DEF e
    <3>2. CASE s = Len(committed)
      <4>1. s <= Len(committed')
        BY <1>6, <2>2, <3>2
      <4> QED BY <4>1 DEF Stands
    <3>3. CASE a = approved[Org(k)][s]
      <4>1. approved'[Org(k)][s] = a
        BY <2>5, <3>3
      <4> QED BY <2>1, <4>1 DEF Stands
    <3> QED BY <3>1, <3>2, <3>3
  <2> QED BY <2>3, <2>4, <2>5
<1>10. pc[k] \notin {"package", "install", "commit"}
  BY <1>0 DEF StepOK, CommonSteps, OwnSteps
<1> QED BY <1>5, <1>7, <1>8, <1>9, <1>10 DEF Calling, SetupFails, Package, InstallOn, CommitCC

\* What an install reports is on the peers.
LEMMA InstallCalling ==
    ASSUME TypeInv, NEW k \in Keys, Calling(k), Kind(k) = "install", InstallOK(k),
           pc'[k] \in {"install", "report"}
    PROVE  Working(k)'
<1>0. /\ EnvTypeOK /\ FabricTypeOK /\ WorkTypeOK /\ StepOK(k, pc[k]) /\ work[k] \in Work
  BY DEF TypeInv, WorkTypeOK
<1>1. PICK l \in Labels : Step(k, l)
  BY CallingSteps
<1>2. pc'[k] = l /\ obj' = obj
  BY <1>0, <1>1, GoneTo DEF Step
<1>3. CASE Package(k)
  <2>1. work'[k] = [pkg |-> second, todo |-> obj[k].spec, done |-> {}]
    BY <1>0, <1>3 DEF Package, WorkTypeOK
  <2>2. pc'[k] = "report" => obj[k].spec = {}
    <3>1. CASE obj[k].spec = {}
      BY <3>1
    <3>2. CASE obj[k].spec # {}
      <4>1. Goto(k, "install") /\ "install" \in Labels
        BY <1>3, <3>2 DEF Package, Step, Labels
      <4> QED BY <1>0, <4>1, GoneTo
    <3> QED BY <3>1, <3>2
  <2> QED BY <1>2, <2>1, <2>2 DEF Working
<1>4. ASSUME NEW p \in Peers, InstallOn(k, p) PROVE Working(k)'
  <2>1. Working(k) /\ p \in work[k].todo
    BY <1>4 DEF InstallOn, InstallOK
  <2>2. pc'[k] = "report" => work[k].todo = {p}
    <3>1. CASE work[k].todo = {p}
      BY <3>1
    <3>2. CASE work[k].todo # {p}
      <4>1. Goto(k, "install") /\ "install" \in Labels
        BY <1>4, <3>2 DEF InstallOn, Step, Labels
      <4> QED BY <1>0, <4>1, GoneTo
    <3> QED BY <3>1, <3>2
  <2>3. work[k].done \subseteq Peers /\ inst[p] \in SUBSET Packages
    BY <1>0 DEF Work, FabricTypeOK
  <2>4. CASE /\ NoFault /\ inst' = [inst EXCEPT ![p] = @ \cup {work[k].pkg}]
             /\ work' = [work EXCEPT ![k].todo = @ \ {p}, ![k].done = @ \cup {p}]
    <3>1. /\ work'[k].pkg = work[k].pkg /\ work'[k].todo = work[k].todo \ {p}
          /\ work'[k].done = work[k].done \cup {p}
      BY <1>0, <2>4 DEF WorkTypeOK, Work
    <3>2. work[k].pkg \in inst'[p] /\ \A q \in Peers : inst[q] \subseteq inst'[q]
      BY <1>0, <2>4 DEF FabricTypeOK
    <3>3. work'[k].done \cup work'[k].todo = work[k].done \cup work[k].todo
      BY <2>1, <3>1
    <3>4. \A q \in work'[k].done : work'[k].pkg \in inst'[q]
      BY <2>1, <2>3, <3>1, <3>2 DEF Working
    <3>5. faults' = faults
      BY <2>4
    <3> QED BY <1>2, <2>1, <2>2, <3>1, <3>3, <3>4, <3>5 DEF Working
  <2>5. CASE /\ Fault("install") /\ inst' \in {inst, [inst EXCEPT ![p] = @ \cup {work[k].pkg}]}
             /\ work' = [work EXCEPT ![k].todo = @ \ {p}]
    <3>1. /\ work'[k].pkg = work[k].pkg /\ work'[k].todo = work[k].todo \ {p}
          /\ work'[k].done = work[k].done
      BY <1>0, <2>5 DEF WorkTypeOK, Work
    <3>2. \A q \in Peers : inst[q] \subseteq inst'[q]
      BY <1>0, <2>5 DEF FabricTypeOK
    <3>3. faults' # 0
      BY <1>0, <2>5 DEF Fault, EnvTypeOK
    <3>4. \A q \in work'[k].done : work'[k].pkg \in inst'[q]
      BY <2>1, <2>3, <3>1, <3>2 DEF Working
    <3> QED BY <1>2, <2>1, <2>2, <3>1, <3>3, <3>4 DEF Working
  <2> QED BY <1>4, <2>4, <2>5 DEF InstallOn
<1>5. pc[k] \notin {"queryCommitted", "queryApproved", "approve", "commit"}
  BY <1>0 DEF StepOK, CommonSteps, OwnSteps
<1>6. ~SetupFails(k)
  <2>1. "fail" \in Labels /\ (SetupFails(k) => Goto(k, "fail"))
    BY DEF Labels, SetupFails, Step
  <2> QED BY <1>0, <2>1, GoneTo
<1> QED BY <1>3, <1>4, <1>5, <1>6
        DEF Calling, QueryCommitted, QueryApproved, ApproveCC, CommitCC

\* A call of Fabric leaves the resource alone, and the pass that makes it goes on.
LEMMA LinkedCalling ==
    ASSUME TypeInv, NEW k \in Keys, PhaseOK(k), InstallOK(k), Calling(k)
    PROVE  PhaseOK(k)' /\ ApproveOK(k)' /\ InstallOK(k)'
<1>1. PICK l \in Labels \ {"idle", "adopt"} : Step(k, l)
  BY CallingSteps
<1>2. pc[k] # "idle" /\ pc'[k] = l
  BY <1>1, CallingSteps, GoneTo DEF TypeInv, Step
<1>3. UNCHANGED <<apiVars, queue, copyVars>>
  BY <1>1 DEF Step
<1>4. PhaseOK(k)'
  BY <1>1, <1>2, <1>3 DEF PhaseOK, Awaited
<1>5. ApproveOK(k)'
  BY <1>1, <1>2, <1>3, ApproveCalling DEF ApproveOK, Settled
<1>6. InstallOK(k)'
  BY <1>1, <1>2, InstallCalling DEF InstallOK, Settled
<1> QED BY <1>4, <1>5, <1>6

\* "chaincode already approved": of the version that is patched, or another pass follows.
LEMMA LinkedAlready ==
    ASSUME TypeInv, NEW k \in Keys, PhaseOK(k), ApproveOK(k), Already(k)
    PROVE  PhaseOK(k)' /\ ApproveOK(k)' /\ InstallOK(k)'
<1>0. /\ ApiTypeOK /\ WorkTypeOK /\ cr[k] \in Object(k) /\ StepOK(k, "already")
      /\ Kind(k) \in {"install", "approve", "commit"}
  BY KindOf DEF TypeInv, ApiTypeOK, Already
<1>1. Kind(k) = "approve" /\ pc[k] = "already"
  BY <1>0 DEF StepOK, CommonSteps, OwnSteps, Already
<1>2. pc'[k] = "finish" /\ UNCHANGED <<queue, fabricVars>>
  <2>1. "finish" \in Labels /\ Goto(k, "finish")
    BY DEF Labels, Already
  <2> QED BY <1>0, <2>1, GoneTo DEF Already
<1>3. CASE UNCHANGED <<apiVars, copyVars>>
  BY <1>1, <1>2, <1>3 DEF PhaseOK, ApproveOK, InstallOK, Settled, Awaited
<1>4. CASE /\ Store(k, [cr[k] EXCEPT !.status = "Running"])
           /\ obj' = [obj EXCEPT ![k] = cr'[k]] /\ objFresh' = objFresh \cup {k}
  <2> DEFINE o == [cr[k] EXCEPT !.status = "Running"]
  <2>1. o \in Object(k)
    BY <1>0, CopyTypes
  <2>2. o.phase = cr[k].phase
    BY <1>0, FieldsOf
  <2>3. /\ cr'[k] = o /\ cache' = cache /\ synced' \in SUBSET synced
        /\ (k \in synced' => k \in synced /\ cr'[k] = cr[k])
    BY <1>0, <1>4, <2>1, Touched
  <2> HIDE DEF o
  <2>4. obj'[k] = cr'[k]
    BY <1>0, <1>4 DEF WorkTypeOK
  <2>5. PhaseOK(k)'
    BY <1>2, <2>2, <2>3, <2>4 DEF PhaseOK
  <2>6. ASSUME ~Awaited(k)' PROVE ~Awaited(k) /\ obj'[k].spec = obj[k].spec
    BY <1>1, <1>2, <2>3, <2>4, <2>6 DEF Awaited, PhaseOK
  <2> QED BY <1>1, <1>2, <2>5, <2>6 DEF ApproveOK, InstallOK, Settled
<1> QED BY <1>3, <1>4 DEF Already

\* Every step keeps it.
THEOREM LinkedStep == TypeInv /\ Linked /\ [Next]_vars => Linked'
<1> SUFFICES ASSUME TypeInv, Linked, [Next]_vars, NEW j \in Keys
             PROVE  PhaseOK(j)' /\ ApproveOK(j)' /\ InstallOK(j)'
  BY DEF Linked
<1>0. PhaseOK(j) /\ ApproveOK(j) /\ InstallOK(j)
  BY DEF Linked
<1>1. CASE UNCHANGED vars
  BY <1>0, <1>1 DEF PhaseOK, ApproveOK, InstallOK, Working, Settled, Awaited
<1>2. CASE Next
  <2>1. Grows
    BY <1>2, GrowsStep
  <2>2. ASSUME Same(j) PROVE PhaseOK(j)' /\ ApproveOK(j)' /\ InstallOK(j)'
    <3>1. ~ApproveCC(j)
      <4>1. ApproveCC(j) => pc[j] = "approve" /\ (Goto(j, "finish") \/ Goto(j, "fail"))
        BY DEF ApproveCC, Step
      <4>2. "finish" \in Labels /\ "fail" \in Labels /\ pc'[j] = pc[j]
        BY <2>2 DEF Labels, Same
      <4> QED BY <4>1, <4>2, GoneTo DEF TypeInv
    <3> QED BY <1>0, <1>2, <2>1, <2>2, <3>1, ApprovalsKept, LinkedSame
  <2>3. CASE Tick \/ \E o \in Orgs : OtherApproves(o)
    BY <2>2, <2>3 DEF Tick, OtherApproves, Same
  <2>4. CASE Crash
    BY <2>4, LinkedCrash
  <2>5. ASSUME NEW k \in Keys, Edit(k) \/ Delete(k) \/ CacheSync(k) \/ Reconcile(k)
        PROVE  PhaseOK(j)' /\ ApproveOK(j)' /\ InstallOK(j)'
    <3>1. CASE j # k
      BY <2>2, <2>5, <3>1, Frame
    <3>2. CASE j = k
      BY <1>0, <2>1, <2>5, <3>2, LinkedUser, LinkedBegin, LinkedAdopt, LinkedFail, LinkedWrite,
         LinkedCalling, LinkedAlready DEF Reconcile, Calling
    <3> QED BY <3>1, <3>2
  <2> QED BY <1>2, <2>3, <2>4, <2>5 DEF Next
<1> QED BY <1>1, <1>2

LEMMA SpecLinked == Spec => [](TypeInv /\ Linked)
BY TypeInit, TypeStep, LinkedInit, LinkedStep, PTL DEF Spec

\* An approval that has settled stands, whatever happens in between.
THEOREM ApprovalStands == Spec => []ApproveRunning
<1>1. TypeInv /\ Linked => ApproveRunning
  BY DEF Linked, ApproveOK, Stands, ApproveRunning
<1> QED BY <1>1, SpecLinked, PTL

\* An install that has settled reports what its peers have, all of them if no call failed.
THEOREM InstallReported == Spec => []InstallRunning
<1>1. TypeInv /\ Linked => InstallRunning
  BY DEF Linked, InstallOK, InstallRunning
<1> QED BY <1>1, SpecLinked, PTL

-----------------------------------------------------------------------------
(* What a commit reports has been committed, if the users number definitions  *)
(* as the channel does: the first is 1, a number stands for one definition.   *)

\* The specs that users may ever give k.
Offered(k) == {First[k]} \cup Choices[k]

\* What the theorem about commits assumes of the users.
NumberedAlike ==
    /\ \A k \in Keys : Kind(k) = "commit" => First[k].seq = 1
    /\ \A j, k \in Keys : \A s \in Offered(j), t \in Offered(k) :
           Kind(j) = "commit" /\ Kind(k) = "commit" /\ s.seq = t.seq => s.def = t.def

\* A spec asks for a definition that is committed, or for the next one.
Asked(k, s) == s \in Offered(k) /\ s.seq <= Len(committed) + 1

CommitOK(k) ==
    Kind(k) = "commit" =>
        /\ Asked(k, cr[k].spec) /\ Asked(k, cache[k].spec) /\ Asked(k, obj[k].spec)
        /\ pc[k] = "finish" /\ ~Awaited(k) => obj[k].spec.seq <= Len(committed)
        /\ Settled(k) => cr[k].spec.seq <= Len(committed)

Numbered == \A i \in 1..Len(committed), k \in Keys : \A s \in Offered(k) :
                Kind(k) = "commit" /\ s.seq = i => committed[i] = s.def

LEMMA OfferedTypes ==
    ASSUME NEW k \in Keys, Kind(k) = "commit"
    PROVE  /\ First[k] \in Offered(k)
           /\ \A s \in Offered(k) : s \in [seq : Seqs, def : Defs] /\ s.seq \in Nat \ {0}
BY SpecAssumption, BoundTypes DEF Offered, SpecsOf, Seqs

LEMMA AskedStill ==
    ASSUME Grows, NEW k \in Keys, Kind(k) = "commit", NEW s, Asked(k, s)
    PROVE  s \in Offered(k) /\ s.seq <= Len(committed') + 1
BY OfferedTypes DEF Asked, Grows

\* At first, nothing is committed and users ask for the first definition.
LEMMA CommitInit == ASSUME NumberedAlike, Init PROVE Numbered /\ \A k \in Keys : CommitOK(k)
<1>1. committed = << >> /\ Len(committed) = 0
  BY DEF Init
<1>2. Numbered
  BY <1>1 DEF Numbered
<1>3. ASSUME NEW k \in Keys, Kind(k) = "commit" PROVE CommitOK(k)
  <2>1. Asked(k, First[k])
    BY <1>1, <1>3, OfferedTypes DEF NumberedAlike, Asked
  <2>2. cr[k].spec = First[k] /\ cr[k].status = ""
    <3>1. PICK there \in Present :
              cr = [j \in Keys |-> [Blank(j) EXCEPT !.phase = IF j \in there THEN @ ELSE "gone"]]
      BY DEF Init
    <3> QED BY <3>1 DEF Blank
  <2>3. cache[k] = cr[k] /\ obj[k].spec = First[k] /\ pc[k] = "idle"
    BY DEF Init, Blank
  <2> QED BY <2>1, <2>2, <2>3 DEF CommitOK, Settled
<1> QED BY <1>2, <1>3 DEF CommitOK

\* Only what a commit asks for is committed, and only as the next definition.
LEMMA NumberedStep ==
    ASSUME NumberedAlike, TypeInv, Next, Numbered, \A k \in Keys : CommitOK(k)
    PROVE  Numbered'
<1>0. FabricTypeOK
  BY DEF TypeInv
<1>1. CASE committed' = committed
  BY <1>1 DEF Numbered
<1>2. ASSUME NEW k \in Keys, CommitCC(k), committed' # committed PROVE Numbered'
  <2>1. Kind(k) = "commit"
    <3>1. StepOK(k, "commit") /\ Kind(k) \in {"install", "approve", "commit"}
      BY <1>2, KindOf DEF TypeInv, CommitCC
    <3> QED BY <3>1 DEF StepOK, CommonSteps, OwnSteps
  <2>2. /\ obj[k].spec.seq = Len(committed) + 1
        /\ committed' = Append(committed, obj[k].spec.def)
    BY <1>2 DEF CommitCC
  <2>3. obj[k].spec \in Offered(k) /\ obj[k].spec.def \in Defs
    BY <2>1, OfferedTypes DEF CommitOK, Asked
  <2>4. /\ Len(committed) \in Nat /\ Len(committed') = Len(committed) + 1
        /\ committed'[Len(committed) + 1] = obj[k].spec.def
        /\ \A i \in 1..Len(committed) : committed'[i] = committed[i]
    BY <1>0, <2>2, <2>3, AppendProperties, LenProperties DEF FabricTypeOK
  <2>5. ASSUME NEW i \in 1..Len(committed'), NEW j \in Keys, NEW s \in Offered(j),
               Kind(j) = "commit", s.seq = i
        PROVE  committed'[i] = s.def
    <3>1. CASE i \in 1..Len(committed)
      BY <2>4, <2>5, <3>1 DEF Numbered
    <3>2. CASE i = Len(committed) + 1
      BY <2>1, <2>2, <2>3, <2>4, <2>5, <3>2 DEF NumberedAlike
    <3> QED BY <2>4, <3>1, <3>2
  <2> QED BY <2>5 DEF Numbered
<1>3. committed' = committed \/ \E k \in Keys : CommitCC(k)
  BY DEF Next, Reconcile, Tick, Crash, OtherApproves, Edit, Delete, CacheSync, Begin, Adopt,
         Finalize, SetupFails, Fail, Finish, Package, InstallOn, ReportInstall,
         QueryCommitted, QueryApproved, ApproveCC, Already
<1> QED BY <1>1, <1>2, <1>3

LEMMA CommitSame ==
    ASSUME NEW k \in Keys, CommitOK(k), Same(k), Grows PROVE CommitOK(k)'
<1>1. ASSUME Kind(k) = "commit" PROVE CommitOK(k)'
  <2>1. \A s : Asked(k, s) => s.seq \in Nat /\ s \in Offered(k) /\ s.seq <= Len(committed') + 1
    BY <1>1, AskedStill, OfferedTypes DEF Asked
  <2>2. \A s : Asked(k, s) /\ s.seq <= Len(committed) => s.seq <= Len(committed')
    BY <2>1 DEF Grows
  <2> QED BY <1>1, <2>1, <2>2 DEF CommitOK, Same, Awaited, Settled, Asked
<1> QED BY <1>1 DEF CommitOK

\* All copies go back to specs that users have asked for.
LEMMA CommitCopies ==
    ASSUME NEW k \in Keys, Kind(k) = "commit", CommitOK(k), Grows, First[k].seq = 1,
           cr'[k].spec = cr[k].spec,
           cache'[k].spec \in {cache[k].spec, cr[k].spec},
           obj'[k].spec \in {obj[k].spec, cache[k].spec, cr[k].spec, First[k]},
           pc'[k] = "finish" /\ ~Awaited(k)' => obj'[k].spec.seq <= Len(committed'),
           Settled(k)' => cr'[k].spec.seq <= Len(committed')
    PROVE  CommitOK(k)'
<1>1. First[k] \in Offered(k) /\ First[k].seq <= Len(committed') + 1
  BY OfferedTypes DEF Grows
<1>2. \A s \in {cr[k].spec, cache[k].spec, obj[k].spec} :
          s \in Offered(k) /\ s.seq <= Len(committed') + 1
  BY AskedStill DEF CommitOK
<1> QED BY <1>1, <1>2 DEF CommitOK, Asked

\* Where no pass of k ends or takes its last step, its copies are all there is to look at.
LEMMA CommitOutside ==
    ASSUME NumberedAlike, TypeInv, NEW k \in Keys, Kind(k) = "commit", PhaseOK(k), CommitOK(k),
           Grows, Edit(k) \/ Delete(k) \/ CacheSync(k) \/ Crash \/ Begin(k) \/ Adopt(k)
    PROVE  CommitOK(k)'
<1>0. /\ ApiTypeOK /\ WorkTypeOK /\ cr[k] \in Object(k) /\ First[k].seq = 1
      /\ Blank(k).spec = First[k]
  BY DEF TypeInv, ApiTypeOK, NumberedAlike, Blank
<1>1. CASE Edit(k)
  <2>1. PICK s \in Choices[k] : /\ s.seq <= Len(committed) + 1
                               /\ Touch(k, [cr[k] EXCEPT !.spec = s])
    BY <1>1 DEF Edit
  <2>2. cr'[k].spec = s
    BY <1>0, <2>1 DEF Touch, ApiTypeOK, Object
  <2>3. k \notin synced' /\ committed' = committed /\ cache' = cache /\ obj' = obj
    BY <1>1, <2>1 DEF Edit, Touch
  <2> QED BY <2>1, <2>2, <2>3 DEF CommitOK, Asked, Offered, Awaited, Settled
<1>2. CASE Delete(k)
  <2>1. cr'[k].spec = cr[k].spec /\ k \notin synced' /\ cache' = cache /\ obj' = obj
    BY <1>0, <1>2 DEF Delete, Touch, ApiTypeOK, Object
  <2> QED BY <1>0, <2>1, CommitCopies DEF Awaited, Settled
<1>3. CASE CacheSync(k)
  <2>1. cr' = cr /\ cache'[k] = cr[k] /\ k \in queue' /\ obj' = obj
    BY <1>0, <1>3 DEF CacheSync, ApiTypeOK
  <2> QED BY <1>0, <2>1, CommitCopies DEF Awaited, Settled
<1>4. CASE Crash
  <2>1. /\ cr' = cr /\ cache' = cr /\ obj'[k] = Blank(k) /\ pc'[k] = "idle"
        /\ k \in queue' <=> cr'[k].phase # "gone"
    BY <1>4 DEF Crash
  <2> QED BY <1>0, <2>1, CommitCopies DEF Settled
<1>5. CASE Begin(k)
  <2>1. cr' = cr /\ cache' = cache /\ obj'[k] \in {obj[k], cache[k]} /\ pc'[k] # "finish"
    <3>1. CASE cache[k].phase = "gone"
      BY <1>5, <3>1 DEF Begin
    <3>2. CASE cache[k].phase # "gone"
      <4>1. obj'[k] = cache[k]
        BY <1>0, <1>5, <3>2 DEF Begin, WorkTypeOK
      <4>2. Goto(k, "adopt") \/ Goto(k, "finalize") \/ Goto(k, "commit")
        BY <1>5, <3>2 DEF Begin, FirstStep
      <4>3. pc'[k] \in {"adopt", "finalize", "commit"}
        BY <1>0, <4>2, GoneTo DEF Labels
      <4> QED BY <1>5, <4>1, <4>3 DEF Begin
    <3> QED BY <3>1, <3>2
  <2>2. ~Settled(k)'
    <3>1. CASE cache[k].phase = "gone"
      BY <1>5, <2>1, <3>1 DEF Begin, Settled, PhaseOK
    <3>2. CASE cache[k].phase # "gone"
      <4>1. Goto(k, "adopt") \/ Goto(k, "finalize") \/ Goto(k, "commit")
        BY <1>5, <3>2 DEF Begin, FirstStep
      <4>2. pc'[k] \in {"adopt", "finalize", "commit"}
        BY <1>0, <4>1, GoneTo DEF Labels
      <4> QED BY <4>2 DEF Settled
    <3> QED BY <3>1, <3>2
  <2> QED BY <1>0, <2>1, <2>2, CommitCopies
<1>6. CASE Adopt(k)
  <2>1. CASE Return(k, TRUE) /\ UNCHANGED apiVars
    <3>1. Awaited(k)' /\ pc'[k] = "idle"
      BY <1>0, <2>1, Returned DEF Awaited
    <3>2. obj'[k].spec = First[k]
      BY <1>0, <2>1 DEF Return, WorkTypeOK
    <3> QED BY <1>0, <2>1, <3>1, <3>2, CommitCopies DEF Settled, Awaited
  <2>2. CASE /\ Store(k, [cr[k] EXCEPT !.phase = "managed"])
             /\ obj' = [obj EXCEPT ![k] = cr'[k]] /\ Goto(k, FirstStep(k, cr[k].spec))
    <3>1. [cr[k] EXCEPT !.phase = "managed"] \in Object(k)
      BY <1>0, CopyTypes
    <3>2. [cr[k] EXCEPT !.phase = "managed"].spec = cr[k].spec
      BY <1>0, FieldsOf
    <3>3. cr'[k].spec = cr[k].spec /\ cache' = cache
      BY <1>0, <2>2, <3>1, <3>2, Touched
    <3>4. obj'[k].spec = cr[k].spec
      BY <1>0, <2>2, <3>3 DEF WorkTypeOK
    <3>5. pc'[k] = "commit"
      <4>1. Goto(k, "commit") /\ "commit" \in Labels
        BY <2>2 DEF FirstStep, Labels
      <4> QED BY <1>0, <4>1, GoneTo
    <3> QED BY <1>0, <3>3, <3>4, <3>5, CommitCopies DEF Settled
  <2> QED BY <1>6, <2>1, <2>2 DEF Adopt
<1> QED BY <1>1, <1>2, <1>3, <1>4, <1>5, <1>6

\* A pass that is over has written the status of the last version or will be followed.
LEMMA CommitReturn ==
    ASSUME NumberedAlike, TypeInv, NEW k \in Keys, Kind(k) = "commit", PhaseOK(k), CommitOK(k),
           Grows, Finalize(k) \/ Fail(k) \/ Finish(k)
    PROVE  CommitOK(k)'
<1>0. /\ ApiTypeOK /\ WorkTypeOK /\ cr[k] \in Object(k) /\ First[k].seq = 1
      /\ Blank(k).spec = First[k] /\ committed' = committed
  BY DEF TypeInv, ApiTypeOK, NumberedAlike, Blank, Finalize, Fail, Finish
<1>1. PICK r \in BOOLEAN : Return(k, r)
  BY DEF Finalize, Fail, Finish, Write
<1>2. pc'[k] = "idle" /\ obj'[k].spec = First[k]
  <2>1. obj'[k] = Blank(k)
    BY <1>0, <1>1 DEF Return, WorkTypeOK
  <2> QED BY <1>0, <1>1, <2>1, Returned
<1>3. UNCHANGED apiVars \/ \E o \in Object(k) :
          /\ Store(k, o) /\ o.spec = cr[k].spec
          /\ cr[k].phase = "gone" => o.phase = "gone"
  <2>1. CASE Finalize(k)
    <3> DEFINE o == [cr[k] EXCEPT !.phase = "gone"]
    <3>1. o \in Object(k) /\ o.spec = cr[k].spec /\ o.phase = "gone"
      BY <1>0 DEF Object
    <3> QED BY <2>1, <3>1 DEF Finalize
  <2>2. CASE Fail(k) /\ ~Finalize(k)
    <3> DEFINE o == [cr[k] EXCEPT !.status = IF obj[k].status = "Failed" THEN @ ELSE "Failed"]
    <3>1. o \in Object(k) /\ o.spec = cr[k].spec /\ o.phase = cr[k].phase
      BY <1>0 DEF Object
    <3> QED BY <2>2, <3>1 DEF Fail
  <2>3. CASE Finish(k) /\ ~Finalize(k)
    <3> DEFINE o == [cr[k] EXCEPT !.status = "Running", !.report = cr[k].report]
    <3>1. o \in Object(k) /\ o.spec = cr[k].spec /\ o.phase = cr[k].phase
      BY <1>0 DEF Object
    <3> QED BY <2>3, <3>1 DEF Finish, Write
  <2> QED BY <2>1, <2>2, <2>3
<1>4. cr'[k].spec = cr[k].spec /\ cache' = cache
  <2>1. CASE UNCHANGED apiVars
    BY <2>1
  <2>2. ASSUME NEW o \in Object(k), Store(k, o), o.spec = cr[k].spec
        PROVE  cr'[k].spec = cr[k].spec /\ cache' = cache
    BY <1>0, <2>2, Touched
  <2> QED BY <1>3, <2>1, <2>2
<1>5. ~Awaited(k)' => ~Awaited(k) /\ cr'[k] = cr[k]
  <2>1. UNCHANGED apiVars \/ \E o \in Object(k) :
            Store(k, o) /\ (cr[k].phase = "gone" => o.phase = "gone")
    BY <1>3
  <2> QED BY <1>1, <2>1, LinkedReturn
<1>6. Settled(k)' => cr'[k].spec.seq <= Len(committed')
  <2>1. CASE Finish(k)
    <3>1. ~Awaited(k)' => obj[k].spec = cr[k].spec /\ obj[k].spec.seq <= Len(committed)
      BY <1>5, <2>1 DEF Finish, PhaseOK, CommitOK
    <3> QED BY <1>0, <1>4, <3>1 DEF Settled, Awaited
  <2>2. CASE Return(k, TRUE)
    BY <1>0, <2>2, Returned DEF Settled
  <2>3. CASE Finalize(k) /\ ~Return(k, TRUE)
    <3>1. PICK o \in Object(k) : Store(k, o) /\ o.phase = "gone"
      <4>1. [cr[k] EXCEPT !.phase = "gone"] \in Object(k) /\ [cr[k] EXCEPT !.phase = "gone"].phase = "gone"
        BY <1>0 DEF Object
      <4> QED BY <2>3, <4>1 DEF Finalize
    <3>2. cr'[k].phase = "gone"
      BY <1>0, <3>1, Touched
    <3> QED BY <3>2 DEF Settled
  <2> QED BY <2>1, <2>2, <2>3 DEF Fail
<1> QED BY <1>0, <1>2, <1>4, <1>6, CommitCopies

\* A definition that is no longer the next one, or that is committed now, is committed.
LEMMA CommitCalling ==
    ASSUME NumberedAlike, TypeInv, NEW k \in Keys, Kind(k) = "commit", CommitOK(k), Grows, Calling(k)
    PROVE  CommitOK(k)'
<1>0. FabricTypeOK /\ WorkTypeOK /\ StepOK(k, pc[k]) /\ First[k].seq = 1
  BY DEF TypeInv, NumberedAlike
<1>1. PICK l \in Labels \ {"idle", "adopt"} : Step(k, l)
  BY CallingSteps
<1>2. pc'[k] = l /\ UNCHANGED <<apiVars, copyVars>>
  BY <1>0, <1>1, GoneTo DEF Step
<1>3. SetupFails(k) \/ CommitCC(k)
  <2>1. pc[k] \notin {"package", "install", "queryCommitted", "queryApproved", "approve"}
    BY <1>0 DEF StepOK, CommonSteps, OwnSteps
  <2> QED BY <2>1 DEF Calling, Package, InstallOn, QueryCommitted, QueryApproved, ApproveCC
<1>4. l = "finish" => obj[k].spec.seq <= Len(committed')
  <2>1. "fail" \in Labels /\ (Goto(k, "fail") => pc'[k] = "fail")
    BY <1>0, GoneTo DEF Labels
  <2>2. l = "finish" => ~Step(k, "fail")
    BY <1>2, <2>1 DEF Step
  <2>3. obj[k].spec.seq \in Nat /\ obj[k].spec.seq <= Len(committed) + 1 /\ obj[k].spec.def \in Defs
    BY OfferedTypes DEF CommitOK, Asked
  <2>4. Len(Append(committed, obj[k].spec.def)) = Len(committed) + 1 /\ Len(committed) \in Nat
    BY <1>0, <2>3, AppendProperties, LenProperties DEF FabricTypeOK
  <2> QED BY <1>3, <2>2, <2>3, <2>4 DEF SetupFails, CommitCC
<1> QED BY <1>0, <1>1, <1>2, <1>4, CommitCopies DEF Settled

CommitInv == Numbered /\ \A k \in Keys : CommitOK(k)

LEMMA CommitStep ==
    ASSUME NumberedAlike, TypeInv, Linked, CommitInv, [Next]_vars PROVE CommitInv'
<1>1. CASE UNCHANGED vars
  BY <1>1 DEF CommitInv, Numbered, CommitOK, Asked, Settled, Awaited
<1>2. CASE Next
  <2>1. Grows /\ Numbered'
    BY <1>2, GrowsStep, NumberedStep DEF CommitInv
  <2>2. ASSUME NEW j \in Keys, Kind(j) = "commit" PROVE CommitOK(j)'
    <3>0. CommitOK(j) /\ PhaseOK(j)
      BY DEF CommitInv, Linked
    <3>1. CASE Tick \/ \E o \in Orgs : OtherApproves(o)
      <4>1. Same(j)
        BY <3>1 DEF Tick, OtherApproves, Same
      <4> QED BY <2>1, <3>0, <4>1, CommitSame
    <3>2. CASE Crash
      BY <2>1, <2>2, <3>0, <3>2, CommitOutside
    <3>3. ASSUME NEW k \in Keys \ {j}, Edit(k) \/ Delete(k) \/ CacheSync(k) \/ Reconcile(k)
          PROVE  CommitOK(j)'
      BY <2>1, <3>0, <3>3, Frame, CommitSame
    <3>4. CASE Edit(j) \/ Delete(j) \/ CacheSync(j) \/ Reconcile(j)
      <4>1. ~ReportInstall(j) /\ ~Already(j)
        BY <2>2 DEF TypeInv, StepOK, CommonSteps, OwnSteps, ReportInstall, Already
      <4> QED BY <2>1, <2>2, <3>0, <3>4, <4>1, CommitOutside, CommitReturn, CommitCalling
              DEF Reconcile, Calling
    <3> QED BY <1>2, <3>1, <3>2, <3>3, <3>4 DEF Next
  <2> QED BY <2>1, <2>2 DEF CommitInv, CommitOK
<1> QED BY <1>1, <1>2

\* A commit that has settled has been done, whatever number the channel took for a success,
\* if the users number their definitions alike.
THEOREM CommitDone == ASSUME NumberedAlike PROVE Spec => []CommitRunning
<1>1. Init => CommitInv
  BY CommitInit DEF CommitInv
<1>2. TypeInv /\ Linked /\ CommitInv /\ [Next]_vars => CommitInv'
  BY CommitStep
<1>3. TypeInv /\ CommitInv => CommitRunning
  <2> SUFFICES ASSUME TypeInv, CommitInv, NEW k \in Keys, Kind(k) = "commit", Settled(k)
               PROVE  /\ cr[k].spec.seq <= Len(committed)
                      /\ committed[cr[k].spec.seq] = cr[k].spec.def
    BY DEF CommitRunning
  <2>1. cr[k].spec \in Offered(k) /\ cr[k].spec.seq <= Len(committed) /\ Len(committed) \in Nat
    BY LenProperties DEF CommitInv, CommitOK, Asked, TypeInv, FabricTypeOK
  <2>2. cr[k].spec.seq \in 1..Len(committed)
    BY <2>1, OfferedTypes
  <2> QED BY <2>1, <2>2 DEF CommitInv, Numbered
<1> QED BY <1>1, <1>2, <1>3, SpecLinked, PTL DEF Spec

-----------------------------------------------------------------------------
(* No resource is forgotten.  Only a pass that has written the status Running *)
(* to the last version ends without another pass to come, so what is at rest  *)
(* is either gone or has settled, and settled means done (InstallReported,    *)
(* ApprovalStands, CommitDone).                                               *)

NoneForgotten ==
    \A k \in Keys : pc[k] = "idle" /\ ~Awaited(k) => cr[k].phase = "gone" \/ Settled(k)

\* A pass that works on the last version works on one that has the finalizer.
RestOK(k) ==
    /\ pc[k] \notin {"idle", "adopt", "finalize"} => Awaited(k) \/ cr[k].phase = "managed"
    /\ pc[k] = "idle" => Awaited(k) \/ cr[k].phase = "gone" \/ Settled(k)

RestInv == \A k \in Keys : RestOK(k)

LEMMA RestInit == ASSUME Init, NEW k \in Keys PROVE RestOK(k)
<1>1. PICK there \in Present :
          /\ cr = [j \in Keys |-> [Blank(j) EXCEPT !.phase = IF j \in there THEN @ ELSE "gone"]]
          /\ queue = there
  BY DEF Init
<1>2. k \in queue \/ cr[k].phase = "gone"
  BY <1>1 DEF Blank
<1> QED BY <1>2 DEF Init, RestOK, Awaited

\* Users, the informer and a restart leave another pass to come.
LEMMA RestOutside ==
    ASSUME NEW k \in Keys, RestOK(k), Edit(k) \/ Delete(k) \/ CacheSync(k) \/ Crash
    PROVE  RestOK(k)'
<1>1. CASE Edit(k) \/ Delete(k)
  <2>1. k \notin synced'
    BY <1>1 DEF Edit, Delete, Touch
  <2> QED BY <2>1 DEF RestOK, Awaited
<1>2. CASE CacheSync(k)
  <2>1. k \in queue'
    BY <1>2 DEF CacheSync
  <2> QED BY <2>1 DEF RestOK, Awaited
<1>3. CASE Crash
  <2>1. pc'[k] = "idle" /\ (k \in queue' \/ cr'[k].phase = "gone")
    BY <1>3 DEF Crash
  <2> QED BY <2>1 DEF RestOK, Awaited
<1> QED BY <1>1, <1>2, <1>3

\* A pass takes up what the cache has, and adopting it makes a new version.
LEMMA RestStart ==
    ASSUME TypeInv, NEW k \in Keys, PhaseOK(k), RestOK(k), Begin(k) \/ Adopt(k)
    PROVE  RestOK(k)'
<1>0. ApiTypeOK /\ WorkTypeOK /\ cr[k] \in Object(k) /\ cache[k] \in Object(k)
  BY DEF TypeInv, ApiTypeOK
<1>1. CASE Begin(k)
  <2>1. UNCHANGED apiVars /\ (Awaited(k)' \/ cache[k] = cr[k])
    BY <1>1 DEF Begin, Awaited, PhaseOK
  <2>2. CASE cache[k].phase = "gone"
    BY <1>1, <2>1, <2>2 DEF Begin, RestOK, PhaseOK
  <2>3. CASE cache[k].phase = "new"
    <3>1. Goto(k, "adopt") /\ "adopt" \in Labels
      BY <1>1, <2>3 DEF Begin, Labels
    <3>2. pc'[k] = "adopt"
      BY <1>0, <3>1, GoneTo
    <3> QED BY <3>2 DEF RestOK
  <2>4. CASE cache[k].phase = "deleting"
    <3>1. Goto(k, "finalize") /\ "finalize" \in Labels
      BY <1>1, <2>4 DEF Begin, Labels
    <3>2. pc'[k] = "finalize"
      BY <1>0, <3>1, GoneTo
    <3> QED BY <3>2 DEF RestOK
  <2>5. CASE cache[k].phase = "managed"
    <3>1. Goto(k, FirstStep(k, cache[k].spec))
      BY <1>1, <2>5 DEF Begin
    <3>2. FirstStep(k, cache[k].spec) \in Labels /\ FirstStep(k, cache[k].spec) # "idle"
      <4>1. cache[k].spec \in SpecsOf(k)
        BY <1>0, CopyTypes
      <4> QED BY <4>1, FirstStepOK, KindOf DEF OwnSteps
    <3>3. pc'[k] # "idle"
      BY <1>0, <3>1, <3>2, GoneTo
    <3> QED BY <2>1, <2>5, <3>3 DEF RestOK
  <2> QED BY <1>0, <2>2, <2>3, <2>4, <2>5 DEF Object
<1>2. CASE Adopt(k)
  <2>1. CASE Return(k, TRUE)
    BY <1>0, <2>1, Returned DEF RestOK, Awaited
  <2>2. CASE /\ k \in objFresh
             /\ Store(k, [cr[k] EXCEPT !.phase = "managed"])
    <3>1. cr[k].phase = "new"
      BY <1>2, <2>2 DEF Adopt, PhaseOK
    <3>2. [cr[k] EXCEPT !.phase = "managed"].phase = "managed"
      BY <1>0, FieldsOf
    <3>3. k \notin synced'
      BY <2>2, <3>1, <3>2 DEF Store, Touch
    <3> QED BY <3>3 DEF RestOK, Awaited
  <2> QED BY <1>2, <2>1, <2>2 DEF Adopt
<1> QED BY <1>1, <1>2

\* A pass that is in the middle of its work leaves the resource as far as it was.
LEMMA RestCalling ==
    ASSUME TypeInv, NEW k \in Keys, RestOK(k), Calling(k) \/ Already(k)
    PROVE  RestOK(k)'
<1>0. ApiTypeOK /\ WorkTypeOK /\ cr[k] \in Object(k) /\ StepOK(k, pc[k])
  BY DEF TypeInv, ApiTypeOK
<1>1. pc[k] \notin {"idle", "adopt", "finalize"}
  <2>1. CASE SetupFails(k)
    <3>1. FirstStep(k, obj[k].spec) \in OwnSteps[Kind(k)]
      BY <1>0, CopyTypes, FirstStepOK DEF WorkTypeOK
    <3> QED BY <2>1, <3>1, KindOf DEF SetupFails, OwnSteps
  <2>2. CASE ~SetupFails(k)
    BY <2>2 DEF Calling, Package, InstallOn, QueryCommitted, QueryApproved, ApproveCC,
                CommitCC, Already
  <2> QED BY <2>1, <2>2
<1>2. CASE Calling(k)
  <2>1. PICK l \in Labels \ {"idle", "adopt"} : Step(k, l)
    BY <1>2, CallingSteps
  <2>2. pc'[k] = l /\ UNCHANGED <<apiVars, queue>>
    BY <1>0, <2>1, GoneTo DEF Step
  <2> QED BY <1>1, <2>2 DEF RestOK, Awaited
<1>3. CASE Already(k)
  <2>1. pc'[k] = "finish" /\ queue' = queue
    BY <1>0, <1>3, GoneTo DEF Already, Labels
  <2>2. CASE UNCHANGED apiVars
    BY <1>1, <2>1, <2>2 DEF RestOK, Awaited
  <2>3. CASE Store(k, [cr[k] EXCEPT !.status = "Running"])
    <3> DEFINE o == [cr[k] EXCEPT !.status = "Running"]
    <3>1. o \in Object(k) /\ o.phase = cr[k].phase
      BY <1>0 DEF Object
    <3>2. cr'[k] = o /\ (k \in synced' => k \in synced)
      BY <1>0, <2>3, <3>1, Touched
    <3> HIDE DEF o
    <3> QED BY <1>1, <2>1, <3>1, <3>2 DEF RestOK, Awaited
  <2> QED BY <1>3, <2>2, <2>3 DEF Already
<1> QED BY <1>2, <1>3

\* A pass ends with an error or, when it has written what the API server has already, for
\* good.
LEMMA RestEnd ==
    ASSUME TypeInv, NEW k \in Keys, PhaseOK(k), RestOK(k),
           Finalize(k) \/ Fail(k) \/ Finish(k) \/ ReportInstall(k)
    PROVE  RestOK(k)'
<1>0. ApiTypeOK /\ WorkTypeOK /\ cr[k] \in Object(k)
  BY DEF TypeInv, ApiTypeOK
<1>1. CASE Return(k, TRUE)
  BY <1>0, <1>1, Returned DEF RestOK, Awaited
<1>2. CASE Finalize(k) /\ ~Return(k, TRUE)
  <2> DEFINE o == [cr[k] EXCEPT !.phase = "gone"]
  <2>1. o \in Object(k) /\ o.phase = "gone"
    BY <1>0 DEF Object
  <2>2. Return(k, FALSE) /\ Store(k, o)
    BY <1>2 DEF Finalize
  <2>3. cr'[k] = o
    BY <1>0, <2>1, <2>2, Touched
  <2>4. pc'[k] = "idle"
    BY <1>0, <2>2, Returned
  <2> HIDE DEF o
  <2> QED BY <2>1, <2>3, <2>4 DEF RestOK
<1>3. CASE (Finish(k) \/ ReportInstall(k)) /\ ~Return(k, TRUE)
  <2>1. PICK r \in Report : Write(k, r)
    <3>1. cr[k].report \in Report
      BY <1>0 DEF Object
    <3>2. [pkg |-> work[k].pkg, at |-> second, done |-> work[k].done] \in Report
      BY <1>0 DEF WorkTypeOK, Work, TypeInv, FabricTypeOK, Report
    <3> QED BY <1>3, <3>1, <3>2 DEF Finish, ReportInstall
  <2> DEFINE o == [cr[k] EXCEPT !.status = "Running", !.report = r]
  <2>2. o \in Object(k) /\ o.status = "Running"
    BY <1>0 DEF Object
  <2>3. Return(k, FALSE) /\ Store(k, o)
    BY <1>3, <2>1 DEF Write
  <2>4. cr'[k] = o /\ (k \in synced' => k \in synced /\ cr'[k] = cr[k])
    BY <1>0, <2>2, <2>3, Touched
  <2>5. pc'[k] = "idle" /\ (k \in queue => k \in queue')
    BY <1>0, <2>3, Returned
  <2> HIDE DEF o
  <2>6. pc[k] \in {"finish", "report"}
    BY <1>3 DEF Finish, ReportInstall
  <2>7. ~Awaited(k)' => Settled(k)'
    <3>1. SUFFICES ASSUME ~Awaited(k)' PROVE Settled(k)'
      OBVIOUS
    <3>2. ~Awaited(k) /\ cr'[k] = cr[k]
      BY <2>4, <2>5, <3>1 DEF Awaited
    <3>3. cr[k].phase = "managed"
      BY <2>6, <3>2 DEF RestOK
    <3> QED BY <2>2, <2>4, <2>5, <3>1, <3>2, <3>3 DEF Settled, Awaited
  <2> QED BY <2>5, <2>7 DEF RestOK
<1> QED BY <1>1, <1>2, <1>3 DEF Fail

LEMMA RestStep == TypeInv /\ Linked /\ RestInv /\ [Next]_vars => RestInv'
<1> SUFFICES ASSUME TypeInv, Linked, RestInv, [Next]_vars, NEW j \in Keys
             PROVE  RestOK(j)'
  BY DEF RestInv
<1>0. RestOK(j) /\ PhaseOK(j)
  BY DEF Linked, RestInv
<1>1. CASE UNCHANGED vars
  BY <1>0, <1>1 DEF RestOK, Awaited, Settled
<1>2. CASE Tick \/ \E o \in Orgs : OtherApproves(o)
  BY <1>0, <1>2 DEF Tick, OtherApproves, RestOK, Awaited, Settled
<1>3. CASE Crash
  BY <1>0, <1>3, RestOutside
<1>4. ASSUME NEW k \in Keys \ {j}, Edit(k) \/ Delete(k) \/ CacheSync(k) \/ Reconcile(k)
      PROVE  RestOK(j)'
  <2>1. Same(j)
    BY <1>4, Frame
  <2> QED BY <1>0, <2>1 DEF Same, RestOK, Awaited, Settled
<1>5. CASE Edit(j) \/ Delete(j) \/ CacheSync(j) \/ Reconcile(j)
  BY <1>0, <1>5, RestOutside, RestStart, RestCalling, RestEnd DEF Reconcile, Calling
<1> QED BY <1>1, <1>2, <1>3, <1>4, <1>5 DEF Next

\* A resource that nothing will look at any more is gone or has settled: an install,
\* approval or commit that failed, was changed or lost its worker has another pass to come
\* (Reconcile, updateCRStatusOrFailReconcile).
THEOREM Remembered == Spec => []NoneForgotten
<1>1. Init => RestInv
  BY RestInit DEF RestInv
<1>2. RestInv => NoneForgotten
  BY DEF RestInv, RestOK, NoneForgotten
<1> QED BY <1>1, <1>2, RestStep, SpecLinked, PTL DEF Spec

===============================================================================
