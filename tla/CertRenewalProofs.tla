-------------------------- MODULE CertRenewalProofs --------------------------
(* Theorems about CertRenewal, for every set of nodes and every bound.       *)
EXTENDS CertRenewal, TLAPS

USE DEF At, Goto, NoFault, Fault, vars, apiVars, leaseVars, cacheVars,
        clusterVars, workVars, envVars

-----------------------------------------------------------------------------
(* Type correctness.                                                         *)

\* The blank copy and every copy the operators on copies make is an object.
LEMMA CopyTypes ==
    /\ Blank \in Object
    /\ \A o, a \in Object : Decode(o, a) \in Object
    /\ \A o \in Object, s \in Statuses : [o EXCEPT !.status = s] \in Object
    /\ \A o \in Object, b \in BOOLEAN : /\ [o EXCEPT !.held = b] \in Object
                                        /\ [o EXCEPT !.error = b] \in Object
                                        /\ [o EXCEPT !.due = b] \in Object
                                        /\ [o EXCEPT !.old = b] \in Object
BY DEF Blank, Object, Statuses, Decode

LEMMA StatusOfType ==
    ASSUME TypeOK, NEW n \in Nodes, NEW o \in Object
    PROVE  StatusOf(n, o) \in Object
BY DEF TypeOK, StatusOf, Object

LEMMA StoreType ==
    ASSUME TypeOK, NEW n \in Nodes, NEW o \in Object, Store(n, o)
    PROVE  /\ cr' \in [Nodes -> Object] /\ cache' \in [Nodes -> Object]
           /\ synced' \subseteq Nodes
BY DEF TypeOK, Store

\* Returning, or a failed attempt, keeps the worker's and the queue's types.
WorkTypeOK == /\ queue \subseteq Nodes
              /\ pc \in [Nodes -> Labels]
              /\ obj \in [Nodes -> Object]
              /\ objFresh \subseteq Nodes /\ need \subseteq Nodes
              /\ skip \subseteq Nodes /\ renewing \subseteq Nodes
              /\ tries \in [Nodes -> 0..MaxTries-1]
              /\ spent \in [Nodes -> 0..SectionBound]

LEMMA ReturnType ==
    ASSUME TypeOK, NEW n \in Nodes, NEW r \in BOOLEAN, Return(n, r)
    PROVE  WorkTypeOK'
<1>1. 0 \in 0..MaxTries-1 /\ 0 \in 0..SectionBound
  BY BoundAssumption, TimeAssumption
<1> QED
  BY <1>1, CopyTypes DEF TypeOK, WorkTypeOK, Return, Labels

LEMMA ReturnErrorType ==
    ASSUME TypeOK, NEW n \in Nodes, ReturnError(n), Fault,
           helm' \in [Nodes -> HelmStatuses],
           UNCHANGED <<rolling, applied, expiring>>
    PROVE  TypeOK'
<1>1. WorkTypeOK'
  BY ReturnType DEF ReturnError
<1>2. faults' \in 0..MaxFaults
  BY BoundAssumption DEF TypeOK
<1> QED BY <1>1, <1>2 DEF ReturnError, TypeOK, WorkTypeOK

LEMMA AttemptFailsType ==
    ASSUME TypeOK, NEW n \in Nodes, AttemptFails(n)
    PROVE  WorkTypeOK'
<1>1. CASE tries[n] + 1 < MaxTries
  BY <1>1, BoundAssumption DEF TypeOK, WorkTypeOK, AttemptFails, Labels
<1>2. CASE ~(tries[n] + 1 < MaxTries)
  BY <1>2, ReturnType DEF AttemptFails
<1> QED BY <1>1, <1>2

LEMMA WriteFlagType ==
    ASSUME TypeOK, NEW n \in Nodes, NEW held \in BOOLEAN, NEW next \in Labels,
           WriteFlag(n, held, next)
    PROVE  TypeOK'
<1>1. obj[n] \in Object /\ [obj[n] EXCEPT !.held = held] \in Object
  BY CopyTypes DEF TypeOK
<1>2. StatusOf(n, [obj[n] EXCEPT !.held = held]) \in Object
  BY <1>1, StatusOfType
<1>3. cr' \in [Nodes -> Object] /\ cache' \in [Nodes -> Object] /\ synced' \subseteq Nodes
  BY <1>2, StoreType DEF WriteFlag, TypeOK
<1>4. obj' \in [Nodes -> Object]
  BY <1>1, <1>2 DEF WriteFlag, TypeOK
<1>5. faults' \in 0..MaxFaults /\ edits' \in 0..MaxEdits /\ crashes' \in 0..MaxCrashes
  BY BoundAssumption DEF WriteFlag, TypeOK
<1> QED BY <1>3, <1>4, <1>5 DEF WriteFlag, TypeOK

LEMMA PatchType ==
    ASSUME TypeOK, NEW n \in Nodes, NEW s \in Statuses, PatchStatus(n, s)
    PROVE  /\ cr' \in [Nodes -> Object] /\ cache' \in [Nodes -> Object]
           /\ obj' \in [Nodes -> Object]
           /\ synced' \subseteq Nodes /\ objFresh' \subseteq Nodes
<1>1. [cr[n] EXCEPT !.status = s] \in Object /\ obj[n] \in Object
  BY CopyTypes DEF TypeOK
<1>2. Decode(obj[n], [cr[n] EXCEPT !.status = s]) \in Object
  BY <1>1, CopyTypes
<1> QED BY <1>1, <1>2, StoreType DEF PatchStatus, TypeOK

LEMMA FailType == ASSUME TypeOK, NEW n \in Nodes, Fail(n) PROVE TypeOK'
<1>1. [cr[n] EXCEPT !.status = "Failed"] \in Object /\ obj[n] \in Object
  BY CopyTypes DEF TypeOK, Statuses
<1>2. [Decode(obj[n], [cr[n] EXCEPT !.status = "Failed"]) EXCEPT !.error = FALSE] \in Object
  BY <1>1, CopyTypes
<1>3. [obj[n] EXCEPT !.status = "Failed", !.error = TRUE] \in Object
  BY <1>1 DEF Object, Statuses
<1>4. cr' \in [Nodes -> Object] /\ cache' \in [Nodes -> Object] /\ synced' \subseteq Nodes
  BY <1>1, StoreType DEF Fail, TypeOK
<1>5. obj' \in [Nodes -> Object] /\ objFresh' \subseteq Nodes
  <2>1. CASE obj' = [obj EXCEPT ![n] =
                       [Decode(@, [cr[n] EXCEPT !.status = "Failed"]) EXCEPT !.error = FALSE]]
    BY <1>2, <2>1 DEF Fail, TypeOK
  <2>2. CASE obj' = [obj EXCEPT ![n] = [@ EXCEPT !.status = "Failed", !.error = TRUE]]
    BY <1>3, <2>2 DEF Fail, TypeOK
  <2> QED BY <2>1, <2>2 DEF Fail
<1>6. faults' \in 0..MaxFaults /\ edits' \in 0..MaxEdits /\ crashes' \in 0..MaxCrashes
  BY BoundAssumption DEF Fail, TypeOK
<1> QED BY <1>4, <1>5, <1>6 DEF Fail, TypeOK, Labels

LEMMA FinalType ==
    ASSUME TypeOK, NEW n \in Nodes, NEW s \in Statuses
    PROVE  Final(n, s) \in Object
<1>1. (obj[n].error /\ s # "Failed") \in BOOLEAN /\ [obj[n] EXCEPT !.status = s] \in Object
  BY CopyTypes DEF TypeOK
<1>2. Final(n, s) = [[obj[n] EXCEPT !.status = s]
                        EXCEPT !.error = obj[n].error /\ s # "Failed"]
  BY DEF Final, TypeOK, Object
<1> QED BY <1>1, <1>2, CopyTypes

LEMMA PersistType == ASSUME TypeOK, NEW n \in Nodes, Persist(n) PROVE TypeOK'
<1>1. PICK s \in Statuses : PodStatus(n, s) /\ 
        IF n \in need
        THEN /\ cr' = [cr EXCEPT ![n] = [Final(n, s) EXCEPT !.due = FALSE, !.old = FALSE]]
             /\ cache' = [cache EXCEPT ![n] = [@ EXCEPT !.due = FALSE, !.old = TRUE]]
             /\ synced' = synced \ {n}
             /\ guard' = [guard EXCEPT ![n] = Skew]
             /\ applied' = applied \ {n}
        ELSE Store(n, StatusOf(n, Final(n, s))) /\ UNCHANGED <<guard, applied>>
  BY DEF Persist
<1>2. Final(n, s) \in Object
  BY FinalType
<1>3. /\ [Final(n, s) EXCEPT !.due = FALSE, !.old = FALSE] \in Object
      /\ [cache[n] EXCEPT !.due = FALSE, !.old = TRUE] \in Object
  BY <1>2 DEF TypeOK, Object
<1>4. WorkTypeOK'
  BY ReturnType DEF Persist
<1>5. faults' \in 0..MaxFaults /\ edits' \in 0..MaxEdits /\ crashes' \in 0..MaxCrashes
  BY <1>1, BoundAssumption DEF PodStatus, TypeOK
<1>6. /\ cr' \in [Nodes -> Object] /\ cache' \in [Nodes -> Object]
      /\ synced' \subseteq Nodes /\ applied' \subseteq Nodes
      /\ guard' \in [Nodes -> -1..Skew]
  <2>1. CASE n \in need
    BY <1>1, <1>3, <2>1, TimeAssumption DEF TypeOK
  <2>2. CASE n \notin need
    BY <1>1, <1>2, <2>2, StoreType, StatusOfType DEF TypeOK
  <2> QED BY <2>1, <2>2
<1> QED BY <1>4, <1>5, <1>6 DEF Persist, TypeOK, WorkTypeOK

\* The initial state is of the types.
THEOREM TypeInit == Init => TypeOK
<1> SUFFICES ASSUME Init PROVE TypeOK OBVIOUS
<1>1. /\ 0 \in 0..MaxTries-1 /\ 0 \in 0..SectionBound
      /\ -1 \in -1..Skew /\ -1 \in -1..TTL
  BY BoundAssumption, TimeAssumption
<1> QED BY <1>1, CopyTypes, BoundAssumption DEF Init, TypeOK, HelmStatuses, Labels

\* One step of the environment.
LEMMA TypeEnvironment ==
    ASSUME TypeOK, NEW n \in Nodes, User(n) \/ CacheSync(n) \/ RolloutDone(n)
    PROVE  TypeOK'
<1>1. CASE UserRenew(n)
  <2>1. (cr[n].due \/ guard[n] <= 0) \in BOOLEAN /\ cr[n] \in Object
    BY DEF TypeOK
  <2>2. [cr[n] EXCEPT !.due = @ \/ guard[n] <= 0] \in Object
    BY <2>1, CopyTypes
  <2> QED BY <1>1, <2>2, BoundAssumption DEF UserRenew, Touch, TypeOK
<1>2. CASE EditSpec(n)
  BY <1>2, BoundAssumption DEF EditSpec, Touch, TypeOK
<1>3. CASE CertNearsExpiry(n)
  BY <1>3, BoundAssumption DEF CertNearsExpiry, TypeOK
<1>4. CASE CacheSync(n)
  BY <1>4 DEF CacheSync, TypeOK
<1>5. CASE RolloutDone(n)
  BY <1>5 DEF RolloutDone, TypeOK
<1> QED BY <1>1, <1>2, <1>3, <1>4, <1>5 DEF User

LEMMA TypeTick == ASSUME TypeOK, Tick PROVE TypeOK'
<1>1. lease' \in [holder : Holders \cup {NoHolder}, left : -1..TTL]
  BY TimeAssumption DEF Tick, TypeOK
<1>2. guard' \in [Nodes -> -1..Skew] /\ spent' \in [Nodes -> 0..SectionBound]
  BY TimeAssumption DEF Tick, TypeOK
<1> QED BY <1>1, <1>2 DEF Tick, TypeOK

LEMMA TypeCrash == ASSUME TypeOK, Crash PROVE TypeOK'
<1>1. 0 \in 0..MaxTries-1 /\ 0 \in 0..SectionBound
  BY BoundAssumption, TimeAssumption
<1> QED BY <1>1, CopyTypes, BoundAssumption DEF Crash, TypeOK, Labels

\* One step of the worker that reconciles n.
LEMMA TypeReconcile == ASSUME TypeOK, NEW n \in Nodes, Reconcile(n) PROVE TypeOK'
<1>1. CASE Begin(n)
  BY <1>1 DEF Begin, TypeOK, Labels
<1>2. CASE StartRollback(n)
  <2>1. CASE Fault /\ ReturnError(n)
    BY <1>2, <2>1, ReturnErrorType DEF StartRollback, TypeOK, HelmStatuses
  <2>2. CASE ~(Fault /\ ReturnError(n))
    BY <1>2, <2>2, BoundAssumption DEF StartRollback, TypeOK, Labels, HelmStatuses
  <2> QED BY <2>1, <2>2
<1>3. CASE FinishRollback(n)
  <2>1. CASE Fault /\ ReturnError(n)
    BY <1>3, <2>1, ReturnErrorType DEF FinishRollback, TypeOK, HelmStatuses
  <2>2. CASE ~(Fault /\ ReturnError(n))
    BY <1>3, <2>2, BoundAssumption DEF FinishRollback, TypeOK, Labels, HelmStatuses
  <2> QED BY <2>1, <2>2
<1>4. CASE Decide(n)
  <2>1. CASE Fault /\ ReturnError(n)
    BY <1>4, <2>1, ReturnErrorType DEF Decide, TypeOK, HelmStatuses
  <2>2. CASE ~(Fault /\ ReturnError(n))
    BY <1>4, <2>2, BoundAssumption DEF Decide, TypeOK, Labels, HelmStatuses, AfterRelease
  <2> QED BY <2>1, <2>2
<1>5. CASE ReleaseGet(n)
  BY <1>5, BoundAssumption DEF ReleaseGet, TypeOK, Labels
<1>6. CASE ReleaseWrite(n)
  BY <1>6, BoundAssumption DEF ReleaseWrite, TypeOK, Labels
<1>7. CASE Unflag(n)
  BY <1>7, WriteFlagType DEF Unflag, AfterRelease, Labels
<1>8. CASE AcquireGet(n)
  BY <1>8 DEF AcquireGet, TypeOK, Labels
<1>9. CASE AcquireRefused(n)
  BY <1>9, AttemptFailsType, BoundAssumption DEF AcquireRefused, TypeOK, WorkTypeOK
<1>10. CASE AcquireWrite(n)
  <2>1. lease' \in [holder : Holders \cup {NoHolder}, left : -1..TTL]
    BY <1>10, HolderAssumption, TimeAssumption DEF AcquireWrite
  <2>2. spent' \in [Nodes -> 0..SectionBound]
    BY <1>10, TimeAssumption DEF AcquireWrite, TypeOK
  <2> QED BY <1>10, <2>1, <2>2 DEF AcquireWrite, TypeOK, Labels
<1>11. CASE AcquireWriteFails(n)
  BY <1>11, AttemptFailsType, HolderAssumption, TimeAssumption, BoundAssumption
     DEF AcquireWriteFails, TypeOK, WorkTypeOK
<1>12. CASE Flag(n)
  BY <1>12, WriteFlagType DEF Flag, Labels
<1>13. CASE Mark(n)
  <2>1. CASE PatchStatus(n, "UpdatingCertificates")
    BY <1>13, <2>1, PatchType, BoundAssumption DEF Mark, TypeOK, Labels, Statuses
  <2>2. CASE ~PatchStatus(n, "UpdatingCertificates")
    <3>1. [obj[n] EXCEPT !.status = "UpdatingCertificates"] \in Object
      BY CopyTypes DEF TypeOK, Statuses
    <3> QED BY <1>13, <2>2, <3>1, BoundAssumption DEF Mark, TypeOK, Labels
  <2> QED BY <2>1, <2>2
<1>14. CASE Renew(n)
  BY <1>14, BoundAssumption DEF Renew, TypeOK, Labels, HelmStatuses
<1>15. CASE AwaitDone(n)
  BY <1>15 DEF AwaitDone, TypeOK, Labels, HelmStatuses
<1>16. CASE AwaitFails(n)
  BY <1>16, BoundAssumption DEF AwaitFails, TypeOK, Labels, HelmStatuses
<1>17. CASE Plain(n)
  <2>1. CASE Fault /\ ReturnError(n)
    BY <1>17, <2>1, ReturnErrorType DEF Plain, TypeOK, HelmStatuses
  <2>2. CASE ~(Fault /\ ReturnError(n))
    BY <1>17, <2>2, BoundAssumption DEF Plain, TypeOK, Labels, HelmStatuses
  <2> QED BY <2>1, <2>2
<1>18. CASE PlainDone(n)
  BY <1>18, BoundAssumption DEF PlainDone, TypeOK, Labels, HelmStatuses
<1>19. CASE Persist(n)
  BY <1>19, PersistType
<1>20. CASE PersistSame(n)
  <2>1. WorkTypeOK'
    BY <1>20, ReturnType DEF PersistSame
  <2>2. faults' \in 0..MaxFaults /\ edits' = edits /\ crashes' = crashes
    BY <1>20, BoundAssumption DEF PersistSame, PodStatus, TypeOK
  <2> QED BY <1>20, <2>1, <2>2 DEF PersistSame, TypeOK, WorkTypeOK
<1>21. CASE PersistFails(n)
  BY <1>21, BoundAssumption DEF PersistFails, PodStatus, TypeOK, Labels
<1>22. CASE StateFails(n)
  <2>1. CASE Fault /\ ReturnError(n)
    BY <1>22, <2>1, ReturnErrorType DEF StateFails, TypeOK, HelmStatuses
  <2>2. CASE ~(Fault /\ ReturnError(n))
    BY <1>22, <2>2, BoundAssumption DEF StateFails, TypeOK, Labels, HelmStatuses
  <2> QED BY <2>1, <2>2
<1>23. CASE Fail(n)
  BY <1>23, FailType
<1>24. CASE FailWrite(n)
  <2>1. WorkTypeOK'
    BY <1>24, ReturnType, ModeAssumption DEF FailWrite
  <2>2. StatusOf(n, obj[n]) \in Object
    BY StatusOfType DEF TypeOK
  <2>3. /\ cr' \in [Nodes -> Object] /\ cache' \in [Nodes -> Object]
        /\ synced' \subseteq Nodes
    BY <1>24, <2>2, StoreType DEF FailWrite, TypeOK
  <2>4. faults' \in 0..MaxFaults /\ edits' = edits /\ crashes' = crashes
    <3>1. NoFault \/ Fault
      BY <1>24 DEF FailWrite
    <3> QED BY <3>1, BoundAssumption DEF TypeOK
  <2> QED BY <1>24, <2>1, <2>3, <2>4 DEF FailWrite, TypeOK, WorkTypeOK
<1> QED BY <1>1, <1>2, <1>3, <1>4, <1>5, <1>6, <1>7, <1>8, <1>9, <1>10, <1>11, <1>12,
           <1>13, <1>14, <1>15, <1>16, <1>17, <1>18, <1>19, <1>20, <1>21, <1>22, <1>23, <1>24
        DEF Reconcile, RollBack, Release, Acquire, Upgrade, Record

\* Every copy, label, set and counter keeps its type in every reachable state,
\* for all values of the constants.
THEOREM TypeCorrect == Spec => []TypeOK
<1>1. TypeOK /\ [Next]_vars => TypeOK'
  <2> SUFFICES ASSUME TypeOK, [Next]_vars PROVE TypeOK' OBVIOUS
  <2>1. CASE UNCHANGED vars
    BY <2>1 DEF TypeOK
  <2>2. CASE Next
    BY <2>2, TypeEnvironment, TypeReconcile, TypeTick, TypeCrash DEF Next
  <2> QED BY <2>1, <2>2
<1> QED BY <1>1, TypeInit, PTL DEF Spec

-----------------------------------------------------------------------------
(* Mutual exclusion.  It rests on two facts about a deployment: the nodes    *)
(* have different holder identities, and no node takes longer from acquiring *)
(* the lease to the end of its reconcile than the lease lives.               *)

OwnHolders == \A n, m \in Nodes : HolderOf[n] = HolderOf[m] => n = m
Timely == SectionBound <= TTL

\* A step that leaves the Lease alone: nobody enters the section, those in it stay
\* in it or leave, and no worker gets to a write of the Lease with a current copy.
Quiet ==
    /\ lease' = lease /\ leaseFresh' \subseteq leaseFresh
    /\ renewing' \subseteq renewing
    /\ \A m \in renewing' : spent'[m] = spent[m] /\ pc'[m] \in SectionLabels
    /\ \A m \in leaseFresh' :
          pc'[m] \in {"acquireWrite", "renewWrite", "releaseWrite"} => pc'[m] = pc[m]

LEMMA QuietLock == ASSUME LockInv, Quiet PROVE LockInv'
BY DEF LockInv, Quiet

\* A Lease that is free or has expired is not that of a renewing node.
LEMMA FreeLease ==
    ASSUME TypeOK, LockInv, Timely, lease.holder = NoHolder \/ lease.left < 0
    PROVE  renewing = {}
<1> SUFFICES ASSUME NEW m \in renewing PROVE FALSE OBVIOUS
<1>1. m \in Nodes /\ spent[m] \in 0..SectionBound /\ lease.left \in -1..TTL
  BY DEF TypeOK
<1>2. lease.holder = HolderOf[m] /\ lease.left + spent[m] >= TTL
  BY DEF LockInv
<1>3. HolderOf[m] # NoHolder
  BY <1>1, HolderAssumption
<1> QED BY <1>1, <1>2, <1>3, TimeAssumption DEF Timely

\* The Lease of a node that does not renew is not that of a renewing node either.
LEMMA OwnLease ==
    ASSUME TypeOK, LockInv, OwnHolders, NEW n \in Nodes,
           lease.holder = HolderOf[n], pc[n] \notin SectionLabels
    PROVE  renewing = {}
BY DEF TypeOK, LockInv, OwnHolders

\* Writing the Lease with a current copy: nobody is renewing.
LEMMA CurrentCopy ==
    ASSUME TypeOK, LockInv, OwnHolders, Timely, NEW n \in leaseFresh,
           pc[n] \in {"acquireWrite", "renewWrite", "releaseWrite"}
    PROVE  renewing = {}
<1>1. n \in Nodes /\ pc[n] \notin SectionLabels
  BY DEF TypeOK, SectionLabels
<1>2. CASE pc[n] = "acquireWrite"
  BY <1>2, FreeLease DEF LockInv
<1>3. CASE pc[n] \in {"renewWrite", "releaseWrite"}
  BY <1>1, <1>3, OwnLease DEF LockInv
<1> QED BY <1>2, <1>3

LEMMA QuietReturn ==
    ASSUME TypeOK, LockInv, NEW n \in Nodes, NEW r \in BOOLEAN, Return(n, r),
           UNCHANGED leaseVars
    PROVE  Quiet
BY DEF TypeOK, LockInv, Return, Quiet

\* What a worker does with its node's section and labels when it goes to label l.
LEMMA QuietGoto ==
    ASSUME TypeOK, LockInv, NEW n \in Nodes, NEW l, Goto(n, l),
           UNCHANGED <<lease, renewing, spent>>, leaseFresh' \subseteq leaseFresh,
           l \notin {"acquireWrite", "renewWrite", "releaseWrite"},
           n \in renewing => l \in SectionLabels
    PROVE  Quiet
BY DEF TypeOK, LockInv, Quiet

LEMMA LockReconcile ==
    ASSUME TypeOK, LockInv, OwnHolders, Timely, NEW n \in Nodes, Reconcile(n)
    PROVE  LockInv'
<1> USE DEF SectionLabels
<1>0. pc[n] \notin SectionLabels => n \notin renewing
  BY DEF LockInv
<1>1. CASE Begin(n)
  BY <1>0, <1>1, QuietGoto, QuietLock DEF Begin
<1>2. CASE RollBack(n)
  BY <1>0, <1>2, QuietGoto, QuietReturn, QuietLock
     DEF RollBack, StartRollback, FinishRollback, ReturnError
<1>3. CASE Decide(n)
  BY <1>0, <1>3, QuietGoto, QuietReturn, QuietLock DEF Decide, AfterRelease, ReturnError
<1>4. CASE ReleaseGet(n)
  BY <1>0, <1>4 DEF ReleaseGet, LockInv, TypeOK
<1>5. CASE ReleaseWrite(n)
  <2>1. CASE n \in leaseFresh
    BY <1>5, <2>1, CurrentCopy DEF ReleaseWrite, LockInv, TypeOK
  <2>2. CASE n \notin leaseFresh
    BY <1>0, <1>5, <2>2, QuietGoto, QuietLock DEF ReleaseWrite
  <2> QED BY <2>1, <2>2
<1>6. CASE Unflag(n)
  BY <1>0, <1>6, QuietGoto, QuietLock DEF Unflag, WriteFlag, AfterRelease
<1>7. CASE AcquireGet(n)
  BY <1>0, <1>7 DEF AcquireGet, LockInv, TypeOK
<1>8. CASE AcquireRefused(n)
  BY <1>0, <1>8, QuietGoto, QuietReturn, QuietLock DEF AcquireRefused, AttemptFails
<1>9. CASE AcquireWrite(n)
  <2>1. renewing = {}
    BY <1>9, CurrentCopy DEF AcquireWrite
  <2>2. TTL + 0 >= TTL
    BY TimeAssumption
  <2> QED BY <1>9, <2>1, <2>2 DEF AcquireWrite, LockInv, TypeOK
<1>10. CASE AcquireWriteFails(n)
  <2>1. renewing' \subseteq renewing
    BY <1>10 DEF AcquireWriteFails, AttemptFails, Return
  <2>2. CASE n \in leaseFresh /\ leaseFresh' = {}
    BY <1>10, <2>1, <2>2, CurrentCopy DEF AcquireWriteFails, LockInv
  <2>3. CASE UNCHANGED lease /\ leaseFresh' = leaseFresh \ {n}
    BY <1>0, <1>10, <2>3 DEF AcquireWriteFails, AttemptFails, Return, LockInv, TypeOK
  <2> QED BY <1>10, <2>2, <2>3 DEF AcquireWriteFails
<1>11. CASE Upgrade(n)
  BY <1>11, QuietGoto, QuietLock
     DEF Upgrade, Flag, WriteFlag, Mark, Renew, AwaitDone, AwaitFails
<1>12. CASE Plain(n) \/ PlainDone(n)
  BY <1>0, <1>12, QuietGoto, QuietReturn, QuietLock DEF Plain, PlainDone, ReturnError
<1>13. CASE Record(n)
  BY <1>13, QuietGoto, QuietReturn, QuietLock
     DEF Record, Persist, PersistSame, PersistFails, StateFails, ReturnError
<1>14. CASE Fail(n) \/ FailWrite(n)
  BY <1>14, QuietGoto, QuietReturn, QuietLock, ModeAssumption DEF Fail, FailWrite
<1> QED BY <1>1, <1>2, <1>3, <1>4, <1>5, <1>6, <1>7, <1>8, <1>9, <1>10, <1>11, <1>12,
           <1>13, <1>14 DEF Reconcile, Release, Acquire

LEMMA LockNext ==
    ASSUME TypeOK, LockInv, OwnHolders, Timely, [Next]_vars
    PROVE  LockInv'
<1>1. CASE UNCHANGED vars
  BY <1>1 DEF LockInv
<1>2. CASE \E n \in Nodes : User(n) \/ CacheSync(n) \/ RolloutDone(n)
  BY <1>2 DEF User, UserRenew, EditSpec, Touch, CertNearsExpiry, CacheSync, RolloutDone,
              LockInv
<1>3. CASE \E n \in Nodes : Reconcile(n)
  BY <1>3, LockReconcile
<1>4. CASE Tick
  <2>1. ASSUME NEW m \in renewing PROVE lease'.left + spent'[m] >= TTL
    <3>1. m \in Nodes /\ spent[m] \in Nat /\ lease.left \in -1..TTL
      BY DEF TypeOK
    <3>2. lease.left >= 0
      BY FreeLease, <3>1
    <3> QED BY <1>4, <3>1, <3>2, TimeAssumption DEF Tick, LockInv, TypeOK
  <2>2. lease'.holder = lease.holder /\ (lease.left < 0 => lease'.left < 0)
    BY <1>4 DEF Tick, TypeOK
  <2> QED BY <1>4, <2>1, <2>2 DEF Tick, LockInv
<1>5. CASE Crash
  BY <1>5 DEF Crash, LockInv
<1> QED BY <1>1, <1>2, <1>3, <1>4, <1>5 DEF Next

\* Two nodes never renew at once, and a renewing node keeps the lease: whatever
\* the nodes, the retries, the lost answers and the restarts, as long as holders
\* are distinct and the section is shorter than the lease.
THEOREM Exclusion ==
    ASSUME OwnHolders, Timely
    PROVE  Spec => [](MutualExclusion /\ RenewerHoldsLease)
<1>1. Init => LockInv
  BY DEF Init, LockInv
<1>2. TypeOK /\ LockInv /\ [Next]_vars => LockInv'
  BY LockNext
<1>3. TypeOK /\ LockInv => MutualExclusion /\ RenewerHoldsLease
  <2> SUFFICES ASSUME TypeOK, LockInv PROVE MutualExclusion /\ RenewerHoldsLease
    OBVIOUS
  <2>1. MutualExclusion
    BY DEF TypeOK, LockInv, OwnHolders, MutualExclusion
  <2>2. RenewerHoldsLease
    BY FreeLease DEF TypeOK, LockInv, RenewerHoldsLease
  <2> QED BY <2>1, <2>2
<1> QED BY <1>1, <1>2, <1>3, TypeCorrect, PTL DEF Spec

\* In particular nobody takes over or gives back the lease of a node that renews.
THEOREM LeaseKept == ASSUME OwnHolders, Timely PROVE Spec => []RenewerHoldsLease
BY Exclusion, PTL

-----------------------------------------------------------------------------
(* The lock of RenewalLock.  Serving a node is shown to happen in the node's *)
(* own section, entering it only for a node that wants new certificates.     *)

\* What one reconcile step of n does to the requests when it records none: no copy
\* gains a request, n alone moves.
Keeps(n) ==
    /\ \A m \in Nodes : /\ cr'[m].due = cr[m].due
                        /\ cache'[m].due => cache[m].due
                        /\ obj'[m].due => obj[m].due \/ cr[m].due
                        /\ m # n => pc'[m] = pc[m]
    /\ need' \ {n} = need \ {n} /\ renewing' \ {n} = renewing \ {n}

LEMMA StoreKeeps ==
    ASSUME TypeOK, NEW n \in Nodes, NEW o, Store(n, o), o.due = cr[n].due
    PROVE  cache' = cache /\ \A m \in Nodes : cr'[m].due = cr[m].due
BY DEF TypeOK, Store

LEMMA ReturnKeeps ==
    ASSUME TypeOK, WantInv, NEW n \in Nodes, NEW r \in BOOLEAN, Return(n, r)
    PROVE  /\ \A m \in Nodes : /\ obj'[m].due => obj[m].due
                               /\ m # n => pc'[m] = pc[m]
           /\ pc'[n] = "idle" /\ n \notin need' /\ n \notin renewing'
           /\ need' \ {n} = need \ {n} /\ renewing' \ {n} = renewing \ {n}
BY DEF TypeOK, Return, Blank

LEMMA StatusOfKeeps ==
    ASSUME TypeOK, NEW n \in Nodes, NEW o \in Object
    PROVE  StatusOf(n, o).due = cr[n].due
BY DEF TypeOK, StatusOf, Object

LEMMA KeepsWant ==
    ASSUME TypeOK, WantInv, NEW n \in Nodes, Keeps(n),
           expiring \ {n} \subseteq expiring', NeedPart(n)'
    PROVE  WantInv'
<1> SUFFICES ASSUME NEW m \in Nodes
             PROVE  /\ cache'[m].due => cr'[m].due
                    /\ obj'[m].due => cr'[m].due
                    /\ NeedPart(m)'
  BY DEF WantInv
<1>1. cache'[m].due => cr'[m].due
  BY DEF Keeps, WantInv
<1>2. obj'[m].due => cr'[m].due
  BY DEF Keeps, WantInv
<1>3. CASE m # n
  <2>1. /\ pc'[m] = pc[m] /\ (m \in need' <=> m \in need)
        /\ (m \in renewing' <=> m \in renewing)
    BY <1>3 DEF Keeps
  <2>2. m \in Wanted => m \in Wanted'
    BY <1>3 DEF Keeps, Wanted
  <2> QED BY <1>1, <1>2, <2>1, <2>2 DEF WantInv, NeedPart
<1> QED BY <1>1, <1>2, <1>3

\* Steps that leave every copy alone.
LEMMA SameCopies ==
    ASSUME TypeOK, NEW n \in Nodes, NEW l, Goto(n, l), UNCHANGED <<cr, cache, obj>>,
           need' \ {n} = need \ {n}, renewing' \ {n} = renewing \ {n}
    PROVE  Keeps(n)
BY DEF TypeOK, Keeps

\* Reconcile returns without having written the custom resource.
LEMMA ReturnWant ==
    ASSUME TypeOK, WantInv, NEW n \in Nodes, NEW r \in BOOLEAN, Return(n, r),
           \A m \in Nodes : cr'[m].due = cr[m].due, UNCHANGED cache,
           expiring \ {n} \subseteq expiring'
    PROVE  WantInv'
<1>1. Keeps(n)
  BY ReturnKeeps DEF Keeps
<1>2. NeedPart(n)'
  BY ReturnKeeps DEF NeedPart
<1> QED BY <1>1, <1>2, KeepsWant

LEMMA WriteFlagKeeps ==
    ASSUME TypeOK, WantInv, NEW n \in Nodes, NEW held \in BOOLEAN, NEW next,
           WriteFlag(n, held, next)
    PROVE  Keeps(n) /\ pc' = [pc EXCEPT ![n] = next]
<1>1. obj[n] \in Object /\ [obj[n] EXCEPT !.held = held] \in Object
  BY CopyTypes DEF TypeOK
<1>2. [obj[n] EXCEPT !.held = held].due = obj[n].due
  BY <1>1 DEF Object
<1>3. StatusOf(n, [obj[n] EXCEPT !.held = held]).due = cr[n].due
  BY <1>1, StatusOfKeeps
<1>4. cache' = cache /\ \A m \in Nodes : cr'[m].due = cr[m].due
  BY <1>3, StoreKeeps DEF WriteFlag
<1>5. \A m \in Nodes : obj'[m].due => obj[m].due \/ cr[m].due
  BY <1>2, <1>3 DEF WriteFlag, TypeOK
<1> QED BY <1>4, <1>5 DEF WriteFlag, Keeps, TypeOK

LEMMA PatchKeeps ==
    ASSUME TypeOK, NEW n \in Nodes, NEW s \in Statuses, PatchStatus(n, s)
    PROVE  /\ cache' = cache /\ \A m \in Nodes : cr'[m].due = cr[m].due
           /\ \A m \in Nodes : obj'[m].due => obj[m].due \/ cr[m].due
<1>1. /\ [cr[n] EXCEPT !.status = s] \in Object /\ obj[n] \in Object
      /\ [cr[n] EXCEPT !.status = s].due = cr[n].due
  <2>1. cr[n] \in Object /\ obj[n] \in Object
    BY DEF TypeOK
  <2>2. [cr[n] EXCEPT !.status = s] \in Object
    BY <2>1, CopyTypes
  <2> QED BY <2>1, <2>2 DEF Object
<1>2. Decode(obj[n], [cr[n] EXCEPT !.status = s]).due = cr[n].due
  BY <1>1 DEF Decode, Object
<1> QED BY <1>1, <1>2, StoreKeeps DEF PatchStatus, TypeOK

LEMMA FailKeeps ==
    ASSUME TypeOK, NEW n \in Nodes, Fail(n) PROVE Keeps(n)
<1>1. /\ [cr[n] EXCEPT !.status = "Failed"] \in Object /\ obj[n] \in Object
      /\ [cr[n] EXCEPT !.status = "Failed"].due = cr[n].due
  <2>1. cr[n] \in Object /\ obj[n] \in Object
    BY DEF TypeOK
  <2>2. [cr[n] EXCEPT !.status = "Failed"] \in Object
    BY <2>1, CopyTypes DEF Statuses
  <2> QED BY <2>1, <2>2 DEF Object
<1>2. [Decode(obj[n], [cr[n] EXCEPT !.status = "Failed"]) EXCEPT !.error = FALSE].due
         = cr[n].due
  BY <1>1 DEF Decode, Object
<1>3. [obj[n] EXCEPT !.status = "Failed", !.error = TRUE].due = obj[n].due
  BY <1>1 DEF Object
<1>4. cache' = cache /\ \A m \in Nodes : cr'[m].due = cr[m].due
  BY <1>1, StoreKeeps DEF Fail
<1>5. \A m \in Nodes : obj'[m].due => obj[m].due \/ cr[m].due
  <2>1. CASE obj' = [obj EXCEPT ![n] =
                       [Decode(@, [cr[n] EXCEPT !.status = "Failed"]) EXCEPT !.error = FALSE]]
    BY <1>2, <2>1 DEF TypeOK
  <2>2. CASE obj' = [obj EXCEPT ![n] = [@ EXCEPT !.status = "Failed", !.error = TRUE]]
    BY <1>3, <2>2 DEF TypeOK
  <2> QED BY <2>1, <2>2 DEF Fail
<1> QED BY <1>4, <1>5 DEF Fail, Keeps, TypeOK

\* Recording a renewal takes the request off every copy of n, and of n alone.
LEMMA PersistDue ==
    ASSUME TypeOK, NEW n \in Nodes, Persist(n)
    PROVE  \A m \in Nodes :
              /\ ~(m = n /\ n \in need) => cr'[m].due = cr[m].due
              /\ m = n /\ n \in need => ~cr'[m].due /\ ~cache'[m].due
              /\ cache'[m].due => cache[m].due
<1>1. PICK s \in Statuses :
        IF n \in need
        THEN /\ cr' = [cr EXCEPT ![n] = [Final(n, s) EXCEPT !.due = FALSE, !.old = FALSE]]
             /\ cache' = [cache EXCEPT ![n] = [@ EXCEPT !.due = FALSE, !.old = TRUE]]
        ELSE Store(n, StatusOf(n, Final(n, s)))
  BY DEF Persist
<1>2. Final(n, s) \in Object
  BY FinalType
<1>3. CASE n \in need
  <2>1. /\ [Final(n, s) EXCEPT !.due = FALSE, !.old = FALSE].due = FALSE
        /\ [cache[n] EXCEPT !.due = FALSE, !.old = TRUE].due = FALSE
    BY <1>2 DEF TypeOK, Object
  <2> QED BY <1>1, <1>3, <2>1 DEF TypeOK
<1>4. CASE n \notin need
  BY <1>1, <1>2, <1>4, StatusOfKeeps, StoreKeeps
<1> QED BY <1>3, <1>4

LEMMA PersistWant ==
    ASSUME TypeOK, WantInv, NEW n \in Nodes, Persist(n)
    PROVE  WantInv'
<1>1. Return(n, TRUE)
  BY DEF Persist
<1>2. obj'[n].due = FALSE /\ \A m \in Nodes : m # n => obj'[m] = obj[m] /\ pc'[m] = pc[m]
  BY <1>1 DEF Return, TypeOK, Blank
<1>3. NeedPart(n)'
  BY <1>1, ReturnKeeps DEF NeedPart
<1>4. ASSUME NEW m \in Nodes, m # n
      PROVE  NeedPart(m)'
  <2>1. expiring' = expiring /\ cr'[m].due = cr[m].due
    BY <1>4, PersistDue DEF Persist
  <2>2. NeedPart(m) /\ (m \in Wanted => m \in Wanted')
    BY <2>1 DEF WantInv, Wanted
  <2>3. /\ pc'[m] = pc[m] /\ (m \in need' <=> m \in need)
        /\ (m \in renewing' <=> m \in renewing)
    BY <1>1, <1>2, <1>4 DEF Return
  <2> QED BY <2>2, <2>3 DEF NeedPart
<1>5. \A m \in Nodes : (cache'[m].due => cr'[m].due) /\ (obj'[m].due => cr'[m].due)
  BY <1>2, PersistDue DEF WantInv
<1> QED BY <1>3, <1>4, <1>5 DEF WantInv

\* Every step of a worker keeps WantInv.
LEMMA WantReconcile ==
    ASSUME TypeOK, WantInv, NEW n \in Nodes, Reconcile(n)
    PROVE  WantInv'
<1> USE DEF Labels
<1>0. cache[n].due => cr[n].due
  BY DEF WantInv
<1>a. NeedPart(n)
  BY DEF WantInv
<1>1. CASE Begin(n)
  <2>1. Keeps(n)
    BY <1>0, <1>1 DEF Begin, Keeps, TypeOK
  <2>2. NeedPart(n)'
    BY <1>a, <1>1 DEF Begin, NeedPart, TypeOK
  <2> QED BY <1>1, <2>1, <2>2, KeepsWant DEF Begin
<1>2. CASE RollBack(n)
  <2>1. CASE \E r \in BOOLEAN : Return(n, r)
    BY <1>2, <2>1, ReturnWant
       DEF RollBack, StartRollback, FinishRollback, ReturnError
  <2>2. CASE ~ \E r \in BOOLEAN : Return(n, r)
    <3>1. Keeps(n)
      BY <1>2, <2>2, SameCopies DEF RollBack, StartRollback, FinishRollback, ReturnError
    <3>2. NeedPart(n)'
      BY <1>a, <1>2, <2>2
         DEF RollBack, StartRollback, FinishRollback, ReturnError, NeedPart, TypeOK
    <3> QED BY <1>2, <3>1, <3>2, KeepsWant DEF RollBack, StartRollback, FinishRollback
  <2> QED BY <2>1, <2>2
<1>3. CASE Decide(n)
  <2>1. CASE \E r \in BOOLEAN : Return(n, r)
    BY <1>3, <2>1, ReturnWant DEF Decide, ReturnError
  <2>2. CASE ~ \E r \in BOOLEAN : Return(n, r)
    <3>1. Keeps(n)
      BY <1>3, <2>2, SameCopies DEF Decide, ReturnError
    <3>2. NeedsRenewal(n) => n \in Wanted'
      BY <1>3, <2>2 DEF Decide, ReturnError, NeedsRenewal, Wanted, WantInv
    <3>3. n \notin need
      BY <1>a, <1>3 DEF NeedPart, Decide
    <3>4. NeedPart(n)'
      BY <1>3, <2>2, <3>2, <3>3
         DEF Decide, ReturnError, AfterRelease, NeedPart, TypeOK
    <3> QED BY <1>3, <3>1, <3>4, KeepsWant DEF Decide
  <2> QED BY <2>1, <2>2
<1>4. CASE ReleaseGet(n) \/ ReleaseWrite(n) \/ AcquireGet(n) \/ AcquireWrite(n)
  <2>1. Keeps(n)
    BY <1>4, SameCopies DEF ReleaseGet, ReleaseWrite, AcquireGet, AcquireWrite
  <2>2. NeedPart(n)'
    BY <1>a, <1>4 DEF ReleaseGet, ReleaseWrite, AcquireGet, AcquireWrite, NeedPart,
                      Wanted, TypeOK
  <2> QED BY <1>4, <2>1, <2>2, KeepsWant DEF ReleaseGet, ReleaseWrite, AcquireGet, AcquireWrite
<1>5. CASE Unflag(n)
  <2>1. Keeps(n) /\ pc' = [pc EXCEPT ![n] = AfterRelease(n, n \in need)]
    BY <1>5, WriteFlagKeeps DEF Unflag
  <2>2. NeedPart(n)'
    BY <1>a, <1>5, <2>1 DEF Unflag, WriteFlag, AfterRelease, Keeps, NeedPart, Wanted, TypeOK
  <2> QED BY <1>5, <2>1, <2>2, KeepsWant DEF Unflag, WriteFlag
<1>6. CASE AcquireRefused(n) \/ AcquireWriteFails(n)
  <2>1. CASE Return(n, TRUE)
    BY <1>6, <2>1, ReturnWant DEF AcquireRefused, AcquireWriteFails
  <2>2. CASE ~Return(n, TRUE)
    <3>1. Keeps(n)
      BY <1>6, <2>2, SameCopies DEF AcquireRefused, AcquireWriteFails, AttemptFails
    <3>2. NeedPart(n)'
      BY <1>a, <1>6, <2>2
         DEF AcquireRefused, AcquireWriteFails, AttemptFails, NeedPart, Wanted, TypeOK
    <3> QED BY <1>6, <3>1, <3>2, KeepsWant DEF AcquireRefused, AcquireWriteFails
  <2> QED BY <2>1, <2>2
<1>7. CASE Flag(n)
  <2>1. Keeps(n) /\ pc' = [pc EXCEPT ![n] = "mark"]
    BY <1>7, WriteFlagKeeps DEF Flag
  <2>2. NeedPart(n)'
    BY <1>a, <1>7, <2>1 DEF Flag, WriteFlag, NeedPart, TypeOK
  <2> QED BY <1>7, <2>1, <2>2, KeepsWant DEF Flag, WriteFlag
<1>8. CASE Mark(n)
  <2>1. Keeps(n)
    <3>1. CASE PatchStatus(n, "UpdatingCertificates")
      BY <1>8, <3>1, PatchKeeps DEF Mark, Keeps, TypeOK, Statuses
    <3>2. CASE ~PatchStatus(n, "UpdatingCertificates")
      <4>1. [obj[n] EXCEPT !.status = "UpdatingCertificates"].due = obj[n].due
        BY DEF TypeOK, Object
      <4> QED BY <1>8, <3>2, <4>1 DEF Mark, Keeps, TypeOK
    <3> QED BY <3>1, <3>2
  <2>2. NeedPart(n)'
    BY <1>a, <1>8 DEF Mark, NeedPart, TypeOK
  <2> QED BY <1>8, <2>1, <2>2, KeepsWant DEF Mark
<1>9. CASE Renew(n) \/ AwaitDone(n) \/ AwaitFails(n) \/ PlainDone(n)
  <2>1. Keeps(n)
    BY <1>9, SameCopies DEF Renew, AwaitDone, AwaitFails, PlainDone
  <2>2. pc[n] = "plainAwait" => n \notin need
    BY <1>a DEF NeedPart
  <2>3. NeedPart(n)'
    BY <1>a, <1>9, <2>2 DEF Renew, AwaitDone, AwaitFails, PlainDone, NeedPart, TypeOK
  <2> QED BY <1>9, <2>1, <2>3, KeepsWant DEF Renew, AwaitDone, AwaitFails, PlainDone
<1>10. CASE Plain(n)
  <2>1. CASE \E r \in BOOLEAN : Return(n, r)
    BY <1>10, <2>1, ReturnWant DEF Plain, ReturnError
  <2>2. CASE ~ \E r \in BOOLEAN : Return(n, r)
    <3>1. Keeps(n)
      BY <1>10, <2>2, SameCopies DEF Plain, ReturnError
    <3>2. NeedPart(n)'
      BY <1>a, <1>10, <2>2 DEF Plain, ReturnError, NeedPart, TypeOK
    <3> QED BY <1>10, <3>1, <3>2, KeepsWant DEF Plain
  <2> QED BY <2>1, <2>2
<1>11. CASE Persist(n)
  BY <1>11, PersistWant
<1>12. CASE PersistSame(n)
  BY <1>12, ReturnWant DEF PersistSame
<1>13. CASE PersistFails(n)
  <2>1. Keeps(n)
    BY <1>13, SameCopies DEF PersistFails
  <2>2. NeedPart(n)'
    BY <1>13 DEF PersistFails, NeedPart, TypeOK
  <2> QED BY <1>13, <2>1, <2>2, KeepsWant DEF PersistFails
<1>14. CASE StateFails(n)
  <2>1. CASE \E r \in BOOLEAN : Return(n, r)
    BY <1>14, <2>1, ReturnWant DEF StateFails, ReturnError
  <2>2. CASE ~ \E r \in BOOLEAN : Return(n, r)
    <3>1. Keeps(n)
      BY <1>14, <2>2, SameCopies DEF StateFails, ReturnError
    <3>2. NeedPart(n)'
      BY <1>14, <2>2 DEF StateFails, ReturnError, NeedPart, TypeOK
    <3> QED BY <1>14, <3>1, <3>2, KeepsWant DEF StateFails
  <2> QED BY <2>1, <2>2
<1>15. CASE Fail(n)
  <2>1. NeedPart(n)'
    BY <1>15 DEF Fail, NeedPart, TypeOK
  <2> QED BY <1>15, <2>1, FailKeeps, KeepsWant DEF Fail
<1>16. CASE FailWrite(n)
  <2>1. StatusOf(n, obj[n]).due = cr[n].due
    BY StatusOfKeeps DEF TypeOK
  <2>2. cache' = cache /\ \A m \in Nodes : cr'[m].due = cr[m].due
    BY <1>16, <2>1, StoreKeeps DEF FailWrite
  <2> QED BY <1>16, <2>2, ReturnWant, ModeAssumption DEF FailWrite
<1> QED BY <1>1, <1>2, <1>3, <1>4, <1>5, <1>6, <1>7, <1>8, <1>9, <1>10, <1>11, <1>12,
           <1>13, <1>14, <1>15, <1>16
        DEF Reconcile, Release, Acquire, Upgrade, Record

LEMMA WantEnvironment ==
    ASSUME TypeOK, WantInv, NEW n \in Nodes, User(n) \/ CacheSync(n) \/ RolloutDone(n)
    PROVE  WantInv'
<1>1. CASE UserRenew(n)
  <2>1. /\ cr[n] \in Object /\ (cr[n].due \/ guard[n] <= 0) \in BOOLEAN
    BY DEF TypeOK
  <2>2. [cr[n] EXCEPT !.due = @ \/ guard[n] <= 0].due = (cr[n].due \/ guard[n] <= 0)
    BY <2>1 DEF Object
  <2>3. \A m \in Nodes : cr[m].due => cr'[m].due
    BY <1>1, <2>2 DEF UserRenew, TypeOK
  <2>4. \A m \in Nodes : m \in Wanted => m \in Wanted'
    BY <1>1, <2>3 DEF UserRenew, Wanted
  <2> QED BY <1>1, <2>3, <2>4 DEF UserRenew, Touch, WantInv, NeedPart
<1>2. CASE EditSpec(n) \/ RolloutDone(n)
  BY <1>2 DEF EditSpec, Touch, RolloutDone, WantInv, NeedPart, Wanted
<1>3. CASE CertNearsExpiry(n)
  BY <1>3 DEF CertNearsExpiry, WantInv, NeedPart, Wanted
<1>4. CASE CacheSync(n)
  BY <1>4 DEF CacheSync, WantInv, NeedPart, Wanted, TypeOK
<1> QED BY <1>1, <1>2, <1>3, <1>4 DEF User

LEMMA WantNext == ASSUME TypeOK, WantInv, [Next]_vars PROVE WantInv'
<1>1. CASE UNCHANGED vars
  BY <1>1 DEF WantInv, NeedPart, Wanted
<1>2. CASE \E n \in Nodes : User(n) \/ CacheSync(n) \/ RolloutDone(n)
  BY <1>2, WantEnvironment
<1>3. CASE \E n \in Nodes : Reconcile(n)
  BY <1>3, WantReconcile
<1>4. CASE Tick
  BY <1>4 DEF Tick, WantInv, NeedPart, Wanted
<1>5. CASE Crash
  BY <1>5 DEF Crash, WantInv, NeedPart, Wanted, TypeOK, Blank
<1> QED BY <1>1, <1>2, <1>3, <1>4, <1>5 DEF Next

\* A step that keeps all requests is a stutter of the lock, or a leave.
LEMMA LockLeave ==
    ASSUME TypeOK, MutualExclusion, NEW n \in Nodes,
           Wanted' = Wanted, renewing' = renewing \/ renewing' = renewing \ {n}
    PROVE  [Lock!Next]_<<Wanted, renewing>>
<1>1. renewing' = renewing \/ renewing' = {}
  BY DEF MutualExclusion, TypeOK
<1> QED BY <1>1 DEF Lock!Next, Lock!Leave

\* Only recording a renewal takes a request off the stored object.
LEMMA CopiesKept ==
    ASSUME TypeOK, WantInv, NEW n \in Nodes, Reconcile(n), ~Persist(n)
    PROVE  \A m \in Nodes : cr'[m].due = cr[m].due
<1>1. CASE Unflag(n) \/ Flag(n)
  BY <1>1, WriteFlagKeeps DEF Unflag, Flag, Keeps
<1>2. CASE Mark(n)
  BY <1>2, PatchKeeps DEF Mark, Statuses
<1>3. CASE Fail(n)
  BY <1>3, FailKeeps DEF Keeps
<1>4. CASE FailWrite(n)
  <2>1. StatusOf(n, obj[n]).due = cr[n].due
    BY StatusOfKeeps DEF TypeOK
  <2> QED BY <1>4, <2>1, StoreKeeps DEF FailWrite
<1>5. CASE ~(Unflag(n) \/ Flag(n) \/ Mark(n) \/ Fail(n) \/ FailWrite(n))
  BY <1>5
     DEF Reconcile, Begin, RollBack, StartRollback, FinishRollback, Decide, Release,
         ReleaseGet, ReleaseWrite, Acquire, AcquireGet, AcquireRefused, AcquireWrite,
         AcquireWriteFails, Upgrade, Renew, AwaitDone, AwaitFails, Plain, PlainDone,
         Record, PersistSame, PersistFails, StateFails, ReturnError
<1> QED BY <1>1, <1>2, <1>3, <1>4, <1>5

\* A user's request adds to the requests, and only that of its node.
LEMMA UserRenewDue ==
    ASSUME TypeOK, NEW n \in Nodes, UserRenew(n)
    PROVE  \A m \in Nodes : cr'[m].due = cr[m].due \/ (m = n /\ cr'[m].due)
<1>1. cr[n] \in Object /\ (cr[n].due \/ guard[n] <= 0) \in BOOLEAN
  BY DEF TypeOK
<1>2. [cr[n] EXCEPT !.due = @ \/ guard[n] <= 0].due = (cr[n].due \/ guard[n] <= 0)
  BY <1>1 DEF Object
<1>3. cr'[n].due = (cr[n].due \/ guard[n] <= 0)
  BY <1>2 DEF UserRenew, TypeOK
<1>4. \A m \in Nodes : m # n => cr'[m] = cr[m]
  BY DEF UserRenew, TypeOK
<1>5. CASE cr[n].due \/ guard[n] <= 0
  BY <1>3, <1>4, <1>5
<1>6. CASE ~(cr[n].due \/ guard[n] <= 0)
  BY <1>1, <1>3, <1>4, <1>6 DEF Object
<1> QED BY <1>5, <1>6

LEMMA ReconcileLock ==
    ASSUME TypeOK, LockInv, WantInv, OwnHolders, Timely, MutualExclusion,
           NEW n \in Nodes, Reconcile(n)
    PROVE  [Lock!Next]_<<Wanted, renewing>>
<1>a. NeedPart(n)
  BY DEF WantInv
<1>1. CASE AcquireWrite(n)
  <2>1. renewing = {} /\ renewing' = {n}
    BY <1>1, CurrentCopy DEF AcquireWrite
  <2>2. n \in Wanted /\ Wanted' = Wanted
    BY <1>a, <1>1 DEF AcquireWrite, NeedPart, Wanted
  <2> QED BY <2>1, <2>2 DEF Lock!Next, Lock!Enter
<1>2. CASE Renew(n)
  <2>1. n \in renewing /\ renewing' = renewing
    BY <1>a, <1>2 DEF Renew, NeedPart
  <2>2. Wanted' = Wanted \/ Wanted' = Wanted \ {n}
    BY <1>2 DEF Renew, Wanted
  <2> QED BY <2>1, <2>2 DEF Lock!Next, Lock!Serve
<1>3. CASE Persist(n)
  <2>1. renewing' = renewing \ {n} /\ expiring' = expiring
    BY <1>3 DEF Persist, Return
  <2>2. CASE n \in need
    <3>1. n \in renewing /\ renewing' = {}
      BY <1>a, <1>3, <2>1, <2>2 DEF Persist, NeedPart, MutualExclusion
    <3>2. \A m \in Nodes : cr'[m].due <=> m # n /\ cr[m].due
      BY <1>3, <2>2, PersistDue
    <3>3. CASE n \in expiring
      BY <2>1, <3>1, <3>2, <3>3, LockLeave DEF Wanted
    <3>4. CASE n \notin expiring
      <4>1. Wanted' = Wanted \ {n}
        BY <2>1, <3>2, <3>4 DEF Wanted
      <4> QED BY <3>1, <4>1 DEF Lock!Next, Lock!Serve
    <3> QED BY <3>3, <3>4
  <2>3. CASE n \notin need
    BY <1>3, <2>1, <2>3, PersistDue, LockLeave DEF Wanted
  <2> QED BY <2>2, <2>3
<1>4. CASE FinishRollback(n)
  <2>1. cr' = cr /\ (expiring' = expiring \/ expiring' = expiring \cup {n})
    BY <1>4 DEF FinishRollback, ReturnError
  <2>2. Wanted' = Wanted \/ Wanted' = Wanted \cup {n}
    BY <2>1 DEF Wanted
  <2>3. renewing' = renewing
    BY <1>4 DEF FinishRollback, ReturnError, Return, LockInv, SectionLabels
  <2> QED BY <2>2, <2>3 DEF Lock!Next, Lock!Ask
<1>5. CASE ~(AcquireWrite(n) \/ Renew(n) \/ Persist(n) \/ FinishRollback(n))
  <2>1. expiring' = expiring
    BY <1>5 DEF Reconcile, Begin, RollBack, StartRollback, Decide, Release, ReleaseGet,
          ReleaseWrite, Unflag, Acquire, AcquireGet, AcquireRefused, AcquireWriteFails,
          Upgrade, Flag, WriteFlag, Mark, AwaitDone, AwaitFails, Plain, PlainDone,
          Record, PersistSame, PersistFails, StateFails, Fail, FailWrite
  <2>2. \A m \in Nodes : cr'[m].due = cr[m].due
    BY <1>5, CopiesKept
  <2>3. renewing' = renewing \/ renewing' = renewing \ {n}
    BY <1>5 DEF Reconcile, Begin, RollBack, StartRollback, Decide, Release, ReleaseGet,
          ReleaseWrite, Unflag, Acquire, AcquireGet, AcquireRefused, AcquireWriteFails,
          AttemptFails, Upgrade, Flag, WriteFlag, Mark, AwaitDone, AwaitFails, Plain,
          PlainDone, Record, PersistSame, PersistFails, StateFails, Fail, FailWrite,
          ReturnError, Return
  <2> QED BY <2>1, <2>2, <2>3, LockLeave DEF Wanted
<1> QED BY <1>1, <1>2, <1>3, <1>4, <1>5

LEMMA OthersLock ==
    ASSUME TypeOK, \/ \E n \in Nodes : User(n) \/ CacheSync(n) \/ RolloutDone(n)
                   \/ Tick \/ Crash
    PROVE  [Lock!Next]_<<Wanted, renewing>>
<1>1. ASSUME NEW n \in Nodes, UserRenew(n) PROVE [Lock!Next]_<<Wanted, renewing>>
  <2>1. \A m \in Nodes : cr'[m].due = cr[m].due \/ (m = n /\ cr'[m].due)
    BY <1>1, UserRenewDue
  <2>2. Wanted' = Wanted \/ Wanted' = Wanted \cup {n}
    BY <1>1, <2>1 DEF UserRenew, Wanted
  <2> QED BY <1>1, <2>2 DEF UserRenew, Touch, Lock!Next, Lock!Ask
<1>2. ASSUME NEW n \in Nodes, EditSpec(n) \/ CacheSync(n) \/ RolloutDone(n)
      PROVE  [Lock!Next]_<<Wanted, renewing>>
  BY <1>2 DEF EditSpec, Touch, CacheSync, RolloutDone, Wanted
<1>3. ASSUME NEW n \in Nodes, CertNearsExpiry(n) PROVE [Lock!Next]_<<Wanted, renewing>>
  <2>1. Wanted' = Wanted \cup {n} /\ renewing' = renewing
    BY <1>3 DEF CertNearsExpiry, Wanted
  <2> QED BY <2>1 DEF Lock!Next, Lock!Ask
<1>4. CASE Tick
  BY <1>4 DEF Tick, Wanted
<1>5. CASE Crash
  BY <1>5 DEF Crash, Wanted, Lock!Next, Lock!Leave
<1> QED BY <1>1, <1>2, <1>3, <1>4, <1>5 DEF User

\* The reconcilers with the Lease implement the lock: one node at a time, only
\* nodes that want new certificates, served by their own work alone.
THEOREM Refinement == ASSUME OwnHolders, Timely PROVE Spec => ImplementsLock
<1>1. Init => LockInv /\ WantInv /\ Lock!Init
  BY DEF Init, LockInv, WantInv, NeedPart, Wanted, Blank, Lock!Init
<1>2. TypeOK /\ LockInv /\ WantInv /\ [Next]_vars => LockInv' /\ WantInv'
  BY LockNext, WantNext
<1>3. TypeOK /\ LockInv /\ WantInv /\ MutualExclusion /\ [Next]_vars
         => [Lock!Next]_<<Wanted, renewing>>
  <2> SUFFICES ASSUME TypeOK, LockInv, WantInv, MutualExclusion, [Next]_vars
               PROVE  [Lock!Next]_<<Wanted, renewing>>
    OBVIOUS
  <2>1. CASE UNCHANGED vars
    BY <2>1 DEF Wanted
  <2>2. CASE \E n \in Nodes : Reconcile(n)
    BY <2>2, ReconcileLock
  <2>3. CASE ~ \E n \in Nodes : Reconcile(n)
    BY <2>1, <2>3, OthersLock DEF Next
  <2> QED BY <2>1, <2>2, <2>3
<1> QED BY <1>1, <1>2, <1>3, TypeCorrect, Exclusion, PTL
        DEF Spec, ImplementsLock, Lock!Spec

-----------------------------------------------------------------------------
(* A request is served by the renewal it asked for.  This holds whatever the *)
(* holders and the times: it rests on the copy that records being current.   *)

\* A step of the worker of n leaves what belongs to other nodes alone.
Local(n) ==
    /\ \A m \in Nodes : m # n => pc'[m] = pc[m]
    /\ need' \ {n} = need \ {n} /\ objFresh' \ {n} = objFresh \ {n}
    /\ applied' \ {n} = applied \ {n} /\ rolling' \ {n} = rolling \ {n}

LEMMA ReconcileLocal ==
    ASSUME TypeOK, NEW n \in Nodes, Reconcile(n) PROVE Local(n)
<1> USE DEF Local, TypeOK
<1>1. ASSUME NEW r \in BOOLEAN, Return(n, r),
             applied' \ {n} = applied \ {n}, rolling' \ {n} = rolling \ {n}
      PROVE  Local(n)
  BY <1>1 DEF Return
<1>2. CASE Begin(n) \/ RollBack(n) \/ Decide(n)
  BY <1>1, <1>2 DEF Begin, RollBack, StartRollback, FinishRollback, Decide, ReturnError
<1>3. CASE Release(n)
  BY <1>3 DEF Release, ReleaseGet, ReleaseWrite, Unflag, WriteFlag
<1>4. CASE Acquire(n)
  BY <1>1, <1>4 DEF Acquire, AcquireGet, AcquireRefused, AcquireWrite,
                    AcquireWriteFails, AttemptFails
<1>5. CASE Upgrade(n)
  BY <1>5 DEF Upgrade, Flag, WriteFlag, Mark, PatchStatus, Renew, AwaitDone, AwaitFails
<1>6. CASE Plain(n) \/ PlainDone(n)
  BY <1>1, <1>6 DEF Plain, PlainDone, ReturnError
<1>7. CASE Record(n)
  BY <1>1, <1>7 DEF Record, Persist, PersistSame, PersistFails, StateFails, ReturnError
<1>8. CASE Fail(n) \/ FailWrite(n)
  BY <1>1, <1>8, ModeAssumption DEF Fail, FailWrite
<1> QED BY <1>2, <1>3, <1>4, <1>5, <1>6, <1>7, <1>8 DEF Reconcile

LEMMA AppliedNext ==
    ASSUME TypeOK, WantInv, AppliedInv, [Next]_vars PROVE AppliedInv'
<1>1. CASE UNCHANGED vars
  BY <1>1 DEF AppliedInv
<1>2. CASE \E n \in Nodes : User(n) \/ CacheSync(n) \/ RolloutDone(n)
  BY <1>2 DEF User, UserRenew, EditSpec, Touch, CertNearsExpiry, CacheSync, RolloutDone,
              AppliedInv
<1>3. ASSUME NEW n \in Nodes, Reconcile(n) PROVE AppliedInv'
  <2>1. NeedPart(n)
    BY DEF WantInv
  <2>2. /\ pc'[n] # "await"
        /\ ~(pc'[n] = "persist" /\ n \in need')
        \/ Renew(n) \/ AwaitDone(n)
    <3>1. CASE Begin(n) \/ RollBack(n) \/ Decide(n)
      BY <2>1, <3>1 DEF Begin, RollBack, StartRollback, FinishRollback, Decide, ReturnError,
                 Return, AfterRelease, NeedPart, TypeOK
    <3>2. CASE Release(n)
      BY <3>2 DEF Release, ReleaseGet, ReleaseWrite, Unflag, WriteFlag, AfterRelease, TypeOK
    <3>3. CASE Acquire(n)
      BY <3>3 DEF Acquire, AcquireGet, AcquireRefused, AcquireWrite,
                  AcquireWriteFails, AttemptFails, Return, TypeOK
    <3>4. CASE Flag(n) \/ Mark(n) \/ AwaitFails(n)
      BY <3>4 DEF Flag, WriteFlag, Mark, AwaitFails, TypeOK
    <3>5. CASE Plain(n) \/ PlainDone(n)
      BY <2>1, <3>5 DEF Plain, PlainDone, ReturnError, Return, NeedPart, TypeOK
    <3>6. CASE Record(n)
      BY <3>6 DEF Record, Persist, PersistSame, PersistFails, StateFails, ReturnError,
                  Return, TypeOK
    <3>7. CASE Fail(n) \/ FailWrite(n)
      BY <3>7 DEF Fail, FailWrite, Return, TypeOK
    <3> QED BY <1>3, <3>1, <3>2, <3>3, <3>4, <3>5, <3>6, <3>7 DEF Reconcile, Upgrade
  <2>3. /\ (pc'[n] = "await" \/ (pc'[n] = "persist" /\ n \in need')) /\ n \in objFresh'
              => n \in applied'
        /\ pc'[n] = "persist" /\ n \in need' /\ Wait => n \notin rolling'
    BY <2>2 DEF Renew, AwaitDone, AppliedInv, TypeOK
  <2>4. Local(n)
    BY <1>3, ReconcileLocal
  <2> QED BY <2>3, <2>4 DEF AppliedInv, Local
<1>4. CASE Tick
  BY <1>4 DEF Tick, AppliedInv
<1>5. CASE Crash
  BY <1>5 DEF Crash, AppliedInv
<1> QED BY <1>1, <1>2, <1>3, <1>4, <1>5 DEF Next

\* No request disappears unserved: it goes when the certificates it asked for have
\* been applied by the node's own renewal and, if the upgrade waits, rolled out.
THEOREM Served == Spec => ServedMeansRenewed
<1>1. Init => WantInv /\ AppliedInv
  BY DEF Init, WantInv, NeedPart, AppliedInv, Blank
<1>2. TypeOK /\ WantInv /\ AppliedInv /\ [Next]_vars => WantInv' /\ AppliedInv'
  BY WantNext, AppliedNext
<1>3. TypeOK /\ WantInv /\ AppliedInv /\ [Next]_vars
         => [\A n \in Nodes : cr[n].due /\ ~cr'[n].due =>
               n \in renewing /\ n \in applied /\ (Wait => n \notin rolling)]_vars
  <2> SUFFICES ASSUME TypeOK, WantInv, AppliedInv, Next,
                      NEW n \in Nodes, cr[n].due, ~cr'[n].due
               PROVE  n \in renewing /\ n \in applied /\ (Wait => n \notin rolling)
    OBVIOUS
  <2>1. CASE \E m \in Nodes : Reconcile(m)
    <3>1. PICK m \in Nodes : Reconcile(m)
      BY <2>1
    <3>2. Persist(m)
      BY <3>1, CopiesKept
    <3>3. m = n /\ n \in need
      BY <3>2, PersistDue
    <3> QED BY <3>2, <3>3 DEF WantInv, NeedPart, AppliedInv, Persist
  <2>2. CASE \E m \in Nodes : User(m) \/ CacheSync(m) \/ RolloutDone(m)
    BY <2>2, UserRenewDue DEF User, EditSpec, CertNearsExpiry, CacheSync, RolloutDone
  <2>3. CASE Tick \/ Crash
    BY <2>3 DEF Tick, Crash
  <2> QED BY <2>1, <2>2, <2>3 DEF Next
<1> QED BY <1>1, <1>2, <1>3, TypeCorrect, PTL DEF Spec, ServedMeansRenewed

-----------------------------------------------------------------------------
(* One rollout at a time.  What the lock is for holds as long as nothing goes *)
(* wrong: the operator keeps running, no call fails, the upgrade waits for    *)
(* the pods and they are ready before it gives up.  Then pods roll only       *)
(* while their node awaits its upgrade, with the lease in its hands.          *)

Undisturbed == MaxFaults = 0 /\ MaxCrashes = 0 /\ Wait /\ SectionBound < Timeout

RollPart(n) ==
    /\ n \in rolling => pc[n] = "await"
    /\ helm[n] = "deployed" \/ pc[n] \in {"await", "plainAwait"}
    /\ pc[n] \notin {"rollback", "rollingBack"}
    /\ pc[n] \in {"flag", "mark", "refresh", "await"} => n \in renewing

RollInv == \A n \in Nodes : RollPart(n)

LEMMA NothingFails ==
    ASSUME TypeOK, Undisturbed
    PROVE  ~(faults < MaxFaults) /\ \A n \in Nodes : ~(spent[n] >= Timeout)
BY TimeAssumption, BoundAssumption DEF TypeOK, Undisturbed

\* A step of the worker of n leaves the releases and the leases of the others alone.
LEMMA ReconcileApart ==
    ASSUME TypeOK, NEW n \in Nodes, Reconcile(n), NEW m \in Nodes \ {n}
    PROVE  helm'[m] = helm[m] /\ (m \in renewing' <=> m \in renewing)
<1> USE DEF TypeOK
<1>1. ASSUME NEW r \in BOOLEAN, Return(n, r) PROVE m \in renewing' <=> m \in renewing
  BY <1>1 DEF Return
<1>2. CASE Begin(n) \/ RollBack(n) \/ Decide(n)
  BY <1>1, <1>2 DEF Begin, RollBack, StartRollback, FinishRollback, Decide, ReturnError
<1>3. CASE Release(n)
  BY <1>3 DEF Release, ReleaseGet, ReleaseWrite, Unflag, WriteFlag
<1>4. CASE Acquire(n)
  BY <1>1, <1>4 DEF Acquire, AcquireGet, AcquireRefused, AcquireWrite,
                    AcquireWriteFails, AttemptFails
<1>5. CASE Upgrade(n)
  BY <1>5 DEF Upgrade, Flag, WriteFlag, Mark, PatchStatus, Renew, AwaitDone, AwaitFails
<1>6. CASE Plain(n) \/ PlainDone(n)
  BY <1>1, <1>6 DEF Plain, PlainDone, ReturnError
<1>7. CASE Record(n)
  BY <1>1, <1>7 DEF Record, Persist, PersistSame, PersistFails, StateFails, ReturnError
<1>8. CASE Fail(n) \/ FailWrite(n)
  BY <1>1, <1>8, ModeAssumption DEF Fail, FailWrite
<1> QED BY <1>2, <1>3, <1>4, <1>5, <1>6, <1>7, <1>8 DEF Reconcile

LEMMA RollReconcile ==
    ASSUME TypeOK, Undisturbed, NEW n \in Nodes, RollPart(n), Reconcile(n)
    PROVE  RollPart(n)'
<1>0. ~(faults < MaxFaults) /\ ~(spent[n] >= Timeout) /\ Wait
  BY NothingFails DEF Undisturbed
<1> USE DEF TypeOK, RollPart
<1>1. CASE Begin(n)
  BY <1>1 DEF Begin
<1>2. CASE RollBack(n)
  BY <1>2 DEF RollBack, StartRollback, FinishRollback
<1>3. CASE Decide(n)
  BY <1>0, <1>3 DEF Decide, AfterRelease
<1>4. CASE Release(n)
  BY <1>0, <1>4 DEF Release, ReleaseGet, ReleaseWrite, Unflag, WriteFlag, AfterRelease
<1>5. CASE AcquireGet(n) \/ AcquireWrite(n)
  BY <1>5 DEF AcquireGet, AcquireWrite
<1>6. CASE AcquireRefused(n) \/ AcquireWriteFails(n)
  BY <1>0, <1>6 DEF AcquireRefused, AcquireWriteFails, AttemptFails, Return
<1>7. CASE Flag(n) \/ Mark(n)
  BY <1>0, <1>7 DEF Flag, WriteFlag, Mark
<1>8. CASE Renew(n) \/ AwaitDone(n) \/ AwaitFails(n)
  BY <1>0, <1>8 DEF Renew, AwaitDone, AwaitFails
<1>9. CASE Plain(n) \/ PlainDone(n)
  BY <1>0, <1>9 DEF Plain, PlainDone
<1>10. CASE Record(n)
  BY <1>0, <1>10 DEF Record, Persist, PersistSame, PersistFails, StateFails, Return
<1>11. CASE Fail(n) \/ FailWrite(n)
  BY <1>0, <1>11 DEF Fail, FailWrite, Return
<1> QED BY <1>1, <1>2, <1>3, <1>4, <1>5, <1>6, <1>7, <1>8, <1>9, <1>10, <1>11
        DEF Reconcile, Acquire, Upgrade

LEMMA RollNext == ASSUME TypeOK, Undisturbed, RollInv, [Next]_vars PROVE RollInv'
<1>1. CASE UNCHANGED vars
  BY <1>1 DEF RollInv, RollPart
<1>2. CASE \E n \in Nodes : User(n) \/ CacheSync(n) \/ RolloutDone(n)
  BY <1>2 DEF User, UserRenew, EditSpec, Touch, CertNearsExpiry, CacheSync, RolloutDone,
              RollInv, RollPart
<1>3. ASSUME NEW n \in Nodes, Reconcile(n) PROVE RollInv'
  <2>1. RollPart(n)'
    BY <1>3, RollReconcile DEF RollInv
  <2>2. ASSUME NEW m \in Nodes \ {n} PROVE RollPart(m)'
    <3>1. pc'[m] = pc[m] /\ (m \in rolling' => m \in rolling)
      BY <1>3, ReconcileLocal DEF Local
    <3> QED BY <1>3, <3>1, ReconcileApart DEF RollInv, RollPart
  <2> QED BY <2>1, <2>2 DEF RollInv
<1>4. CASE Tick
  BY <1>4 DEF Tick, RollInv, RollPart
<1>5. ~Crash
  BY DEF Crash, TypeOK, Undisturbed
<1> QED BY <1>1, <1>2, <1>3, <1>4, <1>5 DEF Next

\* Of any number of nodes at most one restarts because of new certificates at a time, if
\* nothing goes wrong: nodes ask, conflict, retry and are edited in any order.
THEOREM OneAtATime ==
    ASSUME OwnHolders, Timely, Undisturbed
    PROVE  Spec => []OneRolloutAtATime
<1>1. Init => RollInv
  BY DEF Init, RollInv, RollPart
<1>2. TypeOK /\ RollInv /\ [Next]_vars => RollInv'
  BY RollNext
<1>3. TypeOK /\ RollInv /\ MutualExclusion => OneRolloutAtATime
  <2>1. TypeOK /\ RollInv => rolling \subseteq renewing
    BY DEF TypeOK, RollInv, RollPart
  <2> QED BY <2>1 DEF MutualExclusion, OneRolloutAtATime
<1> QED BY <1>1, <1>2, <1>3, TypeCorrect, Exclusion, PTL DEF Spec

-----------------------------------------------------------------------------
(* No node is forgotten.  Every return asks for another pass, except that of  *)
(* an orderer whose failure has been recorded.                                *)

\* Nothing is going on with n, and nothing will before somebody changes it.
AtRest(n) == pc[n] = "idle" /\ n \notin queue /\ n \in synced

\* Then n is an orderer, and its status says that it failed.
NoneForgotten == \A n \in Nodes : AtRest(n) => ~IsPeer /\ cr[n].status = "Failed"

\* What is about to be recorded as a failure says so.
RestPart(n) == /\ AtRest(n) => ~IsPeer /\ cr[n].status = "Failed"
               /\ pc[n] = "failWrite" => obj[n].status = "Failed"

RestInv == \A n \in Nodes : RestPart(n)

\* What the rest of a node depends on stays as it is.
RestSame(n) == /\ pc'[n] = pc[n] /\ cr'[n] = cr[n] /\ obj'[n] = obj[n]
               /\ (n \in queue' <=> n \in queue) /\ (n \in synced' <=> n \in synced)

LEMMA RestKept ==
    ASSUME NEW n \in Nodes, RestPart(n), RestSame(n) PROVE RestPart(n)'
BY DEF RestPart, RestSame, AtRest

\* A node that goes on, or is queued when it stops, is not at rest.
LEMMA RestBusy ==
    ASSUME NEW n \in Nodes, pc'[n] # "failWrite", pc'[n] # "idle" \/ n \in queue'
    PROVE  RestPart(n)'
BY DEF RestPart, AtRest

LEMMA ReturnBusy ==
    ASSUME TypeOK, NEW n \in Nodes, Return(n, TRUE)
    PROVE  pc'[n] # "failWrite" /\ n \in queue'
BY DEF Return, TypeOK

LEMMA AttemptBusy ==
    ASSUME TypeOK, NEW n \in Nodes, AttemptFails(n)
    PROVE  pc'[n] # "failWrite" /\ (pc'[n] # "idle" \/ n \in queue')
BY ReturnBusy DEF AttemptFails, TypeOK

\* A step of the worker of n leaves the objects of the others alone.
LEMMA RestApart ==
    ASSUME TypeOK, NEW n \in Nodes, Reconcile(n), NEW m \in Nodes \ {n}
    PROVE  RestSame(m)
<1> USE DEF TypeOK, RestSame
<1>1. ASSUME NEW r \in BOOLEAN, Return(n, r)
      PROVE  pc'[m] = pc[m] /\ obj'[m] = obj[m] /\ (m \in queue' <=> m \in queue)
  BY <1>1 DEF Return
<1>2. ASSUME NEW o, Store(n, o) PROVE cr'[m] = cr[m] /\ (m \in synced' <=> m \in synced)
  BY <1>2 DEF Store
<1>3. CASE Begin(n) \/ RollBack(n) \/ Decide(n)
  <2>1. CASE Begin(n)
    BY <2>1 DEF Begin
  <2>2. CASE RollBack(n)
    BY <1>1, <2>2 DEF RollBack, StartRollback, FinishRollback, ReturnError
  <2>3. CASE Decide(n)
    BY <1>1, <2>3 DEF Decide, ReturnError
  <2> QED BY <1>3, <2>1, <2>2, <2>3
<1>4. CASE Release(n)
  BY <1>2, <1>4 DEF Release, ReleaseGet, ReleaseWrite, Unflag, WriteFlag
<1>5. CASE Acquire(n)
  BY <1>1, <1>5 DEF Acquire, AcquireGet, AcquireRefused, AcquireWrite,
                    AcquireWriteFails, AttemptFails
<1>6. CASE Upgrade(n)
  BY <1>2, <1>6 DEF Upgrade, Flag, WriteFlag, Mark, PatchStatus, Renew, AwaitDone, AwaitFails
<1>7. CASE Plain(n) \/ PlainDone(n)
  BY <1>1, <1>7 DEF Plain, PlainDone, ReturnError
<1>8. CASE Record(n)
  <2>1. CASE Persist(n)
    <3>1. cr'[m] = cr[m] /\ (m \in synced' <=> m \in synced)
      BY <1>2, <2>1 DEF Persist
    <3> QED BY <1>1, <2>1, <3>1 DEF Persist
  <2>2. CASE PersistSame(n) \/ PersistFails(n) \/ StateFails(n)
    BY <1>1, <2>2 DEF PersistSame, PersistFails, StateFails, ReturnError
  <2> QED BY <1>8, <2>1, <2>2 DEF Record
<1>9. CASE Fail(n) \/ FailWrite(n)
  BY <1>1, <1>2, <1>9, ModeAssumption DEF Fail, FailWrite
<1> QED BY <1>3, <1>4, <1>5, <1>6, <1>7, <1>8, <1>9 DEF Reconcile

LEMMA RestReconcile ==
    ASSUME TypeOK, NEW n \in Nodes, RestPart(n), Reconcile(n) PROVE RestPart(n)'
<1> DEFINE Busy == pc'[n] # "failWrite" /\ (pc'[n] # "idle" \/ n \in queue')
<1>1. CASE Begin(n) \/ RollBack(n) \/ Decide(n)
  <2>1. Busy
    BY <1>1, ReturnBusy DEF Begin, RollBack, StartRollback, FinishRollback, Decide,
                            ReturnError, AfterRelease, TypeOK
  <2> QED BY <2>1, RestBusy
<1>2. CASE Release(n)
  <2>1. Busy
    BY <1>2 DEF Release, ReleaseGet, ReleaseWrite, Unflag, WriteFlag, AfterRelease, TypeOK
  <2> QED BY <2>1, RestBusy
<1>3. CASE Acquire(n)
  <2>1. Busy
    BY <1>3, AttemptBusy DEF Acquire, AcquireGet, AcquireRefused, AcquireWrite,
                             AcquireWriteFails, TypeOK
  <2> QED BY <2>1, RestBusy
<1>4. CASE Upgrade(n) \/ Plain(n) \/ PlainDone(n)
  <2>1. Busy
    BY <1>4, ReturnBusy DEF Upgrade, Flag, WriteFlag, Mark, Renew, AwaitDone, AwaitFails,
                            Plain, PlainDone, ReturnError, TypeOK
  <2> QED BY <2>1, RestBusy
<1>5. CASE Record(n)
  <2>1. Busy
    BY <1>5, ReturnBusy DEF Record, Persist, PersistSame, PersistFails, StateFails,
                            ReturnError, TypeOK
  <2> QED BY <2>1, RestBusy
<1>6. CASE Fail(n)
  <2>1. obj'[n].status = "Failed" /\ pc'[n] = "failWrite"
    <3>0. obj[n] \in Object /\ cr[n] \in Object /\ obj \in [Nodes -> Object]
      BY DEF TypeOK
    <3>1. [Decode(obj[n], [cr[n] EXCEPT !.status = "Failed"]) EXCEPT !.error = FALSE].status
             = "Failed"
      BY <3>0 DEF Decode, Object
    <3>2. [obj[n] EXCEPT !.status = "Failed", !.error = TRUE].status = "Failed"
      BY <3>0 DEF Object
    <3>3. pc'[n] = "failWrite"
      BY <1>6 DEF Fail, TypeOK
    <3> QED BY <1>6, <3>0, <3>1, <3>2, <3>3 DEF Fail
  <2> QED BY <2>1 DEF RestPart, AtRest
<1>7. CASE FailWrite(n)
  <2>1. CASE Return(n, TRUE)
    BY <2>1, ReturnBusy, RestBusy
  <2>2. CASE Store(n, StatusOf(n, obj[n])) /\ Return(n, IsPeer)
    <3>1. obj[n].status = "Failed"
      BY <1>7 DEF RestPart, FailWrite
    <3>2. cr'[n].status = "Failed" /\ pc'[n] = "idle"
      BY <2>2, <3>1 DEF Store, StatusOf, Return, TypeOK, Object
    <3>3. IsPeer => n \in queue'
      BY <2>2 DEF Return
    <3> QED BY <3>2, <3>3 DEF RestPart, AtRest
  <2> QED BY <1>7, <2>1, <2>2 DEF FailWrite
<1> QED BY <1>1, <1>2, <1>3, <1>4, <1>5, <1>6, <1>7 DEF Reconcile

LEMMA RestNext == ASSUME TypeOK, RestInv, [Next]_vars PROVE RestInv'
<1> SUFFICES ASSUME NEW m \in Nodes PROVE RestPart(m)'
  BY DEF RestInv
<1>0. RestPart(m)
  BY DEF RestInv
<1>1. CASE UNCHANGED vars
  BY <1>0, <1>1, RestKept DEF RestSame
<1>2. ASSUME NEW n \in Nodes, Reconcile(n) PROVE RestPart(m)'
  <2>1. CASE m = n
    BY <1>0, <1>2, <2>1, RestReconcile
  <2>2. CASE m # n
    BY <1>0, <1>2, <2>2, RestApart, RestKept
  <2> QED BY <2>1, <2>2
<1>3. ASSUME NEW n \in Nodes, UserRenew(n) \/ EditSpec(n) PROVE RestPart(m)'
  <2>1. CASE m = n
    BY <1>0, <1>3, <2>1 DEF UserRenew, EditSpec, Touch, RestPart, AtRest
  <2>2. CASE m # n
    <3>1. RestSame(m)
      BY <1>3, <2>2 DEF UserRenew, EditSpec, Touch, RestSame, TypeOK
    <3> QED BY <1>0, <3>1, RestKept
  <2> QED BY <2>1, <2>2
<1>4. ASSUME NEW n \in Nodes, CacheSync(n) PROVE RestPart(m)'
  <2>1. CASE m = n
    BY <1>0, <1>4, <2>1 DEF CacheSync, RestPart, AtRest
  <2>2. CASE m # n
    <3>1. RestSame(m)
      BY <1>4, <2>2 DEF CacheSync, RestSame
    <3> QED BY <1>0, <3>1, RestKept
  <2> QED BY <2>1, <2>2
<1>5. ASSUME NEW n \in Nodes, CertNearsExpiry(n) \/ RolloutDone(n) PROVE RestPart(m)'
  <2>1. RestSame(m)
    BY <1>5 DEF CertNearsExpiry, RolloutDone, RestSame
  <2> QED BY <1>0, <2>1, RestKept
<1>6. CASE Tick
  <2>1. RestSame(m)
    BY <1>6 DEF Tick, RestSame
  <2> QED BY <1>0, <2>1, RestKept
<1>7. CASE Crash
  BY <1>7, RestBusy DEF Crash
<1> QED BY <1>1, <1>2, <1>3, <1>4, <1>5, <1>6, <1>7 DEF Next, User

\* A renewal that was refused the lease, a failed upgrade, a conflict or a crash never
\* leaves a node that nothing will look at again: a node at rest is an orderer that is
\* reported Failed (updateCRStatusOrFailReconcile returns without a delay for it).
THEOREM Remembered == Spec => []NoneForgotten
<1>1. Init => RestInv
  BY DEF Init, RestInv, RestPart, AtRest
<1>2. TypeOK /\ RestInv /\ [Next]_vars => RestInv'
  BY RestNext
<1>3. RestInv => NoneForgotten
  BY DEF RestInv, RestPart, NoneForgotten
<1> QED BY <1>1, <1>2, <1>3, TypeCorrect, PTL DEF Spec

=============================================================================
