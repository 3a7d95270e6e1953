--------------------------- MODULE ChaincodeLifecycle ---------------------------
(***************************************************************************)
(* From a chaincode package to a committed chaincode definition: the       *)
(* resources FabricChaincodeInstall, FabricChaincodeApprove and            *)
(* FabricChaincodeCommit (controllers/chaincode/install, approve, commit), *)
(* the lifecycle of one chaincode in one Fabric channel, and the peers the *)
(* packages are installed on.                                              *)
(*                                                                         *)
(* The channel is external: committed lists the definitions committed so   *)
(* far, one per sequence number; approved[o][s] is what an organization    *)
(* has approved for sequence number s.  A pass learns from the text of an  *)
(* error that something has been done before.                              *)
(***************************************************************************)
EXTENDS Integers, FiniteSets, Sequences

CONSTANTS
    Orgs,          \* organizations of the channel
    Keys,          \* the resources: <<kind, organization>>
    Present,       \* sets of resources users may create
    Peers,         \* peers packages are installed on
    Defs,          \* contents of definitions: version, policy, collections
    MaxSeq,        \* bound: sequence numbers
    First,         \* of each resource the spec it is created with
    Choices,       \* of each resource the specs users may change it to
    None,          \* nothing approved
    Seconds,       \* bound: seconds a package may be made in
    Faulty,        \* the calls that may fail
    MaxEdits,      \* bound: changes by users
    MaxFaults,     \* bound: failed or unanswered calls
    MaxCrashes,    \* bound: restarts of the operator
    MaxTotal       \* bound: all of these together

Kinds == {"install", "approve", "commit"}
Kind(k) == k[1]
Org(k) == k[2]

\* The package ID is a hash of an archive in which there is the second it was made in.
Packages == 0..(Seconds - 1)
Seqs == 1..MaxSeq
Approval == [def : Defs, pkg : Packages]

\* What the spec of a resource says: the peers to install on; the approval for a sequence
\* number; the definition to be committed as one.
SpecsOf(k) == CASE Kind(k) = "install" -> SUBSET Peers
                [] Kind(k) = "approve" -> [seq : Seqs, def : Defs, pkg : Packages]
                [] Kind(k) = "commit" -> [seq : Seqs, def : Defs]

ASSUME KeyAssumption == Keys \subseteq Kinds \X Orgs /\ Present \subseteq SUBSET Keys
ASSUME SpecAssumption == \A k \in Keys : {First[k]} \cup Choices[k] \subseteq SpecsOf(k)
ASSUME NoneAssumption == None \notin Approval
ASSUME LimitAssumption == /\ {MaxSeq, MaxEdits, MaxFaults, MaxCrashes, MaxTotal} \subseteq Nat
                          /\ Seconds \in Nat \ {0}

VARIABLES
    cr, cache, synced, queue,      \* API server, informer, work queues
    inst,                          \* packages a peer has
    approved, committed,           \* the lifecycle of the chaincode in the channel
    second,                        \* the time, where packages take it from
    pc, obj, objFresh,             \* the worker of each resource
    work,                          \* package, peers left, peers that have it
    edits, faults, crashes         \* what the bounds bound

apiVars == <<cr, cache, synced>>
lifecycleVars == <<approved, committed>>
fabricVars == <<inst, lifecycleVars>>
copyVars == <<obj, objFresh>>
envVars == <<edits, faults, crashes>>
vars == <<apiVars, queue, fabricVars, second, pc, copyVars, work, envVars>>

\* What an install reports: the package, the second its Running condition is of, and
\* the peers that have it.  The other resources report nothing but their status.
Report == [pkg : Packages, at : Packages, done : SUBSET Peers]
NoReport == [pkg |-> 0, at |-> 0, done |-> {}]

Object(k) == [spec : SpecsOf(k), status : {"", "Running", "Failed"}, report : Report,
              phase : {"new", "managed", "deleting", "gone"}]

Blank(k) == [spec |-> First[k], status |-> "", report |-> NoReport, phase |-> "new"]
NoWork == [pkg |-> 0, todo |-> {}, done |-> {}]

Labels == {"idle", "adopt", "finalize", "package", "install", "report", "queryCommitted",
           "queryApproved", "approve", "already", "commit", "fail", "finish"}

Init ==
    /\ \E there \in Present :
           /\ cr = [k \in Keys |-> [Blank(k) EXCEPT !.phase = IF k \in there THEN @ ELSE "gone"]]
           /\ queue = there
    /\ cache = cr /\ synced = Keys
    /\ inst = [p \in Peers |-> {}]
    /\ approved = [o \in Orgs |-> [s \in Seqs |-> None]]
    /\ committed = << >>
    /\ second = 0
    /\ pc = [k \in Keys |-> "idle"] /\ obj = [k \in Keys |-> Blank(k)] /\ objFresh = {}
    /\ work = [k \in Keys |-> NoWork]
    /\ edits = 0 /\ faults = 0 /\ crashes = 0

-----------------------------------------------------------------------------
(* Users, time and the manager around the reconcilers.                     *)

\* A new version of k on the API server; what caches and workers hold is an older one.
Touch(k, o) == cr' = [cr EXCEPT ![k] = o] /\ synced' = synced \ {k} /\ UNCHANGED cache

WithinTotal == edits + faults + crashes < MaxTotal

Edits == WithinTotal /\ edits < MaxEdits /\ edits' = edits + 1 /\ UNCHANGED <<faults, crashes>>

\* A user updates a spec, asking to commit a definition only when the one before has been ...
Edit(k) ==
    /\ Edits /\ cr[k].phase # "gone"
    /\ \E s \in Choices[k] \ {cr[k].spec} :
           /\ Kind(k) = "commit" => s.seq <= Len(committed) + 1
           /\ Touch(k, [cr[k] EXCEPT !.spec = s])
    /\ objFresh' = objFresh \ {k}
    /\ UNCHANGED <<queue, fabricVars, second, pc, obj, work>>

\* ... or deletes a resource.
Delete(k) ==
    /\ Edits /\ cr[k].phase \in {"new", "managed"}
    /\ Touch(k, [cr[k] EXCEPT !.phase = IF @ = "new" THEN "gone" ELSE "deleting"])
    /\ objFresh' = objFresh \ {k}
    /\ UNCHANGED <<queue, fabricVars, second, pc, obj, work>>

\* The informer delivers the last version of k.
CacheSync(k) ==
    /\ k \notin synced /\ synced' = synced \cup {k}
    /\ cache' = [cache EXCEPT ![k] = cr[k]] /\ queue' = queue \cup {k}
    /\ UNCHANGED <<cr, fabricVars, second, pc, copyVars, work, envVars>>

\* An organization that is not run by this operator approves the next definition, once.
OtherApproves(o) ==
    /\ <<"approve", o>> \notin Keys
    /\ Len(committed) < MaxSeq /\ approved[o][Len(committed) + 1] = None
    /\ \E d \in Defs : approved' = [approved EXCEPT ![o][Len(committed) + 1] =
                                         [def |-> d, pkg |-> 0]]
    /\ UNCHANGED <<apiVars, queue, inst, committed, second, pc, copyVars, work, envVars>>

\* Time passes, of which only an install takes notice.
Tick ==
    /\ \E k \in Keys : Kind(k) = "install" /\ cr[k].phase # "gone"
    /\ second + 1 < Seconds /\ second' = second + 1
    /\ UNCHANGED <<apiVars, queue, fabricVars, pc, copyVars, work, envVars>>

\* The operator dies and another instance starts, which lists everything.
Crash ==
    /\ WithinTotal /\ crashes < MaxCrashes /\ crashes' = crashes + 1
    /\ cache' = cr /\ synced' = Keys /\ queue' = {k \in Keys : cr[k].phase # "gone"}
    /\ pc' = [k \in Keys |-> "idle"] /\ obj' = [k \in Keys |-> Blank(k)] /\ objFresh' = {}
    /\ work' = [k \in Keys |-> NoWork]
    /\ UNCHANGED <<cr, fabricVars, second, edits, faults>>

-----------------------------------------------------------------------------
(* The steps the three reconcilers share.                                  *)

Fault(call) == /\ call \in Faulty /\ WithinTotal /\ faults < MaxFaults
               /\ faults' = faults + 1 /\ UNCHANGED <<edits, crashes>>
NoFault == UNCHANGED envVars

\* The API server stores o; an equal object makes no new version.
Store(k, o) == IF o = cr[k] THEN UNCHANGED apiVars ELSE Touch(k, o)

Goto(k, l) == pc' = [pc EXCEPT ![k] = l]

\* Reconcile returns; with an error or a delay the key is added again.
Return(k, requeue) ==
    /\ Goto(k, "idle") /\ queue' = IF requeue THEN queue \cup {k} ELSE queue
    /\ obj' = [obj EXCEPT ![k] = Blank(k)] /\ objFresh' = objFresh \ {k}
    /\ work' = [work EXCEPT ![k] = NoWork]

\* Network configuration, identity and SDK come first and change nothing.
FirstStep(k, spec) == CASE Kind(k) = "install" -> "package"
                        [] Kind(k) = "approve" /\ spec.seq > 1 -> "queryCommitted"
                        [] Kind(k) = "approve" /\ spec.seq = 1 -> "queryApproved"
                        [] Kind(k) = "commit" -> "commit"

Begin(k) ==
    /\ pc[k] = "idle" /\ k \in queue /\ queue' = queue \ {k} /\ NoFault
    /\ IF cache[k].phase = "gone" THEN UNCHANGED <<pc, copyVars>>
       ELSE /\ obj' = [obj EXCEPT ![k] = cache[k]]
            /\ objFresh' = IF k \in synced THEN objFresh \cup {k} ELSE objFresh
            /\ Goto(k, CASE cache[k].phase = "new" -> "adopt"
                         [] cache[k].phase = "deleting" -> "finalize"
                         [] OTHER -> FirstStep(k, cache[k].spec))
    /\ UNCHANGED <<apiVars, fabricVars, second, work>>

\* addFinalizer.
Adopt(k) ==
    /\ pc[k] = "adopt"
    /\ \/ /\ k \in objFresh /\ NoFault
          /\ Store(k, [cr[k] EXCEPT !.phase = "managed"])
          /\ obj' = [obj EXCEPT ![k] = cr'[k]] /\ Goto(k, FirstStep(k, cr[k].spec))
          /\ UNCHANGED <<queue, objFresh, work>>
       \/ /\ (k \notin objFresh /\ NoFault) \/ Fault("update")
          /\ Return(k, TRUE) /\ UNCHANGED apiVars
    /\ UNCHANGED <<fabricVars, second>>

\* Nothing is undone in Fabric: only the finalizer is removed.
Finalize(k) ==
    /\ pc[k] = "finalize"
    /\ \/ /\ k \in objFresh /\ NoFault
          /\ Store(k, [cr[k] EXCEPT !.phase = "gone"]) /\ Return(k, FALSE)
       \/ /\ (k \notin objFresh /\ NoFault) \/ Fault("update")
          /\ Return(k, TRUE) /\ UNCHANGED apiVars
    /\ UNCHANGED <<fabricVars, second>>

Step(k, l) == Goto(k, l) /\ UNCHANGED <<apiVars, queue, copyVars, second>>

\* Network configuration, identity or SDK cannot be had.
SetupFails(k) ==
    /\ pc[k] = FirstStep(k, obj[k].spec) /\ Fault("setup") /\ Step(k, "fail")
    /\ UNCHANGED <<fabricVars, work>>

\* Mutant: a failure is left as it is.
FailOnce(k) ==
    /\ pc[k] = "fail" /\ Return(k, FALSE) /\ NoFault
    /\ Store(k, [cr[k] EXCEPT !.status = "Failed"])
    /\ UNCHANGED <<fabricVars, second>>

\* setConditionStatus and updateCRStatusOrFailReconcile of a failure: a new status is
\* patched, whatever version there is, and the key is added again.
Fail(k) ==
    /\ pc[k] = "fail" /\ Return(k, TRUE)
    /\ \/ Store(k, [cr[k] EXCEPT !.status = IF obj[k].status = "Failed" THEN @ ELSE "Failed"])
          /\ NoFault
       \/ Fault("patch") /\ UNCHANGED apiVars
    /\ UNCHANGED <<fabricVars, second>>

\* updateCRStatusOrFailReconcile of a success: no delay and no retry if the status could
\* be written.
Write(k, report) ==
    \/ /\ k \in objFresh /\ NoFault /\ Return(k, FALSE)
       /\ Store(k, [cr[k] EXCEPT !.status = "Running", !.report = report])
    \/ /\ (k \notin objFresh /\ NoFault) \/ Fault("status")
       /\ Return(k, TRUE) /\ UNCHANGED apiVars

Finish(k) == pc[k] = "finish" /\ Write(k, cr[k].report) /\ UNCHANGED <<fabricVars, second>>

-----------------------------------------------------------------------------
(* FabricChaincodeInstall.                                                 *)

\* generateChaincodePackage.
Package(k) ==
    /\ pc[k] = "package" /\ NoFault
    /\ work' = [work EXCEPT ![k] = [pkg |-> second, todo |-> obj[k].spec, done |-> {}]]
    /\ Step(k, IF obj[k].spec = {} THEN "report" ELSE "install") /\ UNCHANGED fabricVars

\* Mutant: a peer without an answer is listed as installed.
InstallUnheard(k, p) ==
    /\ pc[k] = "install" /\ p \in work[k].todo
    /\ work' = [work EXCEPT ![k].todo = @ \ {p}, ![k].done = @ \cup {p}]
    /\ \/ NoFault /\ inst' = [inst EXCEPT ![p] = @ \cup {work[k].pkg}]
       \/ Fault("install") /\ UNCHANGED inst
    /\ Step(k, IF work[k].todo = {p} THEN "report" ELSE "install")
    /\ UNCHANGED lifecycleVars

\* LifecycleInstallCC on one peer after the other; a peer that fails, or whose answer is
\* lost, is listed as failed.
InstallOn(k, p) ==
    /\ pc[k] = "install" /\ p \in work[k].todo
    /\ \/ /\ NoFault /\ inst' = [inst EXCEPT ![p] = @ \cup {work[k].pkg}]
          /\ work' = [work EXCEPT ![k].todo = @ \ {p}, ![k].done = @ \cup {p}]
       \/ /\ Fault("install") /\ inst' \in {inst, [inst EXCEPT ![p] = @ \cup {work[k].pkg}]}
          /\ work' = [work EXCEPT ![k].todo = @ \ {p}]
    /\ Step(k, IF work[k].todo = {p} THEN "report" ELSE "install")
    /\ UNCHANGED lifecycleVars

\* The status is made anew, Running whichever peers failed, with a condition as of now.
ReportInstall(k) ==
    /\ pc[k] = "report"
    /\ Write(k, [pkg |-> work[k].pkg, at |-> second, done |-> work[k].done])
    /\ UNCHANGED <<fabricVars, second>>

-----------------------------------------------------------------------------
(* FabricChaincodeApprove.                                                 *)

\* LifecycleQueryCommittedCC, from sequence number 2 on.
QueryCommitted(k) ==
    /\ pc[k] = "queryCommitted"
    /\ \/ NoFault /\ committed = << >> /\ Step(k, "fail")
       \/ NoFault /\ obj[k].spec.seq <= Len(committed) /\ Step(k, "finish")
       \/ NoFault /\ Len(committed) \in 1..(obj[k].spec.seq - 1) /\ Step(k, "queryApproved")
       \/ Fault("query") /\ Step(k, "fail")
    /\ UNCHANGED <<fabricVars, work>>

\* Mutant: any approval for the sequence number will do.
QueryNumber(k) ==
    /\ pc[k] = "queryApproved" /\ NoFault
    /\ Step(k, IF approved[Org(k)][obj[k].spec.seq] = None THEN "approve" ELSE "already")
    /\ UNCHANGED <<fabricVars, work>>

\* LifecycleQueryApprovedCC: the package is what is compared.  With an error, be it that
\* nothing is approved, an approval is tried.
QueryApproved(k) ==
    /\ pc[k] = "queryApproved"
    /\ LET a == approved[Org(k)][obj[k].spec.seq]
           same == a # None /\ a.pkg = obj[k].spec.pkg
       IN  \/ same /\ NoFault /\ Step(k, "already")
           \/ ~same /\ NoFault /\ Step(k, "approve")
           \/ Fault("query") /\ Step(k, "approve")
    /\ UNCHANGED <<fabricVars, work>>

\* What the channel answers to an approval of a by o for sequence number s: the number
\* must be the next one or, with the definition that is committed, the last one.
ApprovalError(o, s, a) ==
    CASE s \notin {Len(committed), Len(committed) + 1} -> "sequence"
      [] s = Len(committed) /\ a.def # committed[s] -> "redefine committed"
      [] s = Len(committed) + 1 /\ a = approved[o][s] -> "redefine uncommitted"
      [] OTHER -> ""

\* LifecycleApproveCC: an attempt to redefine something is taken for a success.
ApproveCC(k) ==
    /\ pc[k] = "approve"
    /\ LET o == Org(k)
           s == obj[k].spec.seq
           a == [def |-> obj[k].spec.def, pkg |-> obj[k].spec.pkg]
           e == ApprovalError(o, s, a)
           new == [approved EXCEPT ![o][s] = a]
       IN  \/ e = "" /\ NoFault /\ approved' = new /\ Step(k, "finish")
           \/ e = "" /\ Fault("approve") /\ approved' \in {approved, new} /\ Step(k, "fail")
           \/ /\ e \in {"redefine committed", "redefine uncommitted"} /\ NoFault
              /\ Step(k, "finish") /\ UNCHANGED approved
           \/ e = "sequence" /\ NoFault /\ Step(k, "fail") /\ UNCHANGED approved
    /\ UNCHANGED <<inst, committed, work>>

\* "chaincode already approved": setConditionStatus patches a new status first.
Already(k) ==
    /\ pc[k] = "already" /\ Goto(k, "finish")
    /\ \/ obj[k].status = "Running" /\ NoFault /\ UNCHANGED <<apiVars, copyVars>>
       \/ /\ obj[k].status # "Running" /\ NoFault
          /\ Store(k, [cr[k] EXCEPT !.status = "Running"])
          /\ obj' = [obj EXCEPT ![k] = cr'[k]] /\ objFresh' = objFresh \cup {k}
       \/ obj[k].status # "Running" /\ Fault("patch") /\ UNCHANGED <<apiVars, copyVars>>
    /\ UNCHANGED <<queue, fabricVars, second, work>>

-----------------------------------------------------------------------------
(* FabricChaincodeCommit.                                                  *)

\* A majority of the organizations has approved d for sequence number s.
Agreed(s, d) ==
    2 * Cardinality({o \in Orgs : approved[o][s] # None /\ approved[o][s].def = d})
        > Cardinality(Orgs)

\* Mutant: a definition without a majority is taken for a success, too.
CommitRegardless(k) ==
    /\ pc[k] = "commit" /\ NoFault /\ Step(k, "finish")
    /\ committed' = IF /\ obj[k].spec.seq = Len(committed) + 1
                       /\ Agreed(obj[k].spec.seq, obj[k].spec.def)
                    THEN Append(committed, obj[k].spec.def) ELSE committed
    /\ UNCHANGED <<inst, approved, work>>

\* Mutant: a retry commits once more under the next number.
CommitAgain(k) ==
    /\ pc[k] = "commit" /\ NoFault /\ Step(k, "finish")
    /\ obj[k].spec.seq <= Len(committed) + 1 /\ Agreed(obj[k].spec.seq, obj[k].spec.def)
    /\ committed' = Append(committed, obj[k].spec.def)
    /\ UNCHANGED <<inst, approved, work>>

\* LifecycleCommitCC: any sequence number but the next one is taken for a success.
CommitCC(k) ==
    /\ pc[k] = "commit"
    /\ LET s == obj[k].spec.seq
           d == obj[k].spec.def
           next == s = Len(committed) + 1
       IN  \/ ~next /\ NoFault /\ Step(k, "finish") /\ UNCHANGED committed
           \/ /\ next /\ Agreed(s, d) /\ NoFault /\ Step(k, "finish")
              /\ committed' = Append(committed, d)
           \/ /\ next /\ Agreed(s, d) /\ Fault("commit") /\ Step(k, "fail")
              /\ committed' \in {committed, Append(committed, d)}
           \/ next /\ ~Agreed(s, d) /\ NoFault /\ Step(k, "fail") /\ UNCHANGED committed
    /\ UNCHANGED <<inst, approved, work>>

-----------------------------------------------------------------------------
Reconcile(k) ==
    \/ Begin(k) \/ Adopt(k) \/ Finalize(k) \/ SetupFails(k) \/ Fail(k) \/ Finish(k)
    \/ Package(k) \/ (\E p \in Peers : InstallOn(k, p)) \/ ReportInstall(k)
    \/ QueryCommitted(k) \/ QueryApproved(k) \/ ApproveCC(k) \/ Already(k)
    \/ CommitCC(k)

Next ==
    \/ Tick \/ Crash \/ \E o \in Orgs : OtherApproves(o)
    \/ \E k \in Keys : Edit(k) \/ Delete(k) \/ CacheSync(k) \/ Reconcile(k)

Spec == Init /\ [][Next]_vars

\* Each controller keeps a worker running and its informer delivering.
FairSpec == Spec /\ \A k \in Keys : WF_vars(Reconcile(k)) /\ WF_vars(CacheSync(k))

-----------------------------------------------------------------------------
(* What must hold.                                                         *)

TypeOK ==
    /\ \A k \in Keys : /\ {cr[k], cache[k], obj[k]} \subseteq Object(k)
                       /\ work[k].todo \cup work[k].done \subseteq Peers
    /\ {synced, queue, objFresh} \subseteq SUBSET Keys
    /\ inst \in [Peers -> SUBSET Packages]
    /\ approved \in [Orgs -> [Seqs -> Approval \cup {None}]]
    /\ committed \in Seq(Defs) /\ Len(committed) <= MaxSeq
    /\ second \in Packages /\ pc \in [Keys -> Labels]
    /\ \A k \in Keys : work[k].pkg \in Packages
    /\ {edits, faults, crashes} \subseteq Nat

\* Everything has been delivered and worked off, and k says that it succeeded.
Settled(k) == /\ pc[k] = "idle" /\ k \notin queue /\ k \in synced
              /\ cr[k].phase = "managed" /\ cr[k].status = "Running"

\* An install that has settled reports peers it is about, which have the package it
\* reports; they are all of them if no call ever failed (Reconcile of
\* chaincode_install_controller.go).
InstallRunning ==
    \A k \in Keys : Kind(k) = "install" /\ Settled(k) =>
        /\ cr[k].report.done \subseteq cr[k].spec
        /\ faults = 0 => cr[k].report.done = cr[k].spec
        /\ \A p \in cr[k].report.done : cr[k].report.pkg \in inst[p]

\* An approval that has settled stands: the organization has approved the package for
\* the sequence number its spec gives now, or that number has been committed, whatever
\* error was taken for a success (Reconcile of chaincode_approve_controller.go).
ApproveRunning ==
    \A k \in Keys : Kind(k) = "approve" /\ Settled(k) =>
        LET s == cr[k].spec.seq
            a == approved[Org(k)][s]
        IN  s <= Len(committed) \/ (a # None /\ a.pkg = cr[k].spec.pkg)

\* A commit that has settled has been done: the definition in its spec is the one
\* committed under its sequence number (Reconcile of chaincode_commit_controller.go,
\* "Chaincode committed").
CommitRunning ==
    \A k \in Keys : Kind(k) = "commit" /\ Settled(k) =>
        /\ cr[k].spec.seq <= Len(committed)
        /\ committed[cr[k].spec.seq] = cr[k].spec.def

\* The users of o ask for the approval of d for sequence number s, and nothing else has
\* been approved for it with the same package; or o, which is run elsewhere, has approved.
Approving(o, s, d) ==
    LET k == <<"approve", o>>
        a == approved[o][s]
    IN  IF k \in Keys
        THEN /\ cr[k].phase \in {"new", "managed"}
             /\ cr[k].spec.seq = s /\ cr[k].spec.def = d
             /\ a # None /\ a.pkg = cr[k].spec.pkg => a.def = d
        ELSE a # None /\ a.def = d

\* The definition of a commit is committed and reported so once a majority asks for its
\* approval, in whatever order the resources are worked on and whatever fails in between.
Achieved(k) ==
    LET s == cr[k].spec.seq
        d == cr[k].spec.def
    IN  /\ cr[k].phase \in {"new", "managed"}
        /\ 2 * Cardinality({o \in Orgs : Approving(o, s, d)}) > Cardinality(Orgs)
        => s <= Len(committed) /\ committed[s] = d /\ cr[k].status = "Running"

Converges == \A k \in Keys : Kind(k) = "commit" => <>[]Achieved(k)
=============================================================================
