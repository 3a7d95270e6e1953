# TLA+ models of the Bevel operator for Hyperledger Fabric

The operator (`src/main.go`) is one Go process that runs a controller per kind of
custom resource: certificate authorities, peers, orderer nodes, channels, chaincodes,
identities and some auxiliary deployments. A controller keeps a resource's cluster in
the state its `spec` describes and reports in its `status`. What makes this hard is
that a reconcile is a sequence of calls to the API server, to Helm, to Fabric nodes
and to the Fabric CA, each of which may fail, be answered late or not at all; that it
reads from an informer cache that lags behind the API server; that ten reconciles of
one kind run at once (`MaxConcurrentReconciles`); and that the process may die between
any two calls. These modules model such sequences and say what must hold anyway.

Contents: [components](#1-components) - [modules](#2-modules-and-plan) -
[how the controllers are modelled](#3-how-a-controller-is-modelled) -
[CertRenewal](#4-certrenewal-and-renewallock) - [Channel](#5-channel-and-channelledger) -
[NodeRelease](#6-noderelease) - [CertificateAuthority](#7-certificateauthority) -
[Identity](#8-identity) - [ChaincodeDeploy](#9-chaincodedeploy-and-conditions) -
[ChaincodeLifecycle](#10-chaincodelifecycle) - [runs](#11-runs) - [proofs](#12-proofs) -
[findings](#13-findings) - [limits](#14-what-is-not-modelled)

## 1. Components

Every controller has the same skeleton: `Get` the resource from the cache, handle
deletion (finalizer), do the work, record the outcome with `setConditionStatus` and
`Status().Update`, and ask to be requeued after a delay, at once (an error), or not.
`PROJECT.json` lists all components with their sources and status.

| component | state it keeps | operations | what is hard | what makes it correct |
|---|---|---|---|---|
| Peer and orderer node, existing release (`peer_controller.go`, `ordnode_controller.go`, `utils/lease.go`) | status, `certRenewalLeaseHeld`, `lastCertificateUpdate`, the `Lease` shared by a kind, the Helm release, the certificates applied | roll back a pending release, decide on renewal, release/acquire the lease, renew, plain upgrade, record the status | ten concurrent workers, cached and live reads mixed, lost answers, restart in the middle of an upgrade | one renewal and one rollout at a time; a request is served only by a renewal and always eventually; a failure is retried |
| The same, install to removal | Helm release, Service, certificates in Secrets, status, finalizer | create the Service, read or enrol certificates, install, wait for the genesis block, upgrade, uninstall | status writes overwritten by a fresh read, branches that disagree about requeues, a restart in the middle of Helm's work | a node keeps its certificate; Running means deployed; nothing is left behind |
| Chart values (`getConfig`, `GetConfig`) | none | spec to values | volume, no state | - |
| Certificate authority (`ca_controller.go`) | root key and certificate secrets, Helm release | read or generate crypto material, install, upgrade | an error when reading is taken for absence | the root of trust never changes once created |
| Main channel (`mainchannel_controller.go`) | the channel in every orderer, its configuration, status | query, create, join orderers, compute the configuration delta, update | joins one by one, the query that decides between create and update, optimistic updates, maintenance mode | one genesis block per channel; Running means that the spec is in force |
| Follower channel (`followerchannel_controller.go`) | the peers' ledgers, the organization's anchor peers | join peers, set anchor peers | read-modify-write of a configuration that other organizations and the main channel change | no organization's anchors are lost; every peer has the channel's genesis |
| Chaincode install / approve / commit | lifecycle state in the peers and the channel | install package, approve, commit | repeated calls whose first answer was lost, errors recognised by their text | commit only after enough approvals; Running means done |
| Chaincode deployment (`chaincode_deploy_controller.go`) | Deployment, Service, TLS secret | create or update, renew certificates | the fact that certificates changed is only known to one pass | pods run with the certificates in the secret |
| Identity (`identity_controller.go`, `provision_certs.go`) | user in the CA, secret with key and certificate | register, enroll, reenroll | crash between registering and keeping the secret | the secret, once written, matches the CA |
| Ordering service | none | marks the resource NOT_SUPPORTED | - | - |
| Vault certificates | none | requests to Vault | - | - |
| Network configuration | none | renders a profile | - | - |
| Consoles, operator API and UI | Helm release | install, upgrade, uninstall | the same skeleton without certificates and without rollbacks | as for nodes |
| Conditions (`pkg/status/conditions.go`) | list of conditions of a status | set, remove, look up | an unchanged condition must not make a new version | at most one condition per type |
| Metrics, CLI, API types, vendored Fabric code, charts, docs | none of their own | - | - | - |

Interaction. The components never call each other. They meet in shared objects: a peer
and an orderer node in the namespace's `Lease` of their kind; the CLI and the
controllers in the custom resources; the main channel, the follower channels and the
chaincode controllers in one Fabric channel; a channel and the orderer nodes in the
admin endpoints; identities, peers and the CA in the CA's user registry.

## 2. Modules and plan

| module | models | composes or implements | theorems |
|---|---|---|---|
| `CertRenewal` | peers or orderer nodes that renew certificates under a lease | implements `RenewalLock` | `CertRenewalProofs` |
| `Channel` | main channel, follower channels and orderers of one channel | composes both controllers; implements `ChannelLedger` | `ChannelProofs` |
| `NodeRelease` | the release of a peer, an orderer node or a console from install to removal | - | `NodeReleaseProofs` |
| `CertificateAuthority` | the release of a CA and its root | - | `CertificateAuthorityProofs` |
| `Identity` | a user of a CA and its Secret | - | `IdentityProofs` |
| `ChaincodeDeploy` | Deployment, Service, Secret and template of a chaincode | uses `Conditions` | `ChaincodeDeployProofs` |
| `ChaincodeLifecycle` | install, approve, commit | composes the three controllers | `ChaincodeLifecycleProofs` |

`MC*` modules give the constants of a module that are not plain sets their values for
TLC; the other modules are checked as they are.

Left on the plan: the credential store vault of `Identity`; an abstract specification of a
Helm release that `NodeRelease` and `CertificateAuthority` both implement.

Parameters are `CONSTANTS` with named assumptions, there is one action per call that changes
state, and no module has a `RECURSIVE` operator.

## 3. How a controller is modelled

* A reconcile is a process with a program counter (`pc`) per resource; a step is one
  call that changes state or reads what another actor can change, so every
  interleaving of workers, users, informer and cluster is there. The work queue never
  gives one key to two workers, hence one process per resource.
* The API server's copy (`cr`), the informer's copy (`cache`) and the worker's copy
  (`obj`) are three variables. Kubernetes' optimistic concurrency is abstracted to the
  sets of copies that are still current (`synced`, `objFresh`, `leaseFresh`): a write
  succeeds exactly when its copy is current, and an `Update` that changes nothing makes no
  new version, as in the API server.
* A failing call is a disjunct of its action, limited by `MaxFaults`. Where an answer
  can be lost after the call took effect, that is a disjunct of its own.
* A restart (`Crash`) clears workers and cache and queues every resource; the cluster
  and the API server keep their state.
* Time is counted down in ticks, only where a duration matters. Elsewhere a delay is a
  flag (`timer`) that adds the key once the worker is idle, or (`CertificateAuthority`,
  `Channel`, `ChaincodeLifecycle`) is no delay at all: that allows more interleavings than
  seconds do.
* Some variables are history: they record that the code did something after which a
  property cannot hold, such as `unread` (a pass enrolled anew because it could not read a
  Secret). Each is named where it is declared, the property says what it leaves out, and
  section 13 what the code does then.
* `MaxTotal` bounds edits, faults and restarts together where one of each is too much.

## 4. CertRenewal and RenewalLock

`CertRenewal.tla` models the reconcile of a peer (`IsPeer = TRUE`) or an orderer node
(`IsPeer = FALSE`) whose Helm release exists. The two functions differ in details only
(which error returns are requeued, what is read live), and the module has one disjunct
where they differ.

| state | in the code |
|---|---|
| `cr[n]`: `status`, `held`, `error`, `due` | `status.status`, `status.certRenewalLeaseHeld`, the error text of the Failed condition, `spec.updateCertificateTime` after `status.lastCertificateUpdate` |
| `guard[n]` | what is left of the five minutes `lastCertificateUpdate` is written into the future |
| `lease`, `leaseFresh` | the `coordination/v1` Lease, and which workers hold its last `resourceVersion` |
| `cache`, `synced`, `queue` | informer cache, its up-to-date entries, work queue |
| `helm`, `rolling`, `applied`, `expiring` | status of the Helm release, nodes whose pods are being replaced, nodes whose certificates were renewed for the open request, nodes whose certificate is near its end |
| `pc`, `obj`, `objFresh`, `need`, `skip`, `tries` | the worker: its label, its copy, whether that is current, `needsRenewal`, "this pass rolled back a pending upgrade", attempts at the lease |
| `renewing`, `spent` | history: who acquired the lease in this pass, and for how long |

| actions | in the code |
|---|---|
| `Begin`, `StartRollback`, `FinishRollback` | cached `Get`, Helm status, rollback of `pending-*` releases |
| `Decide` | live `Get`, comparison of times, `TLSCertCloseToExpire` |
| `ReleaseGet`, `ReleaseWrite`, `Unflag` | `ReleaseLease` and the flag, when the cached status is Running and flagged |
| `AcquireGet`, `AcquireRefused`, `AcquireWrite`, `AcquireWriteFails` | one attempt of `AcquireLease` with its `Get` and its `Update`, and the loop of five attempts |
| `Flag`, `Mark`, `Renew`, `AwaitDone`, `AwaitFails` | flag, UpdatingCertificates, `updateCerts` with the Helm upgrade and its wait |
| `Plain`, `PlainDone` | the upgrade without a renewal |
| `Persist`, `PersistSame`, `PersistFails`, `StateFails` | `GetPeerState` / `GetOrdererState`, the final `Status().Update` and the requeue |
| `Fail`, `FailWrite` | `setConditionStatus(Failed)`, `updateCRStatusOrFailReconcile` |
| `UserRenew`, `EditSpec`, `CertNearsExpiry`, `CacheSync`, `RolloutDone`, `Tick`, `Crash` | the CLI, users, time, informer, cluster, a restart of the operator |

Abstractions. A status of the pods that is none of the modelled ones is left out; the
retries of the lease are steps without their one-second sleep; the informer's resync
every ten hours is left out, so an orderer that is already Failed and fails again with
the same text (`ordnode_controller.go:436`, no requeue and no change of the object)
sleeps until somebody touches it, and liveness of orderers is therefore checked with
one fault. The dereference of a nil time in the peer (`peer_controller.go:444`) is a
recovered panic, seen as an error return.

`RenewalLock.tla` is what the lease is for, seen from outside: `wanted` and `working`,
with `Ask`, `Enter` (only when nobody works), `Serve` (only by the one at work) and
`Leave`. `ImplementsLock` is the refinement with `wanted` = nodes that are due or
near expiry and `working` = `renewing`.

`OrdererLock` and the theorems hold under two conditions the code does not guarantee
and the violation runs drop one at a time: an identity per node (`HolderOf`
injective) and a renewal that ends within the lease (`SectionBound <= TTL`).

## 5. Channel and ChannelLedger

`Channel.tla` models one Fabric channel and everything that manages it: the
`FabricMainChannel` resource (`k = Main`) and a `FabricFollowerChannel` for each
organization in `Followers`, one reconcile process each.

| state | in the code |
|---|---|
| `cr[k]`: `spec`, `status`, `phase` | the resource: what its spec says of the channel, `status.status`, and whether it has its finalizer, is marked for deletion, or is gone |
| `cache`, `synced`, `queue` | informer cache and work queues |
| `ledger[o]`, `chain[g]`, `peer[k]` | external: the genesis block an orderer has joined with, the configuration of the channel that starts with `g`, the channel of an organization's peers |
| `pc`, `obj`, `objFresh` | the worker of `k`: its label, its copy of the resource, whether that is current |
| `block`, `todo` | the block `createNewChannel` made and the orderers `joinOrderers` has yet to ask |
| `seen[k]`, `current[k]` | the configuration block read, and the elements of it no update has changed since |

| actions | in the code |
|---|---|
| `Begin`, `Adopt`, `Finalize`, `Panic` | cached `Get`, `addFinalizer`, deletion; what becomes of a resource that is gone |
| `Query`, `Create`, `Join(o)`, `JoinDone`, `Requery` | `queryConfigBlockFromOrdererWithRoundRobin`, `createNewChannel`, `joinExternalOrderers` and `joinInternalOrderers`, the query afterwards |
| `JoinPeer(k)` | `resClient.JoinChannel` for the follower's peers |
| `Fetch`, `Submit`, `SubmitFails` | the last configuration block; `CalculateConfigUpdate` / `ComputeMarshaledUpdate`; `SaveChannel` |
| `Finish`, `FinishFails`, `Fail` | the ConfigMap, the Running status, `setConditionStatus(Failed)` and the requeue after five minutes |
| `Edit`, `Delete`, `CacheSync`, `Crash` | users, informer, a restart of the operator |

A configuration has four kinds of data: the organizations, their anchor peers, the
channel capabilities and the consensus state. That is what tells the three parts
`updateChannelConfig` applies or leaves out apart (`MainDraft`), and what the two kinds of
resource share. `Changed` and `Reads` say, as `configtxlator/update` computes it, which
elements a delta raises the version of and which versions it relies on; the orderers
(`Applies`, `Updated`) refuse a delta if one of those has changed. Versions
are not numbers: `current[k]` is what worker `k` still knows rightly.

External, from how the code uses it: an orderer answers a query when `ReadQuorum` of the
orderers with its block have joined (1 for BFT or a single consenter; raft consenters
answer once there is a leader) and takes an update when `WriteQuorum` have; a joined
orderer answers a second join with 405; a peer asks one orderer for the genesis block
and says "already exists" the second time. `SaveChannel` that returns has committed:
ordering, the signature policies and Fabric's own rules for maintenance mode are left
out.

`ChannelLedger.tla` is the channel from outside: created once, without anchor peers; the
main channel changes everything but the anchor peers of the organizations that stay, an
organization changes its own. `ImplementsLedger` is the refinement.

## 6. NodeRelease

The life of one Helm release. `kind` says what it belongs to; the three reconcilers
have one skeleton, and the module says where they part: the errors that are reported in
the status rather than returned (`Reported`), the Service only peers have, the genesis block
orderers wait for, the rollbacks and certificates consoles do not have, and what is
requeued after a report. `operatorapi` and `operatorui` are the console's code with other
values and delays.

| state | in the code |
|---|---|
| `cr`, `cache`, `synced`, `queued`, `timer` | the resource (`spec`, `status`, `message`, reason of the condition Failed, certificate in the status, finalizer and deletion as `phase`), informer, work queue, `RequeueAfter` |
| `release`, `before`, `deployed` | external: Helm's last revision with its status, the values of the one before and of the last one that was deployed |
| `applied`, `rolling`, `service` | what is in the cluster: values with the certificates in the Secrets, pods being replaced, the peer's Service |
| `pc`, `obj`, `objFresh`, `pending`, `config`, `state`, `error` | the worker, its copy, "a pending upgrade was rolled back", the values of `GetConfig`, the state read, the error to report |
| `unread`, `skipped`, `leftover`, `repeated` | history |

| actions | in the code |
|---|---|
| `Begin`, `Adopt`, `Unserve`, `Uninstall`, `Release` | cached `Get`, `addFinalizer`, `finalizePeer` / `finalizeOrderer`, the finalizer's removal |
| `CheckRelease`, `Rollback` | Helm status, rollback of `pending-upgrade` and `pending-rollback` |
| `ApplyService`, `ReadCertificate`, `GetConfig` | `createPeerService`, the live `Get` and the TLS Secret, `getConfig` / `GetConfig` |
| `StartInstall`, `FinishInstall`, `Installed` | the install branch with the genesis wait and the PENDING status |
| `StartUpgrade`, `FinishUpgrade`, `ReadState`, `UpdateStatus` | `upgradeChart*`, `GetPeerState` / `GetOrdererState` / `GetConsoleState`, the status and the requeue |
| `Mark`, `Report` | `setConditionStatus`, `updateCRStatusOrFailReconcile` |

`NothingLeftBehind`, `RunningMeansDeployed`, `CertificateKept` and `Converges` are what the
component promises. Helm's work is two steps, so a restart may come between them, with
the change applied or not (`MaybeApplied`). One number stands for the sign, TLS, admin and
operations certificates of a node. Renewals are `CertRenewal`'s subject and left out here.

## 7. CertificateAuthority

One `FabricCA`: the same release skeleton over the CA's crypto material. `secrets` is what
the chart put into the Secrets: the TLS certificate (by number, with the hosts it was made
for) and the root (by number; it stands for that of the TLS CA, too). `MakeConfig` is
`GetConfig`: what can be read is used again, a TLS certificate for other hosts is replaced,
what cannot be read is made. `CheckRelease`, `Rollback`, `StartInstall` ... `FinishUpgrade`
are Helm's part, `ReadState` is `GetCAState` with the second `Get`, `UpdateStatus` writes the
state as it was *before* the upgrade, `ReportFailure` a failure. `RootSurvives` is the
promise; `Converges` says that changed hosts get their certificate in the end. Left out:
certificates given in the spec, Vault, IP addresses (see section 13), pods that are Failed.

## 8. Identity

One `FabricIdentity`, its Secret and the CA, which knows one password of the user
(`known`) and one `root`. `Register`, `Enroll`, `Reenroll` and `StoreSecret` are the calls between
the read of the Secret (`ReadSecret`) and the Running status (`Setup`); `Patch` and
`UpdateStatus` are `setConditionStatus` (whose patch conflicts with nothing but makes the
copy current and takes the place of the error) and the write after it. Users change the
password or delete the resource, lose or spoil the Secret; certificates age; the CA is
replaced. `Converges` says how it ends: with a certificate that is not near its end and
"Identity Setup", or with the message that tells a user what is wrong.

## 9. ChaincodeDeploy and Conditions

One `FabricChaincode` and the template it may take defaults from. `ReadTemplate`,
`ReadSecret`, `Enroll`, `StoreSecret`, `Deploy` and `ApplyService` are the pass, `DeleteDeployment`,
`DeleteService`, `DeleteSecret` and `Release` the finalizer. No pass asks to be called
again; a failure is retried because the status it writes is an event, so `Conditions` (the
list kept in the status) matters: `SetCondition` decides whether a second write is
different from the first. Certificates are numbered by the CA (`issued`); `pods` is the one
the pods run with, which `PodsUseSecret` compares with the Secret's.

## 10. ChaincodeLifecycle

The three reconcilers `install`, `approve` and `commit` beside a second organization that
is run elsewhere (`OtherApproves`), over an external lifecycle of one chaincode: `inst`
(packages on peers), `approved[o][s]` and the sequence `committed`. `ApprovalError` is what the
channel answers to an approval; which of those answers the code takes for a success is
`ApproveCC`, and likewise `CommitCC`. A definition is its version, policy and collections in
one; a package is the second it was made in, as the archive's modification time is all
that makes two packages of one chaincode differ. Users ask to commit a number only when
the one before has been committed (`Edit`): see section 13 for what the code does otherwise.

## 11. Runs

| run | question | instance | states |
|---|---|---|---|
| `orderer_lock` | Do two nodes ever renew or roll out together? Does a renewer still own the lease? Is a request that was refused the lease served in the end? Does this implement `RenewalLock`? | 2 nodes, 2 attempts, 2 edits, lease 2 ticks, no faults | 194,302 |
| `orderer_retry` | Is a request taken off only by its own renewal, is it served, and the flag cleared, after a fault and a restart, with certificates near expiry? | 1 node, 2 edits, 1 fault, 1 restart | 213,601 |
| `peer_retry` | Does a Failed peer run again, and is the flag cleared? | 1 node, 1 edit, 2 faults | 50,670 |
| `lease_shorter_than_upgrade` | see [findings](#13-findings) | 2 nodes, 2 edits | 3,106 |
| `channel_genesis` | Can orderers that join one by one, with failures, restarts, edits and deletions between, end up with different genesis blocks? Does Running mean applied? Does the whole implement `ChannelLedger`? | 2 orderers, 3 genesis blocks, 1 follower, 1 edit or deletion, 1 fault anywhere but in a query, 1 restart | 1,592,672 |
| `channel_converges` | Is an update that is accepted what its resource would make of the channel at that moment (`UpdatesSerial`)? Do the main channel and a follower ever undo one another's? Does the channel, unless it was made twice, become and stay what all resources say, whatever failed and wherever the operator was restarted? | 2 orderers that answer when both have joined, 2 genesis blocks, 1 follower, 2 edits, faults or restarts (at most 1 fault, anywhere, and 1 restart) | 1,032,994 |
| `split_genesis` | see [findings](#13-findings) | 2 orderers, no follower | 132 |
| `node_release` | Does a node keep its certificate, does Running mean deployed, is nothing left behind, and does it come to run whatever fails? | the 3 kinds, 2 specs, one of them without a genesis block, 2 edits, faults or restarts | 292,930 |
| `certificate_authority` | Does the root survive, and do new hosts get their certificate? | 2 host lists, 3 edits, faults or restarts (at most 2 of each) | 1,018,732 |
| `identity` | Is Running only said of a certificate that is there, and does it end well or with a message that says why? | 2 passwords, 2 roots, 4 edits, faults or restarts | 477,021 |
| `chaincode_deploy` | Does Running mean deployed, do pods run with the Secret's certificate, is nothing left behind, is a failure retried? | 2 specs, 2 templates, 3 edits, faults or restarts | 856,746 |
| `chaincode_lifecycle` | Is what Running says true of peers and channel, and is what a majority asks for committed? | 2 organizations, 2 peers, 2 definitions, 3 numbers, 2 edits, faults or restarts; install apart from approve and commit, with which it shares nothing | 680,160 |

Bounds. Two nodes suffice for a lock: what matters is one at work and one that
competes. Two edits give both nodes a request, or one node a request and a
change of its spec during the renewal. A lease of two ticks can be unexpired, in its last
tick, and expired; `SectionBound` bounds the time of one renewal and `Timeout` the Helm
wait. One fault and one restart hit every call once; `AcquireWriteFails` makes the
lost answer one of them.

For a channel two orderers are enough to join differently, a third genesis block is one
more than a failed pass and its retry use. The user of `channel_converges` adds an organization
and raises the capabilities (a delta that reads the other organization, and conflicts with its
anchor peers), takes that back, or changes the mode (a delta that commutes with them); the one of
`channel_genesis` adds an organization, has one orderer join, or goes into maintenance mode. More
than one follower is left to the proofs.

`channel_converges` has the Raft quorum (`ReadQuorum = 2`) and every call of the reconciles may
fail. A failed join or a restart between the two joins then leaves one orderer that has joined
and does not answer; the next pass takes the channel for missing and makes a second genesis
block, with which the other orderer joins, and no pass repairs that (section 13). The run goes
through these behaviours: two genesis blocks are enough to reach the split and for a new one to
be there as long as there is none.
`Converges` says of every other behaviour that it ends well; its condition `OneGenesis` is what
these lack, and leaving it out makes TLC find the restart between the joins. Its other
condition, `ModeByItself`, is that users ask for nothing but the mode when they change it or
are in maintenance mode. It leaves out what the code drops then (section 13), and nothing of
entering and leaving the mode itself: the followers' passes fail as long as it lasts and have to
succeed afterwards.

Two disturbances of a release reach what one does not: a restart in an upgrade and a
failed rollback, an edit and a failed upgrade, a failure while another is reported. The
pools of `Numbers` are large enough for a new one to be there always: were they not, the
step that needs one would not exist, and `Converges` would fail.

The states where every resource is Running and nothing is queued are meant to have no
successor: these runs do not check deadlock, except those of `CertRenewal`, where time
goes on.

Fairness. The controller runtime keeps workers running and retries errors with
backoff; the informer delivers; delays end; Kubernetes finishes rollouts; time passes: weak
fairness on the reconciles, `CacheSync`, `TemplateEvent`, `Timer`, `RolloutDone` and `Tick`. Nothing
obliges users, faults, crashes or other organizations. The ten-hour resync of the
informers is left out everywhere: what only a resync would repair counts as stuck.

## 12. Proofs

The theorems hold for every value of the constants that the modules' named assumptions
admit. What a theorem assumes beyond those is stated in it (`ASSUME ... PROVE`). No
safety property is inductive as it stands: the proofs rest on the strengthenings named
below. The step lemmas of each proof have
one case per action.

**`CertRenewalProofs`**, for every set of nodes and value of the bounds:

* `TypeCorrect`; `Served`: `ServedMeansRenewed`. `AppliedInv` adds that a worker which
  waits with a current copy waits for the certificates asked for.
* `Exclusion` and `LeaseKept`: `MutualExclusion` and `RenewerHoldsLease`, assuming
  `OwnHolders` and `Timely`. `LockInv` adds the reason: a renewer is within the labels of
  the critical section, is the Lease's holder, and the Lease has at least as much time
  left as the renewer has not yet spent (`lease.left + spent >= TTL`); and a worker whose
  copy of the Lease is current still knows what it decided from it.
* `Refinement`: `Spec => ImplementsLock`, under the same assumptions. `WantInv` adds that a
  cached or private copy that is due is a copy of an object that is due, so a worker in
  the section is there because new certificates are wanted, and that only a worker in
  the section can take a request off.
* `OneAtATime`: `OneRolloutAtATime`, if in addition nothing goes wrong (`Undisturbed`: no faults
  or restarts, upgrades wait, and a renewal ends before Helm's timeout). `RollInv` says that
  only pods whose worker waits for them roll, and that such a worker renews; the rest is
  mutual exclusion. Section 13 says what happens without each of the conditions.

**`ChannelProofs`**, for every set of organizations, orderers and followers:

* `TypeCorrect`, in four parts (API server, workers, Fabric, bounds).
* `AnchorsAreTheOrganizations`: `AnchorsSurvive`, with no condition. `AnchorInv` says that a
  genesis block nobody has joined with has no anchor peers, and that an update is only
  submitted to a channel an orderer has. The rest is `UpdatedAnchors`: what a delta computed
  from any old configuration does to any newer one.
* `ChannelIsCreatedOnce`: `OneGenesis`, assuming `ReadQuorum = 1` and that a query does not
  fail. `GenesisInv` adds that nobody has the channel when it is created and, while it is
  being joined, nobody has another one. `split_genesis` shows that the second condition is
  needed; the first has the same role: Raft orderers of which some have joined do not
  answer either.
* `FollowersApplied`: `FollowerApplied`, if also every spec of the main channel lists the
  organizations of the follower channels (`AllListed`; without it the main channel takes
  an organization and its anchor peers out while its follower channel stays Running).
  `CopyLinked` says that a pass no other will follow works on the last spec;
  `ListedInv` that every channel that is joined, and every configuration an update is
  computed from, has the organizations; `FollowInv` that what is about to be submitted is a
  change and what is about to be reported is in force. `AnchorsKept` keeps it so: whatever is
  submitted meanwhile, only the organization's own update touches its anchor peers.
* `MainApplied`: `RunningMeansApplied`, under the conditions of `ChannelIsCreatedOnce` and if
  users change the consensus state by itself (`Careful`: entering, in and leaving
  maintenance mode they wait for the change before and touch neither organizations nor
  capabilities; section 13 says what the code drops otherwise). `SeenInv` says that the channel
  is still as the main channel has read it when it submits; `MainInv` adds that it is as the
  spec says when the main channel reports, and `ModeInv` that in maintenance mode all copies of
  the spec agree with the channel but for the mode; `AlikeKept` that follower channels do not
  change that, however many there are. `MainAppliedNormal` is the same for any edits
  where no spec asks for maintenance mode.
* `Serial`: `UpdatesSerial`, with no condition: an update is computed from a configuration that
  may be old when it is accepted, and yet its effect is that of one computed from the
  configuration as it is then. For the main channel this is `SeenInv` (followers touch only
  what it does not look at); for a follower it is `OutsideInv` below and the version of its
  organization's group.
* `Remembered`: see the end of this section.
* `Refinement`: `Spec => ImplementsLedger`, under the conditions of `ChannelIsCreatedOnce`.
  `OutsideInv` adds that an organization outside the channel has no anchor peers, and the
  reason: a worker to which the version of the Application group is current has read the
  organizations there are, and an update of anchor peers relies on that version.

**`NodeReleaseProofs`** and **`CertificateAuthorityProofs`**:

* `TypeCorrect`; `CertKept`: `CertificateKept`; `RootKept`: `RootSurvives`. The same argument: as
  long as every pass could read the certificates, all places they are in (the cluster, Helm's
  revisions, the worker's values) that have any have the same ones (`OneCert`, `OneRoot`).
  `HelmLinked` and `Linked` add which places there are at which label.
* `NodeReleaseProofs!RunningDeployed`: `RunningMeansDeployed`. `CopyLinked` says of a worker whose
  pass no other will follow that its copy is the resource as it is; `WorkLinked` that it puts
  that copy's spec into the cluster, or notes a rollback; `Bare` that a console has no
  certificates; `StatusLinked` that what is not installed yet is not reported Running.
* `NodeReleaseProofs!Removed`: `NothingLeftBehind`. `PhaseLinked` relates the finalizer in the three
  copies of the resource: a worker that removes things is at work on a resource being
  deleted, and one that installs on a managed one. `Left` says what has been removed when.

**`IdentityProofs`**: `TypeCorrect`; `Enrolled`: `RunningMeansEnrolled`. `Linked` says that a worker
which stores has a certificate to store, that one about to report success has found or
stored one unless it was lost since, and that a current copy has the finalizer's state.

**`ChaincodeDeployProofs`**:

* `TypeCorrect`; `Removed`: `NothingLeftBehind`, by `PhaseLinked` and `Left` as above.
* `RunningDeployed`: `RunningMeansDeployed`. `StatusLinked` says of a pass that no other will
  follow (`Awaited`) that it has read the template there is and, when it is about to report
  success, that Deployment and Service are what it read. Of all other passes nothing need
  be known: the next one reports again.
* `PodsServed`: `PodsUseSecret`. `PodsLinked` says that a certificate which the Deployment does
  not note yet is newer than the one it notes, so that the note restarts the pods.

**`ChaincodeLifecycleProofs`**, for every number of organizations, peers and definitions:

* `TypeCorrect`, with `StepOK`: a worker is at labels of its own kind only.
* `ApprovalStands`: `ApproveRunning`; `InstallReported`: `InstallRunning`. `PhaseOK` says that a pass
  no other will follow works on the last spec, `ApproveOK` and `InstallOK` that what it is
  about to report has been done for that spec (`Working`: peers asked and to be asked make up
  the spec's). Other organizations, and other resources of the same one, are at work on
  the same ledger: `Grows` says that nothing they do takes an approval back.
* `CommitDone`: `CommitRunning`, assuming `NumberedAlike`: users start with number 1 and give one
  sequence number to one definition, as `MCChaincodeLifecycle` does. It is needed because of
  what section 13 says of commits.

**Nothing is forgotten.** Each of the seven modules of proofs has a theorem `Remembered: Spec => []NoneForgotten`. It is the part of the convergence
properties that does not depend on fairness: the controllers retry by returning an error, by
asking for a delay, or by a write whose event brings the next pass, and the branches
disagree about which. `NoneForgotten` says what a resource may look like when none of the
three is to come any more, the queue, the timers and the informer being empty:

| theorem of | at rest is only what is |
|---|---|
| `ChannelProofs` | gone, or Running (hence applied, by `MainApplied` and `FollowersApplied`) |
| `ChaincodeLifecycleProofs` | gone, or Running (hence done, by `InstallReported`, `ApprovalStands`, `CommitDone`) |
| `ChaincodeDeployProofs` | gone; deployed as spec and template ask for with no error in the status; or repeating its error |
| `IdentityProofs` | gone, or refused by the CA because of its password, with a status that says so |
| `NodeReleaseProofs` | gone; an orderer or console repeating its failure; or a console that is Running. Never a peer |
| `CertificateAuthorityProofs` | gone, or repeating its failure |
| `CertRenewalProofs` | an orderer reported Failed. Never a peer |

With the fairness of section 11, `Converges` then only needs that passes come to an end. The
table is also where the code stops: "repeating its failure" is the case of section 13 in
which the second failure changes nothing and asks for nothing. The invariants have one form
everywhere (`RestLinked`, `RestInv`, `RestPart`): of a pass that another will follow nothing
need be known; one that none will follow works on the resource as it is now and is about to
leave what the table says. `NoneForgotten` is stated in the modules of proofs and was
checked with TLC on the instances of section 11 before it was proved.

Every safety property of the passing runs is proved, some under the conditions given above.
Only model-checked is liveness (`RequestServed`, `FlagCleared`, `FailureRetried` and the
`Converges` of six modules), which depends on fairness and is out of the prover's reach.

## 13. Findings

Places where a comment or a document says one thing and a run shows another; each is
a `violation` run and an entry of `PROJECT.json`.

* `lease_shorter_than_upgrade`: the "global lock" lasts 120 s and is not renewed
  while the upgrade it protects may wait 300 s.
* `split_genesis`: any failing query counts as "Channel doesn't exist, create it and join
  orderers"; after a partly failed join the retry makes a second genesis block for the
  orderers that are left. The run has orderers that answer as soon as they have joined, so it
  takes a failed join and a failed query; with a Raft quorum the failed join, or a restart
  in its place, is enough. The channel never becomes what its resources say then (`Converges`
  is about the channels this did not happen to).

Other behaviour of the code the models have, or the survey met, that no run is about:

*Certificate renewal*

* With `POD_NAME` set all workers of the operator are one holder and the lease locks
  nothing (`ordnode_controller.go:256`; `OwnHolders` is false). A pod that still rolls
  when the operator restarts, when Helm's wait times out, or (peers, by default) because
  the upgrade does not wait, rolls together with the next node's: `OneRolloutAtATime` holds
  in the undisturbed case only.
* A conflict of the final status update loses `lastCertificateUpdate`, written ahead "to
  avoid duplicate updates" (`ordnode_controller.go:291`), and the renewal is repeated; a
  request within the five minutes it is ahead counts as served.
* The cached spec's `UpdateCertificateTime` is dereferenced when the live one is set
  (`peer_controller.go:444`): a panic the runtime recovers.

*Channels*

* Orderers added to the spec of a channel that exists are not joined, though
  `website-docs/docs/channel-management/manage.md:33` and the field's comment
  (`hlf_types.go:2951`) say so: `joinOrderers` is called only where the channel is created,
  and the resource is set to Running.
* Whatever else is edited together with entering maintenance mode, and the organizations edited
  during it or with leaving it, are left out by the pass that changes the mode, which reports
  "Channel setup completed" (`mainchannel_controller.go:622`, `:736`); if that does not change the
  status, nothing brings another pass. `ModeByItself` (of `Converges`) and `Careful` (of the
  theorem `MainApplied`) say what users have to do to be spared.
* After "Ignoring since object must be deleted" (`mainchannel_controller.go:166`) the
  reconcile goes on with an empty object, panics at line 214 and is retried for ever
  (`Begin`, `Panic`); so does the pass that removes the finalizer (`Finalize`).
* "consenter mapping needs to be at least 4" (line 958) refuses four (`Mappable`).

*Releases of nodes, consoles and CAs*

* A Secret that cannot be read, by whatever error, is taken for absent: a node is enrolled
  anew, and an orderer's new TLS certificate is not the one in the channel's consenter set; a
  CA gets a new root (`ca_controller.go:637`, history variable `unread`).
* The finalizers take every error of an uninstall but one for a success
  (`peer_controller.go:1813`): the release stays (`leftover`).
* After the rollback of an unfinished upgrade the pass skips the upgrade, and a peer
  is Running with the older values for an hour (`skipped`).
* A release left in pending-install, and any pending revision of a console, is never
  rolled back: Helm refuses every further upgrade. Lost Secrets, or a first install that
  failed before it made them, make every later pass end with an error (`Stuck`).
* A failure that repeats the one before makes no change of the object, and except
  for peers nothing asks to be called again (`repeated`).
* An orderer that waits for its genesis block enrols new certificates every two seconds,
  because `getConfig` comes before the wait (`ordnode_controller.go:391`).
* A mere conflict is written as Failed by peers and orderers until the next pass.
* The CA sorts and logs the IP addresses of its TLS certificate but compares only the DNS
  names (`ca_controller.go:602`), and looks at no end of validity; `docs/fabric-ca.md:7`
  promises a renewal. Its status shows the certificates from before an upgrade until the
  next pass, an hour later.

*Identities*

* On the first failure the patch's answer takes the place of the error: what failed is
  in the message after a second pass, which the patch's own event starts.
* "enroll secret is not correct" is not requeued; changing the registered password in the
  spec never changes it in the CA.
* A Secret that cannot be parsed is never replaced. A `key.pem` that holds no PEM block is not
  even reported: `ParseECDSAPrivateKey` (`utils.go:64`) panics at every pass. What `Identity`
  calls `Broken` is a Secret whose `cert.pem`, read before the key, does not parse. One that can
  be parsed is not enrolled anew when
  spec or CA change, until it comes near its end.
* A crash or a failed write after the enrollment loses the new key; the user is enrolled
  again.

*Chaincodes*

* `chaincode_deploy_controller.go:167` says "renew certificates data if certificate is about to
  expire (7 days before expiration)"; the lines that follow (171-177) set the decision back
  to false for any Secret that has all its entries.
* Pod labels and selector alias one map, so an edit of the labels is refused by
  Kubernetes as a change of an immutable field (`Immutable`).
* A pass that ends between the new Secret and the Deployment loses the note that
  restarts the pods (`missed`). An error that repeats itself is not retried
  (`repeated`); the pass that creates the Service reports the old error's Failed state
  once more.
* `FabricChaincodeInstall` writes the package ID and the time into its status; both change
  every second, since the archive has the time in it, so each pass causes the next one
  and installs another package, in spite of "If status is running/success, don't requeue"
  (`chaincode_install_controller.go:475`). It reports Running even if every peer failed, and
  leaves a file in the temporary directory each time.
* A commit whose number is too high, or at whose number another definition was committed,
  is reported as "Chaincode committed" (`chaincode_commit_controller.go:179`). A definition that
  is changed with the package left alone is not approved again
  (`chaincode_approve_controller.go:222`).

## 14. What is not modelled

* Chart values other than the certificates: `getConfig`, `GetConfig` and the
  `getEnrollRequest*` functions translate data and have no state. The same holds for
  connection profiles (`pkg/nc`) and for what the CLI writes.
* Vault, in the CA, the nodes and the identities: stateless requests to an external service in
  place of those to Fabric CA.
* Metrics, generated types and clients, vendored Fabric and Fabric CA code except for the
  computation of configuration updates, charts, documents, the MCP server.
* Within `Channel`: one peer stands for the peers of an organization; policies, ACLs,
  consenters and batch parameters change with the elements they are in but have no
  values; the revocation list of a follower's MSP is written with its anchor peers and in
  the same way; the content of the ConfigMaps; the asynchronous ordering of an update
  after `SaveChannel`; signing identities and network configuration, whose failures are
  failures of the call that needs them.
* Within `CertRenewal`: the second status patch of a failure is one step with the write
  after it.
* Resource exhaustion (temporary directories, goroutines, connections) and the content
  of logs.
