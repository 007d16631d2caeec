# A TLA+ specification of the AWS IAM provisioner operator

The operator reconciles `AWSIAMProvision` objects: for a Cluster API cluster
with an `AWSManagedControlPlane` it creates the IAM roles and policies the
object names, keeps them as the object says, and destroys them with the object.
This directory holds a model of it, the properties it should have, the
configurations that model-check them with TLC, and proofs checked by TLAPS.

    tlc -config Lifecycle.cfg MCReconciler.tla
    tlapm FinalizerProof.tla

## 1. The system

### Components

| Component | Source | State it keeps | Operations |
|---|---|---|---|
| Custom resource types | `api/v1alpha1` | spec (`eksClusterName`, `frequency`, maps `roles`, `policies`), status (phase, `lastUpdatedTime`, lists), finalizer, deletion timestamp | none of their own |
| Reconciler | `internal/controller/awsiamprovision_controller.go`, `reconciliation_manager.go` | the local variables of one `Reconcile` call; no memory between calls | `Reconcile`, `getClusterResources`, `deleteIAMResources`, `syncAWSIAMResources`, `syncRole`, `syncPoliciesByRoleSpec`, `setAssumeRolePolicyDocument`, `setFrequency` |
| Status formatter | `internal/controller/status_formatter.go` | none | `updateCRDStatus` |
| AWS IAM client | `internal/aws_sdk/role.go`, `policy.go`, `iam.go` | the account: roles, policies, attachments | create, delete, update, attach, detach, the listings |
| Ownership tags | `internal/aws_sdk/tags.go` | tags of roles and policies | tag and checksum comparison |
| API server, informer, work queue | external; wired in `SetupWithManager` and `cmd/main.go` | objects, cache, undelivered watch events, queue | optimistic updates, watch, predicate, requeue |
| Manager start-up | `cmd/main.go` | flags, environment | start, leader election, probes |
| Manifests, generated code, test bootstrap | `config`, `zz_generated.deepcopy.go`, `suite_test.go` | none | none |

### How they interact

* Users create, edit and delete objects on the API server. Every write becomes
  a watch event; the informer applies events to its cache some time later and
  queues the key when `GenerationChangedPredicate` lets the event pass.
* One worker (controller-runtime's default) takes a key, reads the object and
  the control plane **from the cache**, and calls IAM and the API server. Writes to
  the API server carry the `resourceVersion` that was read, and a conflict ends
  the call with an error.
* An error brings the key back after a back-off; a result brings it back after
  `frequency` (30 seconds when the object has none, never when it is `0s`), or
  after ten seconds when the object or its control plane is missing or not ready.
* Nothing is persisted but the object (finalizer, status) and the account.

### What is hard about it

* **Stale reads.** The object at hand may be old, deleted or re-created; only
  the finalizer and optimistic locking stand between it and IAM.
* **Users in between.** Any request may come between two calls of a reconcile.
* **Multi-call updates.** A changed policy is replaced by detach, delete, create
  and attach; a policy shared by two roles cannot be deleted until both let go of it.
* **Order.** Roles are visited in the random order of a Go map.
* **Failure at every call**, a lost answer to a create, a crash.
* **What brings the key back.** Result, errors and the predicate must together
  never forget an object.
* **Two writers.** Objects for one cluster share tags, objects of any cluster may
  use one name; others may change the account, and own entities outside the path.
* **Names, keys, tags and paths.** Three lookups are in use: by name (roles), by an
  ARN with the path (policies), by tags within the path (listings). They do not
  always find the same thing.

The list with source lines is `hazards` in `PROJECT.json`.

### What makes each part correct

* Reconciler: it acts on IAM only under the finalizer and destroys only for a
  deleted object; a finished pass leaves the account as specified; a pass over an
  account that is as specified changes nothing; nothing wanted is taken away; the
  finalizer goes after the roles; retries converge.
* API server side: no object that needs work is forgotten.
* IAM client: listings select by owner.
* Tags: what is listed for a cluster is what the tags say, in any order; the
  checksum tells a changed document.
* Status: it follows what happened (it does not always; see findings); its lists
  hold each name once.
* Towards users: the finalizer protocol. What an object asks for is created only
  behind the finalizer, and the finalizer goes only when it is gone.

## 2. The modules

| Module | Models | Rests on |
|---|---|---|
| `Resources` | the types | |
| `IAMAccount` | the account as `internal/aws_sdk` shows it, with entities of others outside the path | `Resources` |
| `KubeAPI` | API server, cache, watch events, queue, users, Cluster API | `Resources` |
| `Reconciler` | `Reconcile` and all it calls, composed with the two above, plus failed calls, lost answers, restarts, drift | `IAMAccount`, `KubeAPI` |
| `ReconcilerProperties` | the properties and the fairness | `Reconciler` |
| `FinalizerInvariant` | the inductive invariant behind the finalizer properties | `ReconcilerProperties` |
| `SyncInvariant` | the inductive invariants behind the properties of a synchronisation | `FinalizerInvariant` |
| `FinalizerProtocol` | abstract: what a controller with a finalizer promises to users | |
| `ProtocolRefinement` | the mapping under which `Reconciler` implements `FinalizerProtocol` | `FinalizerInvariant` |
| `OwnershipTags` | writing, reading and comparing tags, the checksum (`tags.go`) | |
| `StatusList` | a list of the status, entry by entry (`updateCRDStatus`) | |
| `StatusNames` | abstract: that list as the set of names `Reconciler` keeps | |
| `MCReconciler`, `MCOwnershipTags` | small instances for TLC | |
| `ReconcilerTypeProof` | type correctness, proved | `ReconcilerProperties` |
| `FinalizerProof` | the finalizer properties, `NoLostEdit` and `NeverForgotten`, proved | the one above, `FinalizerInvariant` |
| `ProtocolProof` | the refinement of `FinalizerProtocol`, proved | `FinalizerProof`, `ProtocolRefinement` |
| `IsolationProof` | `Isolation`, proved | `ProtocolProof` |
| `SyncProof` | `KeepsWanted`, `PrunesOwn`, `Idempotent`, `ProvidedAtEnd`, `SyncedAtEnd`, proved | `ProtocolProof`, `SyncInvariant` |
| `StatusListProof` | the properties of a status list, the refinement of `StatusNames` among them, proved | `StatusList` |
| `OwnershipTagsProof` | what the tags tell, proved | `OwnershipTags` |

### From code to model

* **State.** `pc` is the point reached in `Reconcile` or a callee, `cur` the
  request's key, `air` the Go variable of that name (the object as read, then as
  last written), `w` the other locals (listed by Go name in `Reconciler`), `call`
  the arguments of `updateCRDStatus` with the point it returns to. `fresh` says
  that the `resourceVersion` of `air` is still the server's: true when no watch
  event was on its way at the time of the read, made false by any request for the
  object. It stands for the comparison the server makes on each update.
* **Steps.** An action ends at the next call that changes IAM or the server; the
  reads that prepare this call belong to the action before it. Between two actions
  everybody else may move. `Goto` goes on in the code, `Report` calls
  `updateCRDStatus`, `Return` leaves `Reconcile`.
* **Loops** over a Go map or a listing choose any element not yet visited. So does the
  loop over `spec.roles.*.spec.policies`, which is a list without repetitions: the model
  allows more orders than the code.
* **The object.** A `Cluster` is the pair of namespace and `eksClusterName`.
  Documents, trust templates and provider ARNs are atoms, since the code only
  compares them; a trust document is the pair of template and ARN, and
  `Malformed` holds the ones whose rendering fails. Of a status entry only the
  name is kept. `lastUpdatedTime` is nil exactly when the phase is empty, since
  every status update sets both.
* **Keys and names.** `spec.roles` and `spec.policies` are maps from keys to entries,
  and an entry has a `name` of its own, which is what IAM sees. Nothing in the CRD makes
  them agree or makes the names distinct, so both maps are functions on keys (`RoleKey`,
  `PolicyKey`) with names inside. In the instances they agree, as in the sample. The
  specification is a choice from `SpecsOf`.
* **IAM.** A wrapper's early return on `NoSuchEntity` or `EntityAlreadyExists` is part
  of its operator; what stays an error (delete of something attached, attach of
  something missing) is a predicate `Can...` on which the caller branches.
* **The path.** An entity of the operator has the cluster of its tags as `cluster`; one
  outside `/aws-iam-provisioner/` has `None` there. `GetRoleByName` finds a role wherever
  it is, `GetPolicyByName` goes by an ARN with the path, the listings see the path alone.
  `Foreign` lets others create a role, or a policy and attach it. A policy attached from
  outside the path is one the operator cannot see and IAM counts.
* **Tags.** `IAMAccount` uses what the tags say. `OwnershipTags` has the tags themselves: those
  the operator writes (cluster, namespace, checksum), those of the object, those others change;
  the page of at most `PageSize` that is read, of a list in any order IAM may use (`Listings`);
  `getSimilarTags` and `compareTags` on sequences. `getSimilarTags` is the outer loop and `Matches` the
  inner one; what a loop appends is the concatenation of what its rounds give (`FlattenSeq`). The module supports
  the abstraction where the tags fit a page; where they do not, `ListsOwnOnly` is left (section 3).
* **Status lists.** `Reconciler` keeps sets of names. `StatusList` has the lists with
  replacing, appending and cutting by index, and implements the sets (`NamesImplemented`).
* **The abstract protocol.** `ProtocolRefinement` maps an object on the server to a stage
  (`absent`, `open`, `guarded`, `dying`), what it asks for to the role names of its
  specification, and what is present to the roles under the path. Every step of
  `Reconciler`, faults and crashes included, is a step of `FinalizerProtocol` or none.
* **The server.** An update is taken when `fresh`, and the last finalizer removes
  a deleted object. `cp` is the informer's copy of the control planes, the only one the
  operator sees; Cluster API and the informer change it at any time.
* **Queue.** A set of keys: client-go holds a key at most once. A delay is a key
  that the worker has not taken yet, so delays and back-offs may be of any length.
* **Faults.** `CallFails` fails the next call wherever the worker is; `ReplyLost`
  lets a create succeed and its retry by the SDK find the entity in place; `Crash`
  drops the worker and relists; `OutOfBand` lets others detach and delete, `Foreign`
  create outside the path.
* **Broken variants.** Definitions introduced as "Broken variant of ..." are what a slip
  in the code would make of the definition they name. No behaviour uses them: each
  shows, put in the place of the original, that a property notices.

## 3. The properties and the runs

Passing runs, over `MCReconciler` where nothing else is said:

| Run | Instance | Checks |
|---|---|---|
| `lifecycle` (2,334,538 states) | one object, two roles, two policies, four specifications, four requests | `TypeOK`, `FinalizerGuard`, `NeverForgotten`, `SyncedAtEnd`, `FinalizerReleased`, `Idempotent`, `KeepsWanted` |
| `faults` (3,292,268 states) | the same with two requests, one failed call or lost answer, and one creation outside the path, under any name, by another tool | `FinalizerInv`, `FinalizerGuard`, `SyncInv`, `ProvidedAtEnd`, `FinalizerReleased`, `NoLostEdit` |
| `pair` (1,646,519 states) | two objects for two clusters, one malformed ARN, four requests | `SyncedAtEnd`, `Isolation` |
| `common_name` (1,830,581 states) | objects of two clusters that name one role and one policy; one of them may turn to another policy and name a second role; three requests, one crash | `NoRoleLeftBehind`, `DropInv`, `PrunesOwn`, `ProtocolImplemented` |
| `liveness` (192,637 states) | one object whose two roles share a policy that gets a new document, two requests, one change by others, fairness | `PassInv`, `KeepsWanted`, `Converges`, `Settles`, `DeletionCompletes` |
| `healing` (573,651 states) | one role whose policy gets a new document or is dropped for another one, two requests, one failed call or lost answer, one crash, and another tool that creates a role or a policy outside the path, fairness | `FinalizerInv`, `NeverForgotten`, `Converges`, `DeletionCompletes` |
| `tags` (`MCOwnershipTags`, 13,875 states) | tags of the operator, of the object and of others, pages of three | `ListsOwnOnly`, `ListsAllOwn`, `ChecksumTells` |
| `status_list` (`StatusList`, 632 states) | three names, two phases | `NoTwice`, `OthersKept`, `NamesImplemented` |

* `FinalizerGuard`: the worker is inside a synchronisation or a destruction only
  while the server holds the object with the finalizer, and destroys only for a
  deleted one, however old the copy it works on.
* `FinalizerReleased`: at the step in which an object loses its finalizer no role of
  its specification exists under the operator's path.
* `FinalizerInv`: the inductive invariant behind both (section 4).
* `NoLostEdit`: the operator writes back the whole object it once read from the cache, and still only users
  change the specification or ask for a deletion, which is never withdrawn; an object goes away only when it is being deleted.
* `PassInv`, `DropInv`, `SyncInv`: those behind the properties of a synchronisation (section 4), checked
  in three situations for which they are claimed: with others who remove; with two owners of one
  name; and with failed calls and others who create.
* `NeverForgotten`: an object that is to be seen again is queued, at hand, or behind
  a watch event that passes the predicate.
* `SyncedAtEnd`: a pass that reaches its end has made the account as specified,
  whatever it was before and in whatever order the maps were visited. Not claimed
  where others change the account: removals undo what was just provided, and a role made outside the
  path under a wanted name keeps policies that an edit has dropped, since the listings do not show them.
* `ProvidedAtEnd`: the part of it that survives others who create. Every role and policy the
  specification asks for is there, with its trust document, its document and its attachments, and a role in the path
  has no attachment besides: a name that another tool takes between the look-up and the creation ends
  the pass before it gets there.
* `Idempotent`: a pass over an account that is as specified calls nothing that changes it. It is claimed
  where others remove or create entities but not both (as `PrunesOwn`, for the same reason).
* `KeepsWanted`: no step of a pass deletes a wanted role, or deletes or detaches a wanted
  policy whose document is current.
* `Isolation`: with objects for two clusters that use different names, working on one
  leaves the other's entities as they are.
* `PrunesOwn`: even where objects of two clusters use the same names, a pruning deletes
  nothing tagged for the other cluster. It is claimed where others remove or create entities
  but not both: a role that is removed and comes back under another owner between the listing
  and the deletion is found again by its name, and goes.
* `Converges`: an object with a frequency above zero, left alone with a usable control plane, ends up in sync and
  stays so, unless another tool holds a policy of a name it wants outside the path (`Unclaimed`: the operator can neither
  see nor create it), or something it has to take away is held where it does not look (`Unheld`: a policy
  it drops by an adopted role, or by a role tagged for the cluster it was for before; a role it drops by
  a policy of others). `TakenOff` lists the places where it looks. Adopted roles are in the claim as long as they keep what is
  attached to them, replaced documents included.
* `Settles`: and the operator then stops changing the account.
  `Converges` and `Settles` are claimed for objects that do not work against each other or themselves (they share no cluster and
  no name, and no map uses a name twice) and for documents that IAM accepts; the instances have one object.
* `DeletionCompletes`: a deleted object does not stay for ever while its control
  plane stays ready and no policy from outside the path is attached to its roles.
* `ProtocolImplemented`, `NoRoleLeftBehind`: the controller takes only steps of the finalizer
  protocol; so a role that objects name in every version, if they name it at all, is
  there only while an object that has the finalizer asks for it. The restriction
  to such roles is needed: `leak` shows a role dropped by an edit that survives.
* `ListsOwnOnly`, `ListsAllOwn`: a policy is listed for a cluster and namespace only if its tags
  say so, even when only some of them are read; and it is listed, in whatever order IAM returns
  the tags, if they fit a page.
* `ChecksumTells`: the checksum tag of a policy differs from the document asked for exactly when
  its document does, whatever edits and replacements came before.
* `NoTwice`, `OthersKept`, `NamesImplemented`: no name is listed twice, a report changes and moves no
  entry but its own, and the list is the set of names.

Runs that show where the program differs from what the repository says
(`findings` quotes the lines):

| Run | Statement refuted | What happens |
|---|---|---|
| `stuck_deletion` | `DeletedInTheEnd` | the control plane is looked up before the deletion; without a ready one the object keeps its finalizer for ever |
| `stuck_phase` | `StatusCatchesUp` | `Provisioning`, written while the control plane was not ready, is never replaced |
| `shared_cluster` | `ConfiguredStays` | two objects for one cluster delete each other's roles |
| `leak` | `AllDestroyed` | a role created from a specification that was edited just before the deletion survives the object |

The models hold more of what the code does and a user may not expect. No run is kept for these; each
follows from the definitions named:

* *A lost answer.* `ReplyLost`: the wrapper logs a skipped creation and returns a nil entity
  without an error, `updateCRDStatus` dereferences it, and the recovered panic ends the pass. The entity is in
  place and the next pass goes on, so `healing` converges, but its entry is never put into the
  status: an entry is written only along with a change in IAM. A status update that meets a
  conflict loses its entry the same way. (`StatusCatchesUp` is refuted by the phase before it gets to this.)
* *One name, two clusters.* Roles are found by name alone (`RoleExists`): each of two objects
  that name one role rewrites its trust document in turn, and either deletion destroys it. Only
  prunings go by tags (`PrunesOwn`).
* *An adopted role.* A role that exists outside the path is taken over by its name, but what is
  attached to it is listed through the path (`EntitiesOf`): the operator attaches, and never detaches what an edit
  drops. The pruning then finds the dropped policy attached to nothing (`DropPolicies`), IAM refuses to delete it
  (`CanDeletePolicy`), and every later pass ends there: what the edit asks for instead is never created, until
  somebody detaches the policy by hand. Without `Unheld`, TLC refutes `Converges` this way in `healing`.
* *Another cluster.* After an edit of `eksClusterName` the tags looked for are others
  (`RolesTagged`): what carries the old ones and is not named any more is never pruned. `AllDestroyed`
  asks for it too. A policy that is still named and has a new document cannot be replaced as long as such a role holds it.
  A policy created since and then dropped may be attached to several such roles: it is deleted inside
  the loop over them, which fails until the last pass (`DropEntities`).
* *Others' policies.* A role with a policy from outside the path cannot be deleted (`CanDeleteRole`). If the specification
  drops it, every pass ends there, before anything is created; if the object is deleted, it stays (`Obstructed`).
* *Two entries, one name.* Nothing keeps two keys of `spec.roles` from having one name. Each entry then
  detaches from the role what only the other refers to (`Stale`), and attaches its own again, in every pass.
* *Hidden tags.* The first page of tags is all that is read (`Page`): tags from the custom resource
  can push the ownership tags off it, and the entity is then never listed, nor pruned.

### Bounds, and why they are enough

* Two roles and two policies: the least with a shared policy, a policy moved
  between roles, a dropped role and a kept one, and two map orders.
* The specifications are chosen to differ in one thing each: a new document for a shared
  policy; a role dropped, the other moved to a second policy with a new template.
* `MaxEdits` counts requests and control plane changes. Four allow create, delete,
  re-create and one more, or create and three edits. Two suffice where faults come on top:
  create and then an edit or a deletion.
* `FeedLimit = 2` undelivered events: the cache can lag behind two writes, one by
  the worker and one by a user. A write that finds the feed full waits. In `pair`, `common_name` and `healing` it is
  1: a copy can be old there too, by one write.
* `faults`: one fault, at every point, and one creation by others (`MaxForeign`), at every point and under every
  name: enough to have a wanted role or policy taken before the look-up (adopted), or between look-up and
  creation (a nil result), or a policy attached that nobody sees. With a crash on top the instance exceeds five
  minutes; crashes are in `common_name` and, with a fault, in both orders, and a creation by others, in `healing`.
  `liveness` has one removal by others (`MaxDrift`) instead.
* `OwnershipTags`: `PageSize` is 3 where the code reads 10, since the operator writes two tags
  on a role and three on a policy: pages that hold all, just all, and not all of the tags occur.
  `Retagged` bounds the keys others change; the two ownership tags are among them, the checksum
  is not, because `ChecksumTells` is claimed as long as nobody else touches it.
* `StatusList`: three names make an entry in the middle; the list cannot grow past them
  (`NoTwice`), so the state space is finite without a bound.
* No symmetry: the specifications name roles and policies individually.
* `CHECK_DEADLOCK FALSE` everywhere: with the requests used up, nothing queued and
  nothing on its way the system rests.

### Fairness

`FairSpec` assumes: the worker goroutine runs (`WF(Worker)`); the informer delivers
(`WF(WatchEvent(c))`); a queued key is taken in the end (`SF(Pick(c))`: the queue is
first-in-first-out, and a delay ends); and no role of the specification is kept from
being visited first for ever (`SF(SyncRole(r))`: Go begins the iteration over a map at a
random element). The last one is needed: with a policy shared by two roles, a
document change gets through only after passes that begin with either role. Nothing is assumed
of users, control planes or faults. `liveness` runs without faults; `healing`
has them, at the price of a smaller object. That somebody removes a foreign policy is a hypothesis of
`DeletionCompletes`, not an assumption.

## 4. What is proved

For every value of the constants, from the named assumptions of `Resources`,
`IAMAccount`, `KubeAPI`, `Reconciler` and `OwnershipTags` (`None` is none of the things beside it; users'
specifications and tags are of the type; bounds are natural numbers):

| Theorem | Module | States |
|---|---|---|
| `TypeCorrect` | `ReconcilerTypeProof` | `Spec => []TypeOK` |
| `FinalizerInvariance` | `FinalizerProof` | `Spec => []FinalizerInv` |
| `FinalizerGuardHolds` | `FinalizerProof` | `Spec => []FinalizerGuard` |
| `FinalizerReleasedHolds` | `FinalizerProof` | `Spec => FinalizerReleased` |
| `NothingLeft` | `FinalizerProtocol` | `AsksTyped` implies `Spec => []NothingLeftBehind`, of the protocol |
| `ProtocolInvariance` | `ProtocolProof` | `Spec => []ProtocolInv` |
| `ProtocolImplementedHolds` | `ProtocolProof` | `Spec => ProtocolImplemented`: the refinement |
| `NoRoleLeft` | `ProtocolProof` | `Spec => []NoRoleLeftBehind` |
| `NoLostEditHolds` | `FinalizerProof` | `Spec => NoLostEdit` |
| `QueueInvariance` | `FinalizerProof` | `Spec => []QueueInv` |
| `NeverForgottenHolds` | `FinalizerProof` | `Spec => []NeverForgotten` |
| `IsolationInvariance` | `IsolationProof` | `Disjoint` implies `Spec => []IsolationInv` |
| `IsolationHolds` | `IsolationProof` | `Disjoint` implies `Spec => Isolation` |
| `PassInvariance` | `SyncProof` | `Spec => []PassInv` |
| `KeepsWantedHolds` | `SyncProof` | `DistinctNames` implies `Spec => KeepsWanted` |
| `DropInvariance` | `SyncProof` | `MaxDrift = 0 \/ MaxForeign = 0` implies `Spec => []DropInv` |
| `PrunesOwnHolds` | `SyncProof` | `MaxDrift = 0 \/ MaxForeign = 0` implies `Spec => PrunesOwn` |
| `IdempotentHolds` | `SyncProof` | `MaxDrift = 0 \/ MaxForeign = 0` implies `Spec => Idempotent` |
| `SyncInvariance` | `SyncProof` | `DistinctNames`, `MaxDrift = 0` imply `Spec => []SyncInv` |
| `ProvidedAtEndHolds` | `SyncProof` | `DistinctNames`, `MaxDrift = 0` imply `Spec => []ProvidedAtEnd` |
| `SyncedAtEndHolds` | `SyncProof` | `DistinctNames`, `MaxDrift = 0`, `MaxForeign = 0` imply `Spec => []SyncedAtEnd` |
| `TagInvariance` | `OwnershipTagsProof` | `Spec => []TagInv`, of the tags |
| `ListsOwnOnlyHolds` | `OwnershipTagsProof` | `Spec => []ListsOwnOnly` |
| `ListsAllOwnHolds` | `OwnershipTagsProof` | `Spec => []ListsAllOwn` |
| `ChecksumTellsHolds` | `OwnershipTagsProof` | `"checksum" \notin Retagged` implies `Spec => []ChecksumTells` |
| `NoTwiceHolds` | `StatusListProof` | `Spec => []NoTwice`, of a status list |
| `OthersKeptHolds` | `StatusListProof` | `Spec => OthersKept`, of a status list |
| `NamesImplementedHolds` | `StatusListProof` | `Spec => NamesImplemented`, of a status list |

So all of this holds for any number of objects, with any number of undelivered events, under
failed calls, lost answers, crashes, drift and entities of others, where TLC looked at
one or two objects and two events. `AsksTyped` gives the type of
the protocol's constant, and `NoRoleLeft` proves it of the mapping.

Some theorems have a hypothesis that restricts the system. Each says for whom the property is claimed, each is
met by the runs that check the property, and without it the property fails:

* `Disjoint`: the specifications of different objects share no cluster and no name (the
  instance `pair` is one; `shared_cluster` and `common_name` are not).
* `DistinctNames`: no map of a specification uses one name twice. Two entries of `spec.roles` with one name
  take from the role, in every pass, what only the other one refers to.
* `MaxDrift = 0 \/ MaxForeign = 0`: others do not both remove and create. With one of each, TLC finds a role
  that is listed by its tags, removed, created outside the path by another tool, and then
  deleted for its name: against `PrunesOwn`, and, as the account is in sync once the role is removed,
  against `Idempotent`. No run is kept for it.
* `MaxDrift = 0`: nobody else removes anything, for `SyncInv`, `ProvidedAtEnd` and `SyncedAtEnd`. Removals undo a
  pass behind its back.
* `MaxForeign = 0`: nobody else creates anything, for `SyncedAtEnd` alone. With one foreign creation TLC finds
  that the role is adopted by name, a pass attaches a policy to it and ends, an edit drops the
  policy, and the next pass does not see it attached. `ProvidedAtEnd` is what remains.
* `"checksum" \notin Retagged`: nobody else changes the checksum tag, which is all that `Outdated` looks at.

### The arguments

*Types.* `TypeOK` is not inductive: that `w.role` may be used as a role and
`air.spec.policies[w.item]` as an entry depends on where the worker is. `Scoped` says
which locals are in use at each point, and, while the worker is in
`updateCRDStatus`, at the point it will return to. The lemmas follow the
code: the operations of IAM keep `IAMTypeOK`; `Goto`, `Report`, `Return` and `Update` keep the
rest; then each handler uses the two.

*Finalizer.* `FinalizerGuard` speaks of the server, the worker of its copy. Five
facts connect them:

1. `ServerInv`: once a living version with the finalizer can still be read (cache or
   undelivered event), the server holds the finalizer; the last event is the
   server's object; a deleted object exists only with the finalizer.
2. `AtHand`: a fresh copy is the server's object; a fresh copy of a
   deleted object means that no older living version can be read any more, so that
   removing the finalizer breaks no promise of (1); a living copy with the finalizer,
   fresh or not, means that the server has it.
3. `Branch`: the branch taken on the copy's deletion and finalizer still fits it.
4. `DestroyGuard`: inside `deleteIAMResources` the server's object is deleted and has
   the finalizer. On entry this comes from the fresh status update to
   `Destroying`; afterwards no user request undoes it.
5. `RolesGone`: roles the loop of `deleteIAMResources` has left behind are gone from the
   path, since only the worker creates roles there.

They were checked with TLC (run `faults`) before they were proved. Most actions
write nothing to the server (`Quiet`) and stay in their branch (`Moves`), which settles them together;
`UpdateKeeps` settles every update of the worker, `UserStep` every request of a user.

*What users asked for.* `NoLostEdit` is about a write of the worker, who sends back the whole object as read. The
server takes it only when `fresh`, and then (`AtHand`) the copy is the server's object but for what the worker itself
has set: status, finalizer. The removal of the finalizer removes an object only when it is being deleted, which
`Branch` says of the branch it is in.

*The protocol.* A step of `Reconciler` that leaves the server's object in its stage and
creates no role (`Calm`) is a removal by the worker or by others, or no step at all. What
remains is a request of a user, the update that adds the finalizer (`Guard`), the creation of
a role (`Work`), and the removal of the finalizer (`Release`). Creation needs `FinalizerGuard`,
and two facts more (`ProtocolInv`): the object at hand was asked for by its users
(`SpecsKnown`), and the role about to be created is one it names (`CreatesOwn`). Removal needs
`RolesGone`. `NoRoleLeft` then follows from `NothingLeft`, which is an induction over the
steps of the protocol alone.

*The queue.* A pass may end without bringing its key back (frequency zero). That
is right only if the copy it worked on, however old, says the same as the server's object
or an event on its way will queue the key. Hence `Chain`: every version that can be read agrees
with the server's on specification, deletion and having been looked at, or is followed by an event the
predicate lets pass. `Followed` says so of the copy at hand; `Ending` that a pass that ends
well worked on a living object and has left it a phase. `GenerationChangedPredicate` drops
only events over which two versions agree.

*Isolation.* The worker finds entities by the names of the specification at hand, by tags, and by
what is attached to what it has found. `IAMOwned` says that each way leads only to the object's
own: every entity under the path has a name and a cluster of one and the same object, and so have
both ends of an attachment to a policy there. An attachment to a policy outside the path may be to
anything, but `DetachRolePolicy` does nothing to it, since `GetPolicyByName` does not find it.
`Within` says the same of the local variables. Each operation of IAM keeps `IAMOwned` and changes
nothing but the names it is given; each handler gives it names that are `Within`.

*Synchronisation.* Three invariants, by what they survive.

1. `PassInv` survives everything. It ties the locals of `syncAWSIAMResources`, `syncRole` and
   `syncPoliciesByRoleSpec` to the specification at hand: roles about to be deleted and policies about to be detached
   or deleted are not wanted, listed policies carry the cluster's tags or are gone (a policy outside the path is not found by
   `GetPolicyByName`, so nobody else's can take its place), and a policy is taken down for replacement only
   when its document is not the one asked for. `KeepsWanted` is read off it, step by step.
2. `DropInv` says of roles what `PassInv` says of policies. Roles are found by name alone, hence
   the hypothesis. `PrunesOwn` and `Idempotent` follow: in an account in sync, what carries the tags is
   wanted, so the lists of a pruning are empty or stale, and what they name is gone.
3. `SyncInv` says how far the pass has got. `PrunedAt`: what carries the tags is wanted or still to
   be looked at (`RolesLeft`, `PoliciesLeft`), and no entry's role in the path has a policy attached that the entry does not
   refer to, unless the entry is still in the loop. `ProvidedAt`: the entries behind the worker are provided, and of the
   entry at hand the policies it has worked off. The hard part is that providing one entry takes nothing
   from another one: a shared policy is replaced only when its document is not the one wanted, and then no entry
   behind the worker can have it provided; and a created entity carries a wanted name. Others who create add only
   what is outside the path and carries no tags (`Grown`), which takes nothing away; a name they take before the worker
   does gives it a nil result, and `Doomed` excepts the one point between that result and the end of the pass. With
   everything behind the worker and nothing left to look at, `SyncInv` at the end of the pass is `Provided`, and, when
   all roles are in the path, `InSync`.

Most handlers end in one change of the account and one move of the worker: the lemmas named `...Frame` say what
each IAM operation does to every entity, and the step of each handler is the two together.

*Tags.* `SimilarTags`: as long as the tags read have no tag twice, `getSimilarTags(want, result) = want` exactly when
each tag of `want` is in `result`, for lists of any length. `FlattenSeq` is defined by a recursive function; that it
exists and gives the concatenation (`JoinExists`, `Flattened`) is an induction over positions, made without the
library's induction theorems, from the well-foundedness of `<` on the naturals (`AllPositions`). The inner loop then gives a tag once or not at
all (`MatchOnce`), so the outer loop appends at most one tag for each place of `want`, and reproduces `want` only when it
never misses. `TagInv` gives the condition: IAM never lists a key twice, since `CreatePolicy` is refused such tags and
a change by hand replaces. `ChecksumTells` adds that the tag `CreatePolicy` puts on a policy stays with it.

*Status lists.* `NoTwice` is inductive together with the types; each branch of `Report` is then
a step of `StatusNames`. For `OthersKept` the places before and after a cut are mapped to each other in order.

### Only model-checked

* Liveness (`Converges`, `Settles`, `DeletionCompletes`): the prover has no rules for fairness
  and `ENABLED`.
* The refuted statements of the violation runs.

## 5. What is not modelled

* Paging of the listings of roles, policies and entities, which the code does to the end
  (that of the tags, which it does not do, is in `OwnershipTags`).
* Policies outside the path which have the name of one inside it at the same time, as AWS managed ones
  may: names are unique in the account here.
* The texts, times and metadata of status entries; the region; log and message texts; ARN and JSON formatting.
* The three seconds of sleep before the finalizer goes.
* The delays of the queue. Back-off and `RequeueAfter` only order keys in time; a key
  that comes back may be taken at any time here, which includes every delay. A work queue of its own
  would be a model of client-go, of which `src/` sets no parameter. The key of an object that is gone is
  requeued every ten seconds for ever; that does no harm to IAM and no property is about it.
* Start-up: flags, `WATCH_NAMESPACES`, TLS, probes. Leader election: the deployment sets
  `--leader-elect`, so that one worker is active at a time; two active managers are not modelled.
* A deleted object that has somebody else's finalizer and not the operator's: `Reconcile` returns at once. No other finalizer
  is modelled, so a deleted object in the cache always had ours.
* Errors that last: a document IAM rejects or that is no JSON, and a failing first read. Failed calls are
  bounded by `MaxFaults` (`CallFails`), and `Converges` is about documents IAM accepts.
* Generated deep copies, scheme registration, the test bootstrap, manifests. Reading the manifests
  beside the code one notices that `config/rbac/role.yaml` grants nothing on `awsmanagedcontrolplanes`, and
  that README.md:101 says the control plane is watched, while `SetupWithManager` watches
  `AWSIAMProvision` only and the operator polls.

## 6. Plan

Done: the account with paths and others in it, the server side, the reconciler with keys and names, tags,
status lists, the abstract protocol and its refinement, the properties and runs above, and the
proofs of section 4. Every safety invariant and every action property of the passing runs is stated by a
theorem; what only TLC checks is liveness.

Possible extensions:

1. `IAMAccount` as an abstraction of `OwnershipTags`: that `PoliciesTagged` is what `ListByTags` gives as long as
   the tags fit a page and nobody changes them, as a refinement.
2. A run with fairness over an edit of `eksClusterName`, for the loop over the roles of a dropped policy.
3. A step towards `Converges`: that a pass which fails on a shared policy has left it attached to fewer roles.
