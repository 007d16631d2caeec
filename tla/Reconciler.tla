----------------------------- MODULE Reconciler -----------------------------
(***************************************************************************)
(* The controller of AWSIAMProvision objects (internal/controller).        *)
(*                                                                         *)
(* controller-runtime runs one worker (MaxConcurrentReconciles = 1), so a  *)
(* call of Reconcile runs alone, but between any two of its calls to IAM   *)
(* or to the API server users edit and delete objects, control planes come *)
(* and go, the cache moves, calls fail and the process dies.  An action    *)
(* below ends at the next call that changes IAM or the API server; the     *)
(* reads which only prepare that call belong to the action before it.      *)
(* The variable pc names the point reached.  Ranging over a Go map and     *)
(* over what IAM lists is a choice of any element not yet visited.         *)
(*                                                                         *)
(* Covered: Reconcile and everything it calls in internal/controller.      *)
(* Not covered: the texts of messages and logs, the per-entity phase in    *)
(* the status lists, the three seconds of sleep before the finalizer goes. *)
(***************************************************************************)
EXTENDS IAMAccount, KubeAPI

CONSTANTS
    MaxFaults,   \* bound: calls that fail or whose answer is lost
    MaxCrashes,  \* bound: restarts of the process
    MaxDrift,    \* bound: removals by others of what the operator made
    MaxForeign   \* bound: creations by others outside the operator's path

ASSUME BoundsAssumption == /\ MaxFaults \in Nat
                           /\ MaxCrashes \in Nat
                           /\ MaxDrift \in Nat
                           /\ MaxForeign \in Nat

VARIABLES
    pc,     \* where the worker is in Reconcile
    cur,    \* the key of the request, None when idle
    air,    \* the object as read from the cache and then as last written
    fresh,  \* air carries the server's resourceVersion
    w,      \* the other local variables of Reconcile and its callees
    call,   \* arguments of updateCRDStatus and where it returns to
    left    \* faults, crashes and changes by others left

workerVars == <<pc, cur, air, fresh, w, call>>
vars == <<iamVars, kubeVars, workerVars, left>>

(* The fields of w, after the Go variables they hold:                       *)
(*   arn        the control plane's OIDC provider ARN                       *)
(*   listed     iamPolicies, and from dropPolicies on deletePolicies        *)
(*   dropRoles  deleteRoles                                                 *)
(*   todo       the keys of spec.roles not yet ranged over                  *)
(*   entry      the key of the entry of spec.roles being worked on          *)
(*   role, pol  the names of the role and the policy being worked on        *)
(*   pend       the policies of that role not yet ranged over               *)
(*   refs       the keys of spec.policies not yet ranged over for that role *)
(*   item       the key of the entry of spec.policies being worked on       *)
(*   kill       deleteIAMResources' policies, for BatchDeletePolicies       *)
(*   ents       the entities not yet ranged over for that policy            *)
(*   made       CreatePolicy's result is not nil                            *)
(*   again      syncPoliciesByRoleSpec is to run once more for the role     *)
NoLocals == [arn |-> None, listed |-> {}, dropRoles |-> {}, todo |-> {},
             entry |-> None, role |-> None, pol |-> None, pend |-> {},
             refs |-> {}, item |-> None, kill |-> {}, ents |-> {},
             made |-> FALSE, again |-> FALSE]

(* The result handed to updateCRDStatus: none, a role, a policy, or the nil *)
(* pointer CreateRole and CreatePolicy return for what already exists.      *)
NoResult  == [kind |-> "none", name |-> None]
Role(r)   == [kind |-> "role", name |-> r]
Policy(p) == [kind |-> "policy", name |-> p]
NilResult == [kind |-> "nil", name |-> None]

NoCall == [phase |-> "", result |-> NoResult, return |-> "idle"]

(* Points inside deleteIAMResources: their errors end in phase Failed.      *)
DestroyPoints == {"destroyRoles", "destroyDetach", "destroyPolicies", "destroyRole"}

(* Points inside syncAWSIAMResources, syncRole and syncPoliciesByRoleSpec.  *)
SyncPoints == {"list", "staleRefs", "staleDetach", "dropRoles", "dropDetach",
               "dropPolicies", "dropPolicy", "dropEntities", "dropEntityPolicy",
               "syncRoles", "createRole", "updateRole", "policies", "createPolicy",
               "attachNew", "updDetach", "updDelete", "updCreate", "updAttach",
               "checkAttached", "attach"}

PC == {"idle", "getClusterResources", "newIAMClient", "addFinalizer", "status",
       "unfinalize", "final", "return", "requeue"} \cup DestroyPoints \cup SyncPoints

Locals == [arn : ARN \cup {None}, listed : SUBSET PolicyName,
           dropRoles : SUBSET RoleName, todo : SUBSET RoleKey,
           entry : RoleKey \cup {None}, role : RoleName \cup {None},
           pol : PolicyName \cup {None}, pend : SUBSET PolicyName,
           refs : SUBSET PolicyKey, item : PolicyKey \cup {None},
           kill : SUBSET PolicyName, ents : SUBSET RoleName,
           made : BOOLEAN, again : BOOLEAN]

Result == [kind : {"none", "nil"}, name : {None}] \cup [kind : {"role"}, name : RoleName]
            \cup [kind : {"policy"}, name : PolicyName]
Call == [phase : Phase, result : Result, return : PC]

----------------------------------------------------------------------------
(* How an action of the worker ends *)

(* Go on at point l.                                                       *)
Goto(l, locals) == /\ pc' = l
                   /\ w' = locals
                   /\ UNCHANGED <<cur, air, fresh, call, kubeVars>>

(* Call updateCRDStatus and go on at l when it succeeds.                   *)
Report(phase, result, l, locals) ==
    /\ pc' = "status"
    /\ w' = locals
    /\ call' = [phase |-> phase, result |-> result, return |-> l]
    /\ UNCHANGED <<cur, air, fresh, kubeVars>>

Leave == /\ pc' = "idle"
         /\ cur' = None
         /\ air' = None
         /\ fresh' = FALSE
         /\ w' = NoLocals
         /\ call' = NoCall

(* Leave Reconcile.  An error and a positive RequeueAfter both bring the   *)
(* key back.                                                               *)
Return(again) ==
    /\ Leave
    /\ queue' = IF again THEN queue \cup {cur} ELSE queue
    /\ UNCHANGED <<cr, cache, feed, cp, edits>>

ReturnError == Return(TRUE) /\ UNCHANGED iamVars

(* Broken variant of Update: the error of a conflict is dropped.           *)
UpdateUnchecked(obj, l) ==
    /\ IF fresh THEN Write(cur, Stored(obj)) ELSE UNCHANGED <<cr, feed>>
    /\ air' = obj
    /\ pc' = l
    /\ call' = NoCall
    /\ UNCHANGED <<cur, fresh, w, cache, queue, cp, edits>>

(* Broken variant of Update: no resourceVersion is sent, the server takes  *)
(* whatever the worker has at hand.                                        *)
UpdateAnyVersion(obj, l) ==
    /\ cr[cur] # None
    /\ Write(cur, Stored(obj))
    /\ air' = obj
    /\ pc' = l
    /\ call' = NoCall
    /\ UNCHANGED <<cur, fresh, w, cache, queue, cp, edits>>

(* Update and Status().Update: the server takes them only for its latest   *)
(* resourceVersion and answers with the new object.                        *)
Update(obj, l) ==
    \/ ~fresh /\ Return(TRUE)
    \/ /\ fresh
       /\ Write(cur, Stored(obj))
       /\ air' = obj
       /\ pc' = l
       /\ call' = NoCall
       /\ UNCHANGED <<cur, fresh, w, cache, queue, cp, edits>>

----------------------------------------------------------------------------
(* Reconcile up to the choice between provisioning and destroying *)

Pick(c) == /\ pc = "idle"
           /\ c \in queue
           /\ queue' = queue \ {c}
           /\ cur' = c
           /\ air' = cache[c]
           /\ fresh' = (feed[c] = <<>>)
           /\ pc' = "getClusterResources"
           /\ UNCHANGED <<w, call, cr, cache, feed, cp, edits, iamVars>>

ControlPlaneReady == cp[air.spec.cluster] \in ARN

GetClusterResources ==
    /\ pc = "getClusterResources"
    /\ UNCHANGED iamVars
    /\ \/ air = None /\ Return(TRUE)
       \/ /\ air # None
          /\ ~ControlPlaneReady
          /\ Report("Provisioning", NoResult, "requeue", w)
       \/ /\ air # None
          /\ ControlPlaneReady
          /\ Goto("newIAMClient", [w EXCEPT !.arn = cp[air.spec.cluster]])

(* A deleted object keeps our finalizer until unfinalize, and it is the    *)
(* only one: there is no deleted object without it to return for.          *)
NewIAMClient ==
    /\ pc = "newIAMClient"
    /\ UNCHANGED iamVars
    /\ \/ ~air.deleting /\ ~air.finalizer /\ Goto("addFinalizer", w)
       \/ ~air.deleting /\ air.finalizer /\ Goto("list", w)
       \/ /\ air.deleting
          /\ Report("Destroying", NoResult, "destroyRoles",
                    [w EXCEPT !.todo = DOMAIN air.spec.roles])

(* Broken variant of AddFinalizer: the finalizer is not sent to the server. *)
AddFinalizerInMemory ==
    /\ pc = "addFinalizer"
    /\ pc' = "list"
    /\ air' = [air EXCEPT !.finalizer = TRUE]
    /\ UNCHANGED <<cur, fresh, w, call, kubeVars, iamVars>>

AddFinalizer == /\ pc = "addFinalizer"
                /\ Update([air EXCEPT !.finalizer = TRUE], "list")
                /\ UNCHANGED iamVars

----------------------------------------------------------------------------
(* updateCRDStatus *)

(* A reported entity is listed while it exists and unlisted when it does not. *)
Listed(set, name, exists) == IF exists THEN set \cup {name} ELSE set \ {name}

(* Broken variant of StatusFor: policies are recorded among the roles.     *)
StatusOnlyRoles(obj, phase, result) ==
    [obj EXCEPT !.phase = phase,
                !.roles = IF result.kind \in {"role", "policy"} THEN @ \cup {result.name} ELSE @]

StatusFor(obj, phase, result) ==
    [obj EXCEPT !.phase = phase,
                !.roles = IF result.kind = "role"
                          THEN Listed(@, result.name, RoleExists(result.name)) ELSE @,
                !.policies = IF result.kind = "policy"
                             THEN Listed(@, result.name, PolicyExists(result.name)) ELSE @]

(* Broken variant of UpdateCRDStatus: a nil result is taken for no result. *)
ReportsNilAsNothing == /\ pc = "status"
                       /\ UNCHANGED iamVars
                       /\ Update(StatusFor(air, call.phase, call.result), call.return)

(* A nil result is dereferenced; the panic is recovered into an error.     *)
UpdateCRDStatus ==
    /\ pc = "status"
    /\ UNCHANGED iamVars
    /\ \/ call.result.kind = "nil" /\ Return(TRUE)
       \/ /\ call.result.kind # "nil"
          /\ Update(StatusFor(air, call.phase, call.result), call.return)

----------------------------------------------------------------------------
(* deleteIAMResources and the removal of the finalizer *)

(* Broken variant of DestroyFails: the error is dropped, the loop goes on. *)
DestroyGoesOn == Goto("destroyRoles", w) /\ UNCHANGED iamVars

DestroyFails == /\ Report("Failed", NoResult, "requeue", w)
                /\ UNCHANGED iamVars

DestroyRoles ==
    /\ pc = "destroyRoles"
    /\ UNCHANGED iamVars
    /\ \/ w.todo = {} /\ Report("Destroyed", NoResult, "unfinalize", w)
       \/ \E e \in w.todo :
            LET r    == air.spec.roles[e].name
                rest == [w EXCEPT !.todo = @ \ {e}]
            IN \/ ~RoleExists(r) /\ Goto("destroyRoles", rest)
               \/ /\ RoleExists(r)
                  /\ Goto("destroyDetach", [rest EXCEPT !.role = r, !.pend = PoliciesOf(r),
                                                        !.kill = PoliciesOf(r)])

(* Broken variant of DestroyDetach: the batch has no case for detaching.   *)
DetachNothing ==
    /\ pc = "destroyDetach"
    /\ Goto("destroyPolicies", [w EXCEPT !.pend = {}])
    /\ UNCHANGED iamVars

DestroyDetach ==
    /\ pc = "destroyDetach"
    /\ \/ w.pend = {} /\ Goto("destroyPolicies", w) /\ UNCHANGED iamVars
       \/ \E p \in w.pend : /\ DetachRolePolicy(p, w.role)
                            /\ Goto("destroyDetach", [w EXCEPT !.pend = @ \ {p}])

DestroyPolicies ==
    /\ pc = "destroyPolicies"
    /\ \/ w.kill = {} /\ Goto("destroyRole", w) /\ UNCHANGED iamVars
       \/ \E p \in w.kill :
            \/ ~CanDeletePolicy(p) /\ DestroyFails
            \/ /\ CanDeletePolicy(p)
               /\ DeletePolicy(p)
               /\ Goto("destroyPolicies", [w EXCEPT !.kill = @ \ {p}])

DestroyRole ==
    /\ pc = "destroyRole"
    /\ \/ ~CanDeleteRole(w.role) /\ DestroyFails
       \/ /\ CanDeleteRole(w.role)
          /\ DeleteRole(w.role)
          /\ Goto("destroyRoles", [w EXCEPT !.role = None])

(* Broken variant of Unfinalize: a patch without a resourceVersion.        *)
UnfinalizeAnyVersion ==
    /\ pc = "unfinalize"
    /\ cr[cur] # None
    /\ Write(cur, None)
    /\ Leave
    /\ UNCHANGED <<cache, queue, cp, edits, iamVars>>

Unfinalize ==
    /\ pc = "unfinalize"
    /\ UNCHANGED iamVars
    /\ \/ ~fresh /\ Return(TRUE)
       \/ /\ fresh
          /\ Write(cur, Stored([air EXCEPT !.finalizer = FALSE]))
          /\ Leave
          /\ UNCHANGED <<cache, queue, cp, edits>>

----------------------------------------------------------------------------
(* syncAWSIAMResources: remove what the specification no longer asks for *)

WantedRoles    == RolesNamed(air.spec)
WantedPolicies == PoliciesNamed(air.spec)

(* The listed policies that ListEntitiesForPolicy shows for an entry's role. *)
ListedOf(e) == {p \in w.listed : air.spec.roles[e].name \in EntitiesOf(p)}

(* Broken variants of the sets below: nothing is taken out of the sets to  *)
(* delete, nothing is ever deleted, the policies of the map are kept       *)
(* instead of those of the role, every attached policy is stale.           *)
KeepNothingRoles    == RolesTagged(air.spec.cluster)
KeepNothingPolicies == w.listed
DropNoPolicies      == {}
StaleByMap(e)       == ListedOf(e) \ WantedPolicies
StaleAll(e)         == ListedOf(e)

(* deleteRoles and deletePolicies: what is tagged and not in the maps.     *)
UnwantedRoles    == RolesTagged(air.spec.cluster) \ WantedRoles
UnwantedPolicies == w.listed \ WantedPolicies

(* detachRolePolicies: what the entry does not refer to.                   *)
Stale(e) == ListedOf(e) \ air.spec.roles[e].policies

List == /\ pc = "list"
        /\ UNCHANGED iamVars
        /\ Goto("staleRefs",
                [w EXCEPT !.listed = PoliciesTagged(air.spec.cluster),
                          !.dropRoles = UnwantedRoles,
                          !.todo = DOMAIN air.spec.roles])

StaleRefs ==
    /\ pc = "staleRefs"
    /\ UNCHANGED iamVars
    /\ \/ w.todo = {} /\ Goto("dropRoles", w)
       \/ /\ w.todo # {}
          /\ \E p \in w.listed : ~PolicyExists(p)
          /\ Return(TRUE)
       \/ /\ \A p \in w.listed : PolicyExists(p)
          /\ \E e \in w.todo :
               Goto("staleDetach",
                    [w EXCEPT !.todo = @ \ {e}, !.role = air.spec.roles[e].name,
                              !.pend = Stale(e)])

StaleDetach ==
    /\ pc = "staleDetach"
    /\ \/ w.pend = {} /\ Goto("staleRefs", [w EXCEPT !.role = None]) /\ UNCHANGED iamVars
       \/ \E p \in w.pend :
            /\ DetachRolePolicy(p, w.role)
            /\ Report("Provisioned", Policy(p), "staleDetach", [w EXCEPT !.pend = @ \ {p}])

DropRoles ==
    /\ pc = "dropRoles"
    /\ UNCHANGED iamVars
    /\ \/ w.dropRoles = {} /\ Goto("dropPolicies", [w EXCEPT !.listed = UnwantedPolicies])
       \/ \E r \in w.dropRoles :
            LET rest == [w EXCEPT !.dropRoles = @ \ {r}] IN
            \/ ~RoleExists(r) /\ Goto("dropRoles", rest)
            \/ /\ RoleExists(r)
               /\ Goto("dropDetach", [rest EXCEPT !.role = r, !.pend = PoliciesOf(r)])

DropDetach ==
    /\ pc = "dropDetach"
    /\ \/ \E p \in w.pend :
            /\ DetachRolePolicy(p, w.role)
            /\ Report("Provisioned", Policy(p), "dropDetach", [w EXCEPT !.pend = @ \ {p}])
       \/ w.pend = {} /\ ~CanDeleteRole(w.role) /\ ReturnError
       \/ /\ w.pend = {}
          /\ CanDeleteRole(w.role)
          /\ DeleteRole(w.role)
          /\ Report("Provisioned", Role(w.role), "dropRoles", [w EXCEPT !.role = None])

DropPolicies ==
    /\ pc = "dropPolicies"
    /\ UNCHANGED iamVars
    /\ \/ w.listed = {} /\ Goto("syncRoles", [w EXCEPT !.todo = DOMAIN air.spec.roles])
       \/ \E p \in w.listed :
            LET rest == [w EXCEPT !.listed = @ \ {p}]
                at   == [rest EXCEPT !.pol = p, !.ents = EntitiesOf(p)]
            IN \/ ~PolicyExists(p) /\ Goto("dropPolicies", rest)
               \/ PolicyExists(p) /\ at.ents = {} /\ Goto("dropPolicy", at)
               \/ PolicyExists(p) /\ at.ents # {} /\ Goto("dropEntities", at)

(* Delete the policy w.pol and go on at l.                                 *)
DropPolicyThen(l) ==
    \/ ~CanDeletePolicy(w.pol) /\ ReturnError
    \/ /\ CanDeletePolicy(w.pol)
       /\ DeletePolicy(w.pol)
       /\ Report("Provisioned", Policy(w.pol), l,
                 IF l = "dropPolicies" THEN [w EXCEPT !.pol = None] ELSE w)

DropPolicy == pc = "dropPolicy" /\ DropPolicyThen("dropPolicies")

DropEntities ==
    /\ pc = "dropEntities"
    /\ \/ w.ents = {} /\ Goto("dropPolicies", [w EXCEPT !.pol = None]) /\ UNCHANGED iamVars
       \/ \E e \in w.ents : /\ DetachRolePolicy(w.pol, e)
                            /\ Goto("dropEntityPolicy", [w EXCEPT !.ents = @ \ {e}])

DropEntityPolicy == pc = "dropEntityPolicy" /\ DropPolicyThen("dropEntities")

----------------------------------------------------------------------------
(* syncRole *)

Trust(e)   == <<air.spec.roles[e].template, w.arn>>
Renders(e) == {air.spec.roles[e].template, w.arn} \cap Malformed = {}

(* syncPoliciesByRoleSpec ranges over the entries of spec.policies whose   *)
(* names the entry of the role refers to.                                  *)
RefsOf(e) == {i \in DOMAIN air.spec.policies :
                air.spec.policies[i].name \in air.spec.roles[e].policies}

(* syncRole ends with syncPoliciesByRoleSpec and Reconcile calls it again. *)
SyncRole(e) ==
    /\ pc = "syncRoles"
    /\ e \in w.todo
    /\ UNCHANGED iamVars
    /\ LET r  == air.spec.roles[e].name
           at == [w EXCEPT !.todo = @ \ {e}, !.entry = e, !.role = r,
                           !.refs = RefsOf(e), !.again = TRUE]
       IN \/ ~Renders(e) /\ Report("Failed", NoResult, "requeue", w)
          \/ Renders(e) /\ ~RoleExists(r) /\ Goto("createRole", at)
          \/ /\ Renders(e)
             /\ RoleExists(r)
             /\ Goto(IF roles[r].trust = Trust(e) THEN "policies" ELSE "updateRole", at)

SyncRolesDone == /\ pc = "syncRoles"
                 /\ w.todo = {}
                 /\ Goto("final", w)
                 /\ UNCHANGED iamVars

CreateMissingRole ==
    /\ pc = "createRole"
    /\ CreateRole(w.role, Trust(w.entry), air.spec.cluster)
    /\ Report("Provisioned", IF RoleExists(w.role) THEN NilResult ELSE Role(w.role),
              "policies", w)

UpdateRoleTrust ==
    /\ pc = "updateRole"
    /\ UpdateRole(w.role, Trust(w.entry))
    /\ Report("Provisioned", Role(w.role), "policies", w)

----------------------------------------------------------------------------
(* syncPoliciesByRoleSpec *)

(* Broken variant of Outdated: the tags are not compared.                  *)
NeverOutdated(i) == FALSE

(* The checksum tag of the existing policy differs from the document's.    *)
Outdated(i) == policies[air.spec.policies[i].name].doc # air.spec.policies[i].doc

SyncPolicies ==
    /\ pc = "policies"
    /\ UNCHANGED iamVars
    /\ \/ /\ w.refs = {}
          /\ IF w.again
             THEN Goto("policies", [w EXCEPT !.refs = RefsOf(w.entry), !.again = FALSE])
             ELSE Goto("syncRoles", [w EXCEPT !.entry = None, !.role = None])
       \/ \E i \in w.refs :
            LET p  == air.spec.policies[i].name
                at == [w EXCEPT !.refs = @ \ {i}, !.item = i, !.pol = p]
            IN \/ ~PolicyExists(p) /\ Goto("createPolicy", at)
               \/ PolicyExists(p) /\ Outdated(i) /\ Goto("updDetach", at)
               \/ PolicyExists(p) /\ ~Outdated(i) /\ Goto("checkAttached", at)

NextItem == [w EXCEPT !.item = None, !.pol = None]

CreateFromSpec == CreatePolicy(w.pol, air.spec.policies[w.item].doc, air.spec.cluster)

CreateMissingPolicy ==
    /\ pc = "createPolicy"
    /\ CreateFromSpec
    /\ Goto("attachNew", [w EXCEPT !.made = (policies[w.pol] = None)])

(* Attach w.pol to w.role, report and go on at l; an error when either is gone. *)
AttachThen(result, l, locals) ==
    \/ ~CanAttach(w.pol, w.role) /\ ReturnError
    \/ /\ CanAttach(w.pol, w.role)
       /\ AttachRolePolicy(w.pol, w.role)
       /\ Report("Provisioned", result, l, locals)

AttachNew == /\ pc = "attachNew"
             /\ AttachThen(IF w.made THEN Policy(w.pol) ELSE NilResult, "policies",
                           [NextItem EXCEPT !.made = FALSE])

(* A changed document replaces the policy: detach, delete, create, attach. *)
UpdDetach == /\ pc = "updDetach"
             /\ DetachRolePolicy(w.pol, w.role)
             /\ Goto("updDelete", w)

UpdDelete == /\ pc = "updDelete"
             /\ \/ ~CanDeletePolicy(w.pol) /\ ReturnError
                \/ /\ CanDeletePolicy(w.pol)
                   /\ DeletePolicy(w.pol)
                   /\ Goto("updCreate", w)

UpdCreate == /\ pc = "updCreate"
             /\ CreateFromSpec
             /\ Goto("updAttach", w)

UpdAttach == pc = "updAttach" /\ AttachThen(Policy(w.pol), "checkAttached", w)

CheckAttached ==
    /\ pc = "checkAttached"
    /\ UNCHANGED iamVars
    /\ \/ ~RoleExists(w.role) /\ Return(TRUE)
       \/ /\ RoleExists(w.role)
          /\ IF w.pol \in PoliciesOf(w.role)
             THEN Goto("policies", NextItem)
             ELSE Goto("attach", w)

Attach == /\ pc = "attach"
          /\ AttachThen(Policy(w.pol), "policies", NextItem)

----------------------------------------------------------------------------
(* The end of Reconcile *)

(* The phase is brought up to date only after nothing or a failure.        *)
Final == /\ pc = "final"
         /\ UNCHANGED iamVars
         /\ IF air.phase \in {"", "Failed"}
            THEN Report("Provisioned", NoResult, "return", w)
            ELSE Goto("return", w)

(* RequeueAfter setFrequency: nothing is scheduled for zero.               *)
Finish == /\ pc = "return"
          /\ Return(air.spec.frequency > 0)
          /\ UNCHANGED iamVars

(* A returned error, or not ready: back in ten seconds or after a back-off. *)
Requeue == pc = "requeue" /\ ReturnError

----------------------------------------------------------------------------
(* Faults *)

Lose(what) == left[what] > 0 /\ left' = [left EXCEPT ![what] = @ - 1]

(* A call to IAM, STS or the API server answers with an error.             *)
CallFails ==
    /\ Lose("faults")
    /\ UNCHANGED iamVars
    /\ \/ /\ \/ pc \in DestroyPoints \cup {"newIAMClient"}
             \/ pc = "getClusterResources" /\ air # None
          /\ Report("Failed", NoResult, "requeue", w)
       \/ /\ pc \in SyncPoints \cup {"addFinalizer", "status", "unfinalize"}
          /\ Return(TRUE)

(* The answer to a create is lost and the SDK's retry of it finds that the *)
(* entity already exists.                                                  *)
ReplyLost ==
    /\ Lose("faults")
    /\ \/ /\ pc = "createRole"
          /\ CreateRole(w.role, Trust(w.entry), air.spec.cluster)
          /\ Report("Provisioned", NilResult, "policies", w)
       \/ /\ pc = "createPolicy"
          /\ CreateFromSpec
          /\ Goto("attachNew", w)

(* The process dies and a new one starts.                                  *)
Crash == /\ Lose("crashes")
         /\ Leave
         /\ Relist
         /\ UNCHANGED iamVars

----------------------------------------------------------------------------
(* The whole system *)

Init == /\ IAMInit
        /\ KubeInit
        /\ pc = "idle" /\ cur = None /\ air = None /\ fresh = FALSE
        /\ w = NoLocals /\ call = NoCall
        /\ left = [faults |-> MaxFaults, crashes |-> MaxCrashes,
                   drift |-> MaxDrift, foreign |-> MaxForeign]

Begin   == (\E c \in CR : Pick(c)) \/ GetClusterResources \/ NewIAMClient \/ AddFinalizer
Destroy == DestroyRoles \/ DestroyDetach \/ DestroyPolicies \/ DestroyRole \/ Unfinalize
Prune   == \/ List \/ StaleRefs \/ StaleDetach \/ DropRoles \/ DropDetach
           \/ DropPolicies \/ DropPolicy \/ DropEntities \/ DropEntityPolicy
Provide == \/ (\E e \in RoleKey : SyncRole(e)) \/ SyncRolesDone
           \/ CreateMissingRole \/ UpdateRoleTrust
           \/ SyncPolicies \/ CreateMissingPolicy \/ AttachNew
           \/ UpdDetach \/ UpdDelete \/ UpdCreate \/ UpdAttach \/ CheckAttached \/ Attach
End     == Final \/ Finish \/ Requeue

Worker == /\ Begin \/ UpdateCRDStatus \/ Destroy \/ Prune \/ Provide \/ End
          /\ UNCHANGED left

Faults == CallFails \/ ReplyLost \/ Crash

Environment ==
    \/ /\ \E c \in CR : UserRequest(c) /\ fresh' = (fresh /\ c # cur)
       /\ UNCHANGED <<pc, cur, air, w, call, left, iamVars>>
    \/ /\ (\E c \in CR : WatchEvent(c)) \/ (\E k \in Cluster : ControlPlaneChanges(k))
       /\ UNCHANGED <<workerVars, left, iamVars>>
    \/ /\ \/ Lose("drift") /\ OutOfBand
          \/ Lose("foreign") /\ Foreign
       /\ UNCHANGED <<workerVars, kubeVars>>

Next == Worker \/ Faults \/ Environment

Spec == Init /\ [][Next]_vars

----------------------------------------------------------------------------
(* Types: every variable stays within what the Go types and the API allow. *)
TypeOK == /\ IAMTypeOK
          /\ KubeTypeOK
          /\ pc \in PC
          /\ cur \in CR \cup {None}
          /\ air \in Object \cup {None}
          /\ fresh \in BOOLEAN
          /\ w \in Locals
          /\ call \in Call
          /\ left \in [{"faults", "crashes", "drift", "foreign"} -> Nat]
=============================================================================
