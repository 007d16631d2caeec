------------------------ MODULE ReconcilerTypeProof ------------------------
(***************************************************************************)
(* Type correctness of Reconciler for every value of its constants.        *)
(*                                                                         *)
(* TypeOK alone is not inductive: that an action may use w.role as a role, *)
(* air as an object or w.item as a key of air.spec.policies depends on     *)
(* where the worker is.  Scoped says which locals are in use at a point;   *)
(* while the worker is in updateCRDStatus that point is the one it returns *)
(* to.                                                                     *)
(***************************************************************************)
EXTENDS ReconcilerProperties, TLAPS

RolePoints == {"destroyDetach", "destroyPolicies", "destroyRole", "staleDetach", "dropDetach"}
TodoPoints == {"destroyRoles", "destroyDetach", "destroyPolicies", "destroyRole",
               "staleRefs", "staleDetach", "syncRoles"} \cup SyncRolePoints

(* What the locals x and the object o are at point l.                      *)
ScopeAt(l, x, o) ==
    /\ l \notin {"idle", "getClusterResources"} => o \in Object
    /\ l \notin {"idle", "getClusterResources", "requeue"} => x.arn \in ARN
    /\ l \in RolePoints \cup SyncRolePoints => x.role \in RoleName
    /\ l \in PolicyPoints \cup SyncPolicyPoints => x.pol \in PolicyName
    /\ l \in TodoPoints => x.todo \subseteq DOMAIN o.spec.roles
    /\ l \in SyncRolePoints => /\ x.entry \in DOMAIN o.spec.roles
                               /\ x.refs \subseteq DOMAIN o.spec.policies
    /\ l \in SyncPolicyPoints => x.item \in DOMAIN o.spec.policies

(* Where updateCRDStatus may return to.                                    *)
ReturnPoints == DestroyPoints \cup SyncPoints \cup {"unfinalize", "return", "requeue"}

WorkerTypeOK == /\ pc \in PC
                /\ cur \in CR \cup {None}
                /\ air \in Object \cup {None}
                /\ fresh \in BOOLEAN
                /\ w \in Locals
                /\ call \in Call

Scoped == /\ pc # "idle" => cur \in CR
          /\ pc # "status" => ScopeAt(pc, w, air)
          /\ pc = "status" => call.return \in ReturnPoints /\ ScopeAt(call.return, w, air)
                              /\ air \in Object

LeftTypeOK == left \in [{"faults", "crashes", "drift", "foreign"} -> Nat]

TypeInv == IAMTypeOK /\ KubeTypeOK /\ WorkerTypeOK /\ Scoped /\ LeftTypeOK

----------------------------------------------------------------------------
(* The data of an object *)

(* The maps of a specification: their keys and their values.               *)
LEMMA SpecFields ==
    ASSUME NEW s \in Spec_
    PROVE  /\ s.cluster \in Cluster
           /\ s.frequency \in Nat
           /\ DOMAIN s.roles \subseteq RoleKey
           /\ \A e \in DOMAIN s.roles : /\ s.roles[e].name \in RoleName
                                        /\ s.roles[e].template \in Template
                                        /\ s.roles[e].policies \subseteq PolicyName
           /\ DOMAIN s.policies \subseteq PolicyKey
           /\ \A i \in DOMAIN s.policies : /\ s.policies[i].name \in PolicyName
                                           /\ s.policies[i].doc \in Doc
<1>1. PICK R \in SUBSET RoleKey : s.roles \in [R -> RoleSpec]
  BY DEF Spec_, MapsOn
<1>2. PICK P \in SUBSET PolicyKey : s.policies \in [P -> PolicySpec]
  BY DEF Spec_, MapsOn
<1>3. \A e \in DOMAIN s.roles : s.roles[e] \in RoleSpec
  BY <1>1
<1>4. \A i \in DOMAIN s.policies : s.policies[i] \in PolicySpec
  BY <1>2
<1> QED BY <1>1, <1>2, <1>3, <1>4 DEF Spec_, RoleSpec, PolicySpec

(* The specification of a stored object is one.                            *)
LEMMA ObjectSpec == ASSUME NEW o \in Object PROVE o.spec \in Spec_
  BY DEF Object

----------------------------------------------------------------------------
(* The operations on the account keep its type *)

(* Taking a pair out of the attachments, of whatever names.                *)
LEMMA DetachType ==
    ASSUME IAMTypeOK, NEW p, NEW r, DetachRolePolicy(p, r) PROVE IAMTypeOK'
  BY DEF IAMTypeOK, DetachRolePolicy

(* Attaching a policy to a role, both of them names IAM knows.             *)
LEMMA AttachType ==
    ASSUME IAMTypeOK, NEW p \in PolicyName, NEW r \in RoleName, AttachRolePolicy(p, r)
    PROVE  IAMTypeOK'
  BY DEF IAMTypeOK, AttachRolePolicy

(* Deleting a policy leaves its name without one.                          *)
LEMMA DeletePolicyType ==
    ASSUME IAMTypeOK, NEW p, DeletePolicy(p) PROVE IAMTypeOK'
  BY DEF IAMTypeOK, DeletePolicy

(* Deleting a role leaves its name without one.                            *)
LEMMA DeleteRoleType ==
    ASSUME IAMTypeOK, NEW r, DeleteRole(r) PROVE IAMTypeOK'
  BY DEF IAMTypeOK, DeleteRole

(* Creating a policy, or skipping it because it exists.                    *)
LEMMA CreatePolicyType ==
    ASSUME IAMTypeOK, NEW p \in PolicyName, NEW d \in Doc, NEW k \in Owner,
           CreatePolicy(p, d, k)
    PROVE  IAMTypeOK'
  BY DEF IAMTypeOK, CreatePolicy, PolicyEntry

(* Creating a role, or skipping it because it exists.                      *)
LEMMA CreateRoleType ==
    ASSUME IAMTypeOK, NEW r \in RoleName, NEW t \in TrustDoc, NEW k \in Owner,
           CreateRole(r, t, k)
    PROVE  IAMTypeOK'
  BY DEF IAMTypeOK, CreateRole, RoleEntry

(* A new trust document for a role, or for none when it is gone.           *)
LEMMA UpdateRoleType ==
    ASSUME IAMTypeOK, NEW r \in RoleName, NEW t \in TrustDoc, UpdateRole(r, t)
    PROVE  IAMTypeOK'
  BY DEF IAMTypeOK, UpdateRole, RoleEntry, RoleExists

(* A step which makes no call that changes IAM.                            *)
LEMMA SameIAMType == ASSUME IAMTypeOK, UNCHANGED iamVars PROVE IAMTypeOK'
  BY DEF IAMTypeOK, iamVars

----------------------------------------------------------------------------
(* The ends of the worker's actions keep the types of the rest *)

RestTypeOK == KubeTypeOK /\ WorkerTypeOK /\ Scoped

(* An action of the worker that goes on within Reconcile.                  *)
LEMMA GotoType ==
    ASSUME RestTypeOK, NEW l \in PC \ {"idle", "status"}, NEW x \in Locals, pc # "idle",
           ScopeAt(l, x, air), Goto(l, x)
    PROVE  RestTypeOK'
<1>1. KubeTypeOK' BY DEF RestTypeOK, KubeTypeOK, Goto, kubeVars
<1>2. WorkerTypeOK' BY DEF RestTypeOK, WorkerTypeOK, Goto, kubeVars
<1>3. Scoped' BY DEF RestTypeOK, Scoped, Goto
<1> QED BY <1>1, <1>2, <1>3 DEF RestTypeOK

(* An action that calls updateCRDStatus: the caller's point waits.         *)
LEMMA ReportType ==
    ASSUME RestTypeOK, NEW h \in Phase, NEW res \in Result, NEW l \in ReturnPoints,
           NEW x \in Locals, pc # "idle", air \in Object, ScopeAt(l, x, air),
           Report(h, res, l, x)
    PROVE  RestTypeOK'
<1>1. KubeTypeOK' BY DEF RestTypeOK, KubeTypeOK, Report, kubeVars
<1>2. l \in PC BY DEF ReturnPoints, PC
<1>3. WorkerTypeOK' BY <1>2 DEF RestTypeOK, WorkerTypeOK, Report, Call, PC
<1>4. Scoped' BY DEF RestTypeOK, Scoped, Report
<1> QED BY <1>1, <1>3, <1>4 DEF RestTypeOK

(* The end of Reconcile leaves nothing at hand.                            *)
LEMMA LeaveType ==
    ASSUME Leave PROVE WorkerTypeOK' /\ Scoped'
<1>1. NoLocals \in Locals BY DEF NoLocals, Locals
<1>2. NoCall \in Call BY DEF NoCall, NoResult, Call, Phase, Result, PC
<1>3. WorkerTypeOK' BY <1>1, <1>2 DEF Leave, WorkerTypeOK, PC
<1>4. Scoped'
  BY DEF Leave, Scoped, ScopeAt, RolePoints, TodoPoints, PolicyPoints,
         SyncRolePoints, SyncPolicyPoints
<1> QED BY <1>3, <1>4

(* Reconcile returns, and perhaps puts its key back into the queue.        *)
LEMMA ReturnType ==
    ASSUME RestTypeOK, pc # "idle", NEW b, Return(b) PROVE RestTypeOK'
<1>1. cur \in CR BY DEF RestTypeOK, Scoped
<1>2. KubeTypeOK' BY <1>1 DEF RestTypeOK, KubeTypeOK, Return
<1>3. WorkerTypeOK' /\ Scoped' BY LeaveType DEF Return
<1> QED BY <1>2, <1>3 DEF RestTypeOK

(* A write to the server of an object, or of nothing.                      *)
LEMMA WriteType ==
    ASSUME cr \in [CR -> Object \cup {None}], feed \in [CR -> Seq(Object \cup {None})],
           NEW c \in CR, NEW o \in Object \cup {None}, Write(c, o)
    PROVE  /\ cr' \in [CR -> Object \cup {None}]
           /\ feed' \in [CR -> Seq(Object \cup {None})]
<1>1. Append(feed[c], o) \in Seq(Object \cup {None}) OBVIOUS
<1> QED BY <1>1 DEF Write

(* What the server makes of an object that is written to it.               *)
LEMMA StoredType == ASSUME NEW o \in Object PROVE Stored(o) \in Object \cup {None}
  BY DEF Stored

(* Update: a new version of the object at hand, of the same specification. *)
LEMMA UpdateType ==
    ASSUME RestTypeOK, NEW o \in Object, NEW l \in PC \ {"idle", "status"}, pc # "idle",
           o.spec = air.spec, air \in Object, ScopeAt(l, w, air), Update(o, l)
    PROVE  RestTypeOK'
<1>1. cur \in CR BY DEF RestTypeOK, Scoped
<1>2. CASE ~fresh /\ Return(TRUE) BY <1>2, ReturnType
<1>3. CASE /\ fresh
           /\ Write(cur, Stored(o))
           /\ air' = o
           /\ pc' = l
           /\ call' = NoCall
           /\ UNCHANGED <<cur, fresh, w, cache, queue, cp, edits>>
  <2>1. KubeTypeOK'
    BY <1>1, <1>3, StoredType, WriteType DEF RestTypeOK, KubeTypeOK
  <2>2. NoCall \in Call BY DEF NoCall, NoResult, Call, Phase, Result, PC
  <2>3. WorkerTypeOK' BY <1>3, <2>2 DEF RestTypeOK, WorkerTypeOK
  <2>4. ScopeAt(l, w, o) BY DEF ScopeAt
  <2>5. Scoped' BY <1>1, <1>3, <2>4 DEF Scoped
  <2> QED BY <2>1, <2>3, <2>5 DEF RestTypeOK
<1> QED BY <1>2, <1>3 DEF Update

----------------------------------------------------------------------------
(* Every step of the worker keeps the types *)

StepTypeOK == IAMTypeOK /\ RestTypeOK

(* The facts about the current point each of the proofs below starts from. *)
LEMMA AtPoint ==
    ASSUME RestTypeOK, pc \notin {"idle", "status"}
    PROVE  /\ cur \in CR
           /\ w \in Locals
           /\ ScopeAt(pc, w, air)
           /\ pc # "getClusterResources" => air \in Object
BY DEF RestTypeOK, WorkerTypeOK, Scoped, ScopeAt

(* Taking a key, the control plane, the client and the finalizer.          *)
LEMMA BeginType ==
    ASSUME StepTypeOK, Begin PROVE StepTypeOK'
<1>1. ASSUME NEW c \in CR, Pick(c) PROVE StepTypeOK'
  <2>1. IAMTypeOK' BY <1>1, SameIAMType DEF Pick, StepTypeOK
  <2>2. KubeTypeOK' BY <1>1 DEF Pick, StepTypeOK, RestTypeOK, KubeTypeOK
  <2>3. WorkerTypeOK'
    BY <1>1 DEF Pick, StepTypeOK, RestTypeOK, KubeTypeOK, WorkerTypeOK, PC
  <2>4. Scoped'
    BY <1>1 DEF Pick, Scoped, ScopeAt, RolePoints, TodoPoints, PolicyPoints, SyncRolePoints,
                SyncPolicyPoints
  <2> QED BY <2>1, <2>2, <2>3, <2>4 DEF StepTypeOK, RestTypeOK
<1>2. ASSUME GetClusterResources PROVE StepTypeOK'
  <2>1. pc = "getClusterResources" /\ pc # "idle" BY <1>2 DEF GetClusterResources
  <2>2. IAMTypeOK' BY <1>2, SameIAMType DEF GetClusterResources, StepTypeOK
  <2>3. w \in Locals /\ air \in Object \cup {None}
    BY DEF StepTypeOK, RestTypeOK, WorkerTypeOK
  <2>4. CASE air = None /\ Return(TRUE)
    BY <2>1, <2>2, <2>4, ReturnType DEF StepTypeOK
  <2>5. CASE air # None /\ Report("Provisioning", NoResult, "requeue", w)
    <3>1. ScopeAt("requeue", w, air)
      BY <2>3, <2>5 DEF ScopeAt, RolePoints, TodoPoints, PolicyPoints,
             SyncRolePoints, SyncPolicyPoints
    <3>2. NoResult \in Result /\ "Provisioning" \in Phase /\ "requeue" \in ReturnPoints
      BY DEF NoResult, Result, Phase, ReturnPoints
    <3> QED BY <2>1, <2>2, <2>3, <2>5, <3>1, <3>2, ReportType DEF StepTypeOK
  <2>6. CASE /\ air # None
             /\ ControlPlaneReady
             /\ Goto("newIAMClient", [w EXCEPT !.arn = cp[air.spec.cluster]])
    <3> DEFINE x == [w EXCEPT !.arn = cp[air.spec.cluster]]
    <3>1. x \in Locals /\ x.arn \in ARN BY <2>3, <2>6 DEF Locals, ControlPlaneReady
    <3>2. ScopeAt("newIAMClient", x, air)
      BY <2>3, <2>6, <3>1
      DEF ScopeAt, RolePoints, TodoPoints, PolicyPoints,
             SyncRolePoints, SyncPolicyPoints
    <3>3. "newIAMClient" \in PC \ {"idle", "status"} BY DEF PC
    <3> QED BY <2>1, <2>2, <2>6, <3>1, <3>2, <3>3, GotoType DEF StepTypeOK
  <2> QED BY <1>2, <2>4, <2>5, <2>6 DEF GetClusterResources
<1>3. ASSUME NewIAMClient PROVE StepTypeOK'
  <2>1. pc = "newIAMClient" BY <1>3 DEF NewIAMClient
  <2>2. IAMTypeOK' BY <1>3, SameIAMType DEF NewIAMClient, StepTypeOK
  <2>3. w \in Locals /\ air \in Object /\ w.arn \in ARN
    BY <2>1, AtPoint DEF StepTypeOK, ScopeAt
  <2>4. ASSUME NEW l \in {"addFinalizer", "list"}, Goto(l, w) PROVE StepTypeOK'
    <3>1. ScopeAt(l, w, air)
      BY <2>3 DEF ScopeAt, RolePoints, TodoPoints, PolicyPoints,
             SyncRolePoints, SyncPolicyPoints
    <3>2. l \in PC \ {"idle", "status"} BY DEF PC, SyncPoints
    <3> QED BY <2>1, <2>2, <2>3, <2>4, <3>1, <3>2, GotoType DEF StepTypeOK
  <2>5. CASE Report("Destroying", NoResult, "destroyRoles",
                    [w EXCEPT !.todo = DOMAIN air.spec.roles])
    <3> DEFINE x == [w EXCEPT !.todo = DOMAIN air.spec.roles]
    <3>1. x \in Locals /\ x.arn = w.arn
      BY <2>3, ObjectSpec, SpecFields DEF Locals
    <3>2. ScopeAt("destroyRoles", x, air)
      BY <2>3, <3>1 DEF ScopeAt, RolePoints, TodoPoints, PolicyPoints,
             SyncRolePoints, SyncPolicyPoints
    <3>3. NoResult \in Result /\ "Destroying" \in Phase /\ "destroyRoles" \in ReturnPoints
      BY DEF NoResult, Result, Phase, ReturnPoints, DestroyPoints
    <3> QED BY <2>1, <2>2, <2>3, <2>5, <3>1, <3>2, <3>3, ReportType DEF StepTypeOK
  <2> QED BY <1>3, <2>4, <2>5 DEF NewIAMClient
<1>4. ASSUME AddFinalizer PROVE StepTypeOK'
  <2>1. pc = "addFinalizer" BY <1>4 DEF AddFinalizer
  <2>2. IAMTypeOK' BY <1>4, SameIAMType DEF AddFinalizer, StepTypeOK
  <2>3. air \in Object /\ ScopeAt("list", w, air)
    BY <2>1, AtPoint
    DEF StepTypeOK, ScopeAt, RolePoints, TodoPoints, PolicyPoints,
           SyncRolePoints, SyncPolicyPoints
  <2>4. [air EXCEPT !.finalizer = TRUE] \in Object
        /\ [air EXCEPT !.finalizer = TRUE].spec = air.spec
    BY <2>3 DEF Object
  <2>5. "list" \in PC \ {"idle", "status"} BY DEF PC, SyncPoints
  <2> QED BY <1>4, <2>1, <2>2, <2>3, <2>4, <2>5, UpdateType DEF AddFinalizer, StepTypeOK
<1> QED BY <1>1, <1>2, <1>3, <1>4 DEF Begin

(* updateCRDStatus makes an object of an object and keeps its spec.        *)
LEMMA StatusForType ==
    ASSUME NEW o \in Object, NEW h \in Phase, NEW res \in Result
    PROVE  StatusFor(o, h, res) \in Object /\ StatusFor(o, h, res).spec = o.spec
<1>1. res.kind = "role" => res.name \in RoleName BY DEF Result
<1>2. res.kind = "policy" => res.name \in PolicyName BY DEF Result
<1> QED BY <1>1, <1>2 DEF StatusFor, Listed, Object

(* updateCRDStatus, with its conflict and its nil dereference.             *)
LEMMA UpdateCRDStatusType ==
    ASSUME StepTypeOK, UpdateCRDStatus PROVE StepTypeOK'
<1>1. pc = "status" BY DEF UpdateCRDStatus
<1>2. IAMTypeOK' BY SameIAMType DEF UpdateCRDStatus, StepTypeOK
<1>3. /\ call.return \in ReturnPoints
      /\ ScopeAt(call.return, w, air)
      /\ air \in Object
      /\ call \in Call
  BY <1>1 DEF StepTypeOK, RestTypeOK, Scoped, WorkerTypeOK
<1>4. CASE Return(TRUE) BY <1>1, <1>2, <1>4, ReturnType DEF StepTypeOK
<1>5. CASE Update(StatusFor(air, call.phase, call.result), call.return)
  <2>1. call.phase \in Phase /\ call.result \in Result BY <1>3 DEF Call
  <2>2. call.return \in PC \ {"idle", "status"}
    BY <1>3 DEF ReturnPoints, PC, DestroyPoints, SyncPoints
  <2> QED BY <1>1, <1>2, <1>3, <1>5, <2>1, <2>2, StatusForType, UpdateType DEF StepTypeOK
<1> QED BY <1>4, <1>5 DEF UpdateCRDStatus

(* An error of deleteIAMResources: phase Failed and back later.            *)
LEMMA DestroyFailsType ==
    ASSUME StepTypeOK, pc \in DestroyPoints, DestroyFails PROVE StepTypeOK'
<1>1. pc \notin {"idle", "status", "getClusterResources"} BY DEF DestroyPoints
<1>2. w \in Locals /\ air \in Object BY <1>1, AtPoint DEF StepTypeOK
<1>3. ScopeAt("requeue", w, air)
  BY <1>2 DEF ScopeAt, RolePoints, TodoPoints, PolicyPoints,
         SyncRolePoints, SyncPolicyPoints
<1>4. NoResult \in Result /\ "Failed" \in Phase /\ "requeue" \in ReturnPoints
  BY DEF NoResult, Result, Phase, ReturnPoints
<1>5. IAMTypeOK' BY SameIAMType DEF DestroyFails, StepTypeOK
<1> QED BY <1>1, <1>2, <1>3, <1>4, <1>5, ReportType DEF DestroyFails, StepTypeOK

(* deleteIAMResources and the removal of the finalizer.                    *)
LEMMA DestroyType ==
    ASSUME StepTypeOK, Destroy PROVE StepTypeOK'
<1> USE DEF ScopeAt, RolePoints, TodoPoints, PolicyPoints,
       SyncRolePoints, SyncPolicyPoints
<1>1. ASSUME DestroyRoles PROVE StepTypeOK'
  <2>1. pc = "destroyRoles" BY <1>1 DEF DestroyRoles
  <2>2. IAMTypeOK' BY <1>1, SameIAMType DEF DestroyRoles, StepTypeOK
  <2>3. /\ w \in Locals /\ air \in Object /\ w.arn \in ARN
        /\ w.todo \subseteq DOMAIN air.spec.roles
    BY <2>1, AtPoint DEF StepTypeOK
  <2>4. CASE Report("Destroyed", NoResult, "unfinalize", w)
    <3>1. NoResult \in Result /\ "Destroyed" \in Phase /\ "unfinalize" \in ReturnPoints
      BY DEF NoResult, Result, Phase, ReturnPoints
    <3> QED BY <2>1, <2>2, <2>3, <2>4, <3>1, ReportType DEF StepTypeOK
  <2>5. ASSUME NEW e \in w.todo, Goto("destroyRoles", [w EXCEPT !.todo = @ \ {e}])
        PROVE  StepTypeOK'
    <3> DEFINE x == [w EXCEPT !.todo = @ \ {e}]
    <3>1. x \in Locals /\ x.arn = w.arn /\ x.todo \subseteq w.todo
      BY <2>3 DEF Locals
    <3>2. "destroyRoles" \in PC \ {"idle", "status"} BY DEF PC, DestroyPoints
    <3>3. Goto("destroyRoles", x) BY <2>5
    <3> HIDE DEF x
    <3>4. ScopeAt("destroyRoles", x, air) BY <2>3, <3>1
    <3> QED BY <2>1, <2>2, <3>1, <3>2, <3>3, <3>4, GotoType DEF StepTypeOK
  <2>6. ASSUME NEW e \in w.todo, NEW r, r = air.spec.roles[e].name,
               Goto("destroyDetach", [[w EXCEPT !.todo = @ \ {e}] EXCEPT
                        !.role = r, !.pend = PoliciesOf(r), !.kill = PoliciesOf(r)])
        PROVE  StepTypeOK'
    <3> DEFINE x == [[w EXCEPT !.todo = @ \ {e}] EXCEPT
                        !.role = r, !.pend = PoliciesOf(r), !.kill = PoliciesOf(r)]
    <3>1. r \in RoleName BY <2>3, <2>6, ObjectSpec, SpecFields
    <3>2. PoliciesOf(r) \subseteq PolicyName BY DEF PoliciesOf, AttachedTo
    <3>3. x \in Locals /\ x.arn = w.arn /\ x.role \in RoleName /\ x.todo \subseteq w.todo
      BY <2>3, <3>1, <3>2 DEF Locals
    <3>4. "destroyDetach" \in PC \ {"idle", "status"} BY DEF PC, DestroyPoints
    <3>5. Goto("destroyDetach", x) BY <2>6
    <3> HIDE DEF x
    <3>6. ScopeAt("destroyDetach", x, air) BY <2>3, <3>3
    <3> QED BY <2>1, <2>2, <3>3, <3>4, <3>5, <3>6, GotoType DEF StepTypeOK
  <2> QED BY <1>1, <2>4, <2>5, <2>6 DEF DestroyRoles
<1>2. ASSUME DestroyDetach PROVE StepTypeOK'
  <2>1. pc = "destroyDetach" BY <1>2 DEF DestroyDetach
  <2>2. /\ w \in Locals /\ air \in Object /\ w.arn \in ARN /\ w.role \in RoleName
        /\ w.todo \subseteq DOMAIN air.spec.roles
    BY <2>1, AtPoint DEF StepTypeOK
  <2>3. CASE Goto("destroyPolicies", w) /\ UNCHANGED iamVars
    <3>1. "destroyPolicies" \in PC \ {"idle", "status"} BY DEF PC, DestroyPoints
    <3> QED BY <2>1, <2>2, <2>3, <3>1, SameIAMType, GotoType DEF StepTypeOK
  <2>4. ASSUME NEW p \in w.pend, DetachRolePolicy(p, w.role),
               Goto("destroyDetach", [w EXCEPT !.pend = @ \ {p}])
        PROVE  StepTypeOK'
    <3>1. /\ [w EXCEPT !.pend = @ \ {p}] \in Locals
          /\ [w EXCEPT !.pend = @ \ {p}].arn = w.arn
          /\ [w EXCEPT !.pend = @ \ {p}].role = w.role
          /\ [w EXCEPT !.pend = @ \ {p}].todo = w.todo
      BY <2>2 DEF Locals
    <3>2. "destroyDetach" \in PC \ {"idle", "status"} BY DEF PC, DestroyPoints
    <3>3. IAMTypeOK' BY <2>4, DetachType DEF StepTypeOK
    <3> QED BY <2>1, <2>2, <2>4, <3>1, <3>2, <3>3, GotoType DEF StepTypeOK
  <2> QED BY <1>2, <2>3, <2>4 DEF DestroyDetach
<1>3. ASSUME DestroyPolicies PROVE StepTypeOK'
  <2>1. pc = "destroyPolicies" BY <1>3 DEF DestroyPolicies
  <2>2. /\ w \in Locals /\ air \in Object /\ w.arn \in ARN /\ w.role \in RoleName
        /\ w.todo \subseteq DOMAIN air.spec.roles
    BY <2>1, AtPoint DEF StepTypeOK
  <2>3. CASE Goto("destroyRole", w) /\ UNCHANGED iamVars
    <3>1. "destroyRole" \in PC \ {"idle", "status"} BY DEF PC, DestroyPoints
    <3> QED BY <2>1, <2>2, <2>3, <3>1, SameIAMType, GotoType DEF StepTypeOK
  <2>4. CASE DestroyFails BY <2>1, <2>4, DestroyFailsType DEF DestroyPoints
  <2>5. ASSUME NEW p \in w.kill, DeletePolicy(p),
               Goto("destroyPolicies", [w EXCEPT !.kill = @ \ {p}])
        PROVE  StepTypeOK'
    <3>1. /\ [w EXCEPT !.kill = @ \ {p}] \in Locals
          /\ [w EXCEPT !.kill = @ \ {p}].arn = w.arn
          /\ [w EXCEPT !.kill = @ \ {p}].role = w.role
          /\ [w EXCEPT !.kill = @ \ {p}].todo = w.todo
      BY <2>2 DEF Locals
    <3>2. "destroyPolicies" \in PC \ {"idle", "status"} BY DEF PC, DestroyPoints
    <3>3. IAMTypeOK' BY <2>5, DeletePolicyType DEF StepTypeOK
    <3> QED BY <2>1, <2>2, <2>5, <3>1, <3>2, <3>3, GotoType DEF StepTypeOK
  <2> QED BY <1>3, <2>3, <2>4, <2>5 DEF DestroyPolicies
<1>4. ASSUME DestroyRole PROVE StepTypeOK'
  <2>1. pc = "destroyRole" BY <1>4 DEF DestroyRole
  <2>2. /\ w \in Locals /\ air \in Object /\ w.arn \in ARN /\ w.role \in RoleName
        /\ w.todo \subseteq DOMAIN air.spec.roles
    BY <2>1, AtPoint DEF StepTypeOK
  <2>3. CASE DestroyFails BY <2>1, <2>3, DestroyFailsType DEF DestroyPoints
  <2>4. CASE DeleteRole(w.role) /\ Goto("destroyRoles", [w EXCEPT !.role = None])
    <3>1. /\ [w EXCEPT !.role = None] \in Locals
          /\ [w EXCEPT !.role = None].arn = w.arn
          /\ [w EXCEPT !.role = None].todo = w.todo
      BY <2>2 DEF Locals
    <3>2. "destroyRoles" \in PC \ {"idle", "status"} BY DEF PC, DestroyPoints
    <3>3. IAMTypeOK' BY <2>4, DeleteRoleType DEF StepTypeOK
    <3> QED BY <2>1, <2>2, <2>4, <3>1, <3>2, <3>3, GotoType DEF StepTypeOK
  <2> QED BY <1>4, <2>3, <2>4 DEF DestroyRole
<1>5. ASSUME Unfinalize PROVE StepTypeOK'
  <2>1. pc = "unfinalize" BY <1>5 DEF Unfinalize
  <2>2. IAMTypeOK' BY <1>5, SameIAMType DEF Unfinalize, StepTypeOK
  <2>3. air \in Object /\ cur \in CR BY <2>1, AtPoint DEF StepTypeOK
  <2>4. CASE Return(TRUE) BY <2>1, <2>2, <2>4, ReturnType DEF StepTypeOK
  <2>5. CASE /\ Write(cur, Stored([air EXCEPT !.finalizer = FALSE]))
             /\ Leave
             /\ UNCHANGED <<cache, queue, cp, edits>>
    <3>1. Stored([air EXCEPT !.finalizer = FALSE]) \in Object \cup {None}
      BY <2>3, StoredType DEF Object
    <3>2. KubeTypeOK'
      BY <2>3, <2>5, <3>1, WriteType DEF StepTypeOK, RestTypeOK, KubeTypeOK
    <3> QED BY <2>2, <2>5, <3>2, LeaveType DEF StepTypeOK, RestTypeOK
  <2> QED BY <1>5, <2>4, <2>5 DEF Unfinalize
<1> QED BY <1>1, <1>2, <1>3, <1>4, <1>5 DEF Destroy

(* The ends of an action inside syncAWSIAMResources and its callees.       *)
LEMMA SyncFacts ==
    ASSUME StepTypeOK, pc \in SyncPoints
    PROVE  /\ pc \notin {"idle", "status", "getClusterResources"}
           /\ w \in Locals
           /\ air \in Object
           /\ air.spec \in Spec_
           /\ w.arn \in ARN
           /\ ScopeAt(pc, w, air)
<1>1. pc \notin {"idle", "status", "getClusterResources", "requeue"} BY DEF SyncPoints
<1>2. w \in Locals /\ air \in Object /\ ScopeAt(pc, w, air)
  BY <1>1, AtPoint DEF StepTypeOK
<1> QED BY <1>1, <1>2, ObjectSpec DEF ScopeAt

(* On to another point of the synchronisation, or to its end.              *)
LEMMA SyncGoto ==
    ASSUME StepTypeOK, IAMTypeOK', pc \in SyncPoints, NEW l \in SyncPoints \cup {"final"},
           NEW x \in Locals, ScopeAt(l, x, air), Goto(l, x)
    PROVE  StepTypeOK'
<1>1. l \in PC \ {"idle", "status"} BY DEF PC, SyncPoints
<1> QED BY <1>1, SyncFacts, GotoType DEF StepTypeOK

(* A report from the synchronisation.                                      *)
LEMMA SyncReport ==
    ASSUME StepTypeOK, IAMTypeOK', pc \in SyncPoints, NEW l \in SyncPoints \cup {"requeue"},
           NEW h \in {"Provisioned", "Failed"}, NEW res \in Result,
           NEW x \in Locals, ScopeAt(l, x, air), Report(h, res, l, x)
    PROVE  StepTypeOK'
<1>1. l \in ReturnPoints /\ h \in Phase BY DEF ReturnPoints, Phase
<1> QED BY <1>1, SyncFacts, ReportType DEF StepTypeOK

(* The synchronisation ends in an error.                                   *)
LEMMA SyncReturn ==
    ASSUME StepTypeOK, pc \in SyncPoints, Return(TRUE), UNCHANGED iamVars
    PROVE  StepTypeOK'
BY SyncFacts, ReturnType, SameIAMType DEF StepTypeOK

(* What is reported of an entity is a result.                              *)
LEMMA Results ==
    /\ NoResult \in Result
    /\ NilResult \in Result
    /\ \A r \in RoleName : Role(r) \in Result
    /\ \A p \in PolicyName : Policy(p) \in Result
BY DEF NoResult, NilResult, Role, Policy, Result

(* The removal of what the specification no longer asks for.               *)
LEMMA StaleType ==
    ASSUME StepTypeOK, List \/ StaleRefs \/ StaleDetach PROVE StepTypeOK'
<1> USE DEF ScopeAt, RolePoints, TodoPoints, PolicyPoints,
       SyncPolicyPoints, SyncRolePoints
<1>1. ASSUME List PROVE StepTypeOK'
  <2>1. pc \in SyncPoints /\ IAMTypeOK'
    BY <1>1, SameIAMType DEF List, SyncPoints, StepTypeOK
  <2> DEFINE x == [w EXCEPT !.listed = PoliciesTagged(air.spec.cluster),
                            !.dropRoles = UnwantedRoles,
                            !.todo = DOMAIN air.spec.roles]
  <2>2. DOMAIN air.spec.roles \subseteq RoleKey BY <2>1, SyncFacts, SpecFields
  <2>3. x \in Locals /\ x.arn \in ARN /\ x.todo = DOMAIN air.spec.roles
    BY <2>1, <2>2, SyncFacts DEF Locals, PoliciesTagged, UnwantedRoles, RolesTagged
  <2>5. Goto("staleRefs", x) BY <1>1 DEF List
  <2> HIDE DEF x
  <2>4. ScopeAt("staleRefs", x, air) BY <2>1, <2>3, SyncFacts
  <2> QED BY <2>1, <2>3, <2>4, <2>5, SyncGoto DEF SyncPoints
<1>2. ASSUME StaleRefs PROVE StepTypeOK'
  <2>1. pc \in SyncPoints /\ IAMTypeOK' /\ UNCHANGED iamVars
    BY <1>2, SameIAMType DEF StaleRefs, SyncPoints, StepTypeOK
  <2>2. /\ w \in Locals /\ air \in Object /\ air.spec \in Spec_ /\ w.arn \in ARN
        /\ w.todo \subseteq DOMAIN air.spec.roles
    BY <1>2, <2>1, SyncFacts DEF StaleRefs
  <2>3. CASE Goto("dropRoles", w) BY <2>1, <2>2, <2>3, SyncGoto DEF SyncPoints
  <2>4. CASE Return(TRUE) BY <2>1, <2>4, SyncReturn
  <2>5. ASSUME NEW e \in w.todo,
               Goto("staleDetach", [w EXCEPT !.todo = @ \ {e},
                                             !.role = air.spec.roles[e].name,
                                             !.pend = Stale(e)])
        PROVE  StepTypeOK'
    <3> DEFINE x == [w EXCEPT !.todo = @ \ {e}, !.role = air.spec.roles[e].name,
                              !.pend = Stale(e)]
    <3>1. Stale(e) \subseteq w.listed BY DEF Stale, ListedOf
    <3>2. air.spec.roles[e].name \in RoleName BY <2>2, SpecFields
    <3>3. x \in Locals /\ x.arn \in ARN /\ x.role \in RoleName /\ x.todo \subseteq w.todo
      BY <2>2, <3>1, <3>2 DEF Locals
    <3>4. Goto("staleDetach", x) BY <2>5
    <3> HIDE DEF x
    <3>5. ScopeAt("staleDetach", x, air) BY <2>2, <3>3
    <3> QED BY <2>1, <3>3, <3>4, <3>5, SyncGoto DEF SyncPoints
  <2> QED BY <1>2, <2>3, <2>4, <2>5 DEF StaleRefs
<1>3. ASSUME StaleDetach PROVE StepTypeOK'
  <2>1. pc = "staleDetach" /\ pc \in SyncPoints BY <1>3 DEF StaleDetach, SyncPoints
  <2>2. /\ w \in Locals /\ air \in Object /\ w.arn \in ARN /\ w.role \in RoleName
        /\ w.todo \subseteq DOMAIN air.spec.roles
    BY <2>1, SyncFacts
  <2>3. CASE Goto("staleRefs", [w EXCEPT !.role = None]) /\ UNCHANGED iamVars
    <3>1. /\ [w EXCEPT !.role = None] \in Locals
          /\ [w EXCEPT !.role = None].arn \in ARN
          /\ [w EXCEPT !.role = None].todo = w.todo
      BY <2>2 DEF Locals
    <3>2. IAMTypeOK' BY <2>3, SameIAMType DEF StepTypeOK
    <3> QED BY <2>1, <2>2, <2>3, <3>1, <3>2, SyncGoto DEF SyncPoints
  <2>4. ASSUME NEW p \in w.pend, DetachRolePolicy(p, w.role),
               Report("Provisioned", Policy(p), "staleDetach", [w EXCEPT !.pend = @ \ {p}])
        PROVE  StepTypeOK'
    <3> DEFINE x == [w EXCEPT !.pend = @ \ {p}]
    <3>1. /\ x \in Locals /\ x.arn \in ARN /\ x.role \in RoleName /\ p \in PolicyName
          /\ x.todo = w.todo
      BY <2>2 DEF Locals
    <3>2. ScopeAt("staleDetach", x, air) BY <2>2, <3>1
    <3>3. IAMTypeOK' BY <2>4, DetachType DEF StepTypeOK
    <3>4. Report("Provisioned", Policy(p), "staleDetach", x) BY <2>4
    <3> HIDE DEF x
    <3> QED BY <2>1, <3>1, <3>2, <3>3, <3>4, Results, SyncReport DEF SyncPoints
  <2> QED BY <1>3, <2>3, <2>4 DEF StaleDetach
<1> QED BY <1>1, <1>2, <1>3

(* The roles no longer asked for are emptied and deleted.                  *)
LEMMA DropRolesType ==
    ASSUME StepTypeOK, DropRoles \/ DropDetach PROVE StepTypeOK'
<1> USE DEF ScopeAt, RolePoints, TodoPoints, PolicyPoints,
       SyncPolicyPoints, SyncRolePoints
<1>1. ASSUME DropRoles PROVE StepTypeOK'
  <2>1. pc \in SyncPoints /\ IAMTypeOK'
    BY <1>1, SameIAMType DEF DropRoles, SyncPoints, StepTypeOK
  <2>2. w \in Locals /\ air \in Object /\ w.arn \in ARN BY <2>1, SyncFacts
  <2>3. CASE Goto("dropPolicies", [w EXCEPT !.listed = UnwantedPolicies])
    <3>1. /\ [w EXCEPT !.listed = UnwantedPolicies] \in Locals
          /\ [w EXCEPT !.listed = UnwantedPolicies].arn \in ARN
      BY <2>2 DEF Locals, UnwantedPolicies
    <3> QED BY <2>1, <2>2, <2>3, <3>1, SyncGoto DEF SyncPoints
  <2>4. ASSUME NEW r \in w.dropRoles, Goto("dropRoles", [w EXCEPT !.dropRoles = @ \ {r}])
        PROVE  StepTypeOK'
    <3>1. /\ [w EXCEPT !.dropRoles = @ \ {r}] \in Locals
          /\ [w EXCEPT !.dropRoles = @ \ {r}].arn \in ARN
      BY <2>2 DEF Locals
    <3> QED BY <2>1, <2>2, <2>4, <3>1, SyncGoto DEF SyncPoints
  <2>5. ASSUME NEW r \in w.dropRoles,
               Goto("dropDetach", [[w EXCEPT !.dropRoles = @ \ {r}] EXCEPT
                                       !.role = r, !.pend = PoliciesOf(r)])
        PROVE  StepTypeOK'
    <3> DEFINE x == [[w EXCEPT !.dropRoles = @ \ {r}] EXCEPT
                         !.role = r, !.pend = PoliciesOf(r)]
    <3>1. x \in Locals /\ x.arn \in ARN /\ x.role \in RoleName
      BY <2>2 DEF Locals, PoliciesOf, AttachedTo
    <3>2. ScopeAt("dropDetach", x, air) BY <2>2, <3>1
    <3>3. Goto("dropDetach", x) BY <2>5
    <3> HIDE DEF x
    <3> QED BY <2>1, <3>1, <3>2, <3>3, SyncGoto DEF SyncPoints
  <2> QED BY <1>1, <2>3, <2>4, <2>5 DEF DropRoles
<1>2. ASSUME DropDetach PROVE StepTypeOK'
  <2>1. pc = "dropDetach" /\ pc \in SyncPoints BY <1>2 DEF DropDetach, SyncPoints
  <2>2. w \in Locals /\ air \in Object /\ w.arn \in ARN /\ w.role \in RoleName
    BY <2>1, SyncFacts
  <2>3. ASSUME NEW p \in w.pend, DetachRolePolicy(p, w.role),
               Report("Provisioned", Policy(p), "dropDetach", [w EXCEPT !.pend = @ \ {p}])
        PROVE  StepTypeOK'
    <3> DEFINE x == [w EXCEPT !.pend = @ \ {p}]
    <3>1. x \in Locals /\ x.arn \in ARN /\ x.role \in RoleName /\ p \in PolicyName
      BY <2>2 DEF Locals
    <3>2. ScopeAt("dropDetach", x, air) BY <2>2, <3>1
    <3>3. IAMTypeOK' BY <2>3, DetachType DEF StepTypeOK
    <3>4. Report("Provisioned", Policy(p), "dropDetach", x) BY <2>3
    <3> HIDE DEF x
    <3> QED BY <2>1, <3>1, <3>2, <3>3, <3>4, Results, SyncReport DEF SyncPoints
  <2>4. CASE /\ DeleteRole(w.role)
             /\ Report("Provisioned", Role(w.role), "dropRoles", [w EXCEPT !.role = None])
    <3> DEFINE x == [w EXCEPT !.role = None]
    <3>1. x \in Locals /\ x.arn \in ARN BY <2>2 DEF Locals
    <3>2. ScopeAt("dropRoles", x, air) BY <2>2, <3>1
    <3>3. IAMTypeOK' BY <2>4, DeleteRoleType DEF StepTypeOK
    <3>4. Report("Provisioned", Role(w.role), "dropRoles", x) BY <2>4
    <3> HIDE DEF x
    <3> QED BY <2>1, <2>2, <3>1, <3>2, <3>3, <3>4, Results, SyncReport DEF SyncPoints
  <2>5. CASE ReturnError BY <2>1, <2>5, SyncReturn DEF ReturnError
  <2> QED BY <1>2, <2>3, <2>4, <2>5 DEF DropDetach
<1> QED BY <1>1, <1>2

(* The policies no longer asked for are detached and deleted.              *)
LEMMA DropPoliciesType ==
    ASSUME StepTypeOK, DropPolicies \/ DropPolicy \/ DropEntities \/ DropEntityPolicy
    PROVE  StepTypeOK'
<1> USE DEF ScopeAt, RolePoints, TodoPoints, PolicyPoints,
       SyncPolicyPoints, SyncRolePoints
<1>1. ASSUME DropPolicies PROVE StepTypeOK'
  <2>1. pc \in SyncPoints /\ IAMTypeOK'
    BY <1>1, SameIAMType DEF DropPolicies, SyncPoints, StepTypeOK
  <2>2. w \in Locals /\ air \in Object /\ air.spec \in Spec_ /\ w.arn \in ARN
    BY <2>1, SyncFacts
  <2>3. CASE Goto("syncRoles", [w EXCEPT !.todo = DOMAIN air.spec.roles])
    <3> DEFINE x == [w EXCEPT !.todo = DOMAIN air.spec.roles]
    <3>1. x \in Locals /\ x.arn \in ARN /\ x.todo = DOMAIN air.spec.roles
      BY <2>2, SpecFields DEF Locals
    <3>2. ScopeAt("syncRoles", x, air) BY <2>2, <3>1
    <3>3. Goto("syncRoles", x) BY <2>3
    <3> HIDE DEF x
    <3> QED BY <2>1, <3>1, <3>2, <3>3, SyncGoto DEF SyncPoints
  <2>4. ASSUME NEW p \in w.listed, Goto("dropPolicies", [w EXCEPT !.listed = @ \ {p}])
        PROVE  StepTypeOK'
    <3>1. [w EXCEPT !.listed = @ \ {p}] \in Locals /\ [w EXCEPT !.listed = @ \ {p}].arn \in ARN
      BY <2>2 DEF Locals
    <3> QED BY <2>1, <2>2, <2>4, <3>1, SyncGoto DEF SyncPoints
  <2>5. ASSUME NEW p \in w.listed, NEW l \in {"dropPolicy", "dropEntities"},
               Goto(l, [[w EXCEPT !.listed = @ \ {p}] EXCEPT
                            !.pol = p, !.ents = EntitiesOf(p)])
        PROVE  StepTypeOK'
    <3> DEFINE x == [[w EXCEPT !.listed = @ \ {p}] EXCEPT !.pol = p, !.ents = EntitiesOf(p)]
    <3>1. x \in Locals /\ x.arn \in ARN /\ x.pol \in PolicyName
      BY <2>2 DEF Locals, EntitiesOf, HoldersOf
    <3>2. ScopeAt(l, x, air) BY <2>2, <3>1
    <3>3. Goto(l, x) BY <2>5
    <3> HIDE DEF x
    <3> QED BY <2>1, <3>1, <3>2, <3>3, SyncGoto DEF SyncPoints
  <2> QED BY <1>1, <2>3, <2>4, <2>5 DEF DropPolicies
<1>2. ASSUME pc \in {"dropPolicy", "dropEntityPolicy"},
             NEW l \in {"dropPolicies", "dropEntities"}, DropPolicyThen(l)
      PROVE  StepTypeOK'
  <2>1. pc \in SyncPoints BY <1>2 DEF SyncPoints
  <2>2. w \in Locals /\ air \in Object /\ w.arn \in ARN /\ w.pol \in PolicyName
    BY <1>2, <2>1, SyncFacts
  <2>3. CASE ReturnError BY <2>1, <2>3, SyncReturn DEF ReturnError
  <2> DEFINE x == IF l = "dropPolicies" THEN [w EXCEPT !.pol = None] ELSE w
  <2>4. CASE DeletePolicy(w.pol) /\ Report("Provisioned", Policy(w.pol), l, x)
    <3>1. x \in Locals /\ x.arn \in ARN /\ (l = "dropEntities" => x.pol \in PolicyName)
      BY <2>2 DEF Locals
    <3> HIDE DEF x
    <3>2. ScopeAt(l, x, air) BY <2>2, <3>1
    <3>3. IAMTypeOK' BY <2>4, DeletePolicyType DEF StepTypeOK
    <3> QED BY <2>1, <2>2, <2>4, <3>1, <3>2, <3>3, Results, SyncReport DEF SyncPoints
  <2> QED BY <1>2, <2>3, <2>4 DEF DropPolicyThen
<1>3. ASSUME DropEntities PROVE StepTypeOK'
  <2>1. pc = "dropEntities" /\ pc \in SyncPoints BY <1>3 DEF DropEntities, SyncPoints
  <2>2. w \in Locals /\ air \in Object /\ w.arn \in ARN /\ w.pol \in PolicyName
    BY <2>1, SyncFacts
  <2>3. CASE Goto("dropPolicies", [w EXCEPT !.pol = None]) /\ UNCHANGED iamVars
    <3>1. [w EXCEPT !.pol = None] \in Locals /\ [w EXCEPT !.pol = None].arn \in ARN
      BY <2>2 DEF Locals
    <3>2. IAMTypeOK' BY <2>3, SameIAMType DEF StepTypeOK
    <3> QED BY <2>1, <2>2, <2>3, <3>1, <3>2, SyncGoto DEF SyncPoints
  <2>4. ASSUME NEW e \in w.ents, DetachRolePolicy(w.pol, e),
               Goto("dropEntityPolicy", [w EXCEPT !.ents = @ \ {e}])
        PROVE  StepTypeOK'
    <3>1. /\ [w EXCEPT !.ents = @ \ {e}] \in Locals
          /\ [w EXCEPT !.ents = @ \ {e}].arn \in ARN
          /\ [w EXCEPT !.ents = @ \ {e}].pol \in PolicyName
      BY <2>2 DEF Locals
    <3>2. IAMTypeOK' BY <2>4, DetachType DEF StepTypeOK
    <3> QED BY <2>1, <2>2, <2>4, <3>1, <3>2, SyncGoto DEF SyncPoints
  <2> QED BY <1>3, <2>3, <2>4 DEF DropEntities
<1> QED BY <1>1, <1>2, <1>3 DEF DropPolicy, DropEntityPolicy

(* The creation and the update of the roles the specification names.       *)
LEMMA SyncRoleType ==
    ASSUME StepTypeOK,
           \/ \E e \in RoleKey : SyncRole(e)
           \/ SyncRolesDone
           \/ CreateMissingRole
           \/ UpdateRoleTrust
    PROVE  StepTypeOK'
<1> USE DEF ScopeAt, RolePoints, TodoPoints, PolicyPoints,
       SyncPolicyPoints, SyncRolePoints
<1>1. ASSUME NEW e \in RoleKey, SyncRole(e) PROVE StepTypeOK'
  <2>1. pc = "syncRoles" /\ pc \in SyncPoints /\ IAMTypeOK' /\ e \in w.todo
    BY <1>1, SameIAMType DEF SyncRole, SyncPoints, StepTypeOK
  <2>2. /\ w \in Locals /\ air \in Object /\ air.spec \in Spec_ /\ w.arn \in ARN
        /\ w.todo \subseteq DOMAIN air.spec.roles
    BY <2>1, SyncFacts
  <2>3. CASE Report("Failed", NoResult, "requeue", w)
    BY <2>1, <2>2, <2>3, Results, SyncReport
  <2> DEFINE x == [w EXCEPT !.todo = @ \ {e}, !.entry = e, !.role = air.spec.roles[e].name,
                            !.refs = RefsOf(e), !.again = TRUE]
  <2>4. ASSUME NEW l \in {"createRole", "policies", "updateRole"}, Goto(l, x)
        PROVE  StepTypeOK'
    <3>1. RefsOf(e) \subseteq DOMAIN air.spec.policies /\ RefsOf(e) \subseteq PolicyKey
      BY <2>2, SpecFields DEF RefsOf
    <3>2. air.spec.roles[e].name \in RoleName BY <2>1, <2>2, SpecFields
    <3>3. x \in Locals BY <2>2, <3>1, <3>2 DEF Locals
    <3>4. /\ x.arn = w.arn
          /\ x.todo \subseteq w.todo
          /\ x.entry = e
          /\ x.role \in RoleName
          /\ x.refs = RefsOf(e)
      BY <2>2, <3>2 DEF Locals
    <3>5. Goto(l, x) BY <2>4
    <3> HIDE DEF x
    <3>6. ScopeAt(l, x, air) BY <2>1, <2>2, <3>1, <3>4
    <3> QED BY <2>1, <3>3, <3>5, <3>6, SyncGoto DEF SyncPoints
  <2> HIDE DEF x
  <2> QED BY <1>1, <2>3, <2>4 DEF SyncRole, x
<1>2. ASSUME SyncRolesDone PROVE StepTypeOK'
  <2>1. pc \in SyncPoints /\ IAMTypeOK'
    BY <1>2, SameIAMType DEF SyncRolesDone, SyncPoints, StepTypeOK
  <2> QED BY <1>2, <2>1, SyncFacts, SyncGoto DEF SyncRolesDone
<1>3. ASSUME pc \in {"createRole", "updateRole"}
      PROVE  /\ pc \in SyncPoints
             /\ ScopeAt("policies", w, air)
             /\ w \in Locals
             /\ w.role \in RoleName
             /\ Trust(w.entry) \in TrustDoc
             /\ air.spec.cluster \in Owner
  <2>1. pc \in SyncPoints BY <1>3 DEF SyncPoints
  <2>2. /\ ScopeAt("policies", w, air)
        /\ w \in Locals
        /\ w.role \in RoleName
        /\ w.entry \in DOMAIN air.spec.roles
        /\ w.arn \in ARN
        /\ air.spec \in Spec_
    BY <1>3, <2>1, SyncFacts
  <2> QED BY <2>1, <2>2, SpecFields DEF Trust, TrustDoc, Owner
<1>4. ASSUME CreateMissingRole PROVE StepTypeOK'
  <2>1. pc \in {"createRole", "updateRole"} BY <1>4 DEF CreateMissingRole
  <2>2. IAMTypeOK' BY <1>3, <1>4, <2>1, CreateRoleType DEF CreateMissingRole, StepTypeOK
  <2> DEFINE res == IF RoleExists(w.role) THEN NilResult ELSE Role(w.role)
  <2>3. res \in Result BY <1>3, <2>1, Results
  <2>4. Report("Provisioned", res, "policies", w) BY <1>4 DEF CreateMissingRole
  <2> HIDE DEF res
  <2> QED BY <1>3, <2>1, <2>2, <2>3, <2>4, SyncReport DEF SyncPoints
<1>5. ASSUME UpdateRoleTrust PROVE StepTypeOK'
  <2>1. pc \in {"createRole", "updateRole"} BY <1>5 DEF UpdateRoleTrust
  <2>2. IAMTypeOK' BY <1>3, <1>5, <2>1, UpdateRoleType DEF UpdateRoleTrust, StepTypeOK
  <2> QED BY <1>3, <1>5, <2>1, <2>2, Results, SyncReport DEF UpdateRoleTrust, SyncPoints
<1> QED BY <1>1, <1>2, <1>4, <1>5

(* At the points of syncPoliciesByRoleSpec where a policy is at hand.       *)
LEMMA PolicyFacts ==
    ASSUME StepTypeOK, pc \in SyncPolicyPoints
    PROVE  /\ pc \in SyncPoints
           /\ w \in Locals
           /\ \A l \in SyncPolicyPoints \cup {"policies"} : ScopeAt(l, w, air)
           /\ ScopeAt("policies", NextItem, air)
           /\ NextItem \in Locals
           /\ w.role \in RoleName
           /\ w.pol \in PolicyName
           /\ air.spec.policies[w.item].doc \in Doc
           /\ air.spec.cluster \in Owner
<1> USE DEF ScopeAt, RolePoints, TodoPoints, PolicyPoints,
       SyncPolicyPoints, SyncRolePoints
<1>1. pc \in SyncPoints BY DEF SyncPoints
<1>2. /\ w \in Locals /\ air \in Object /\ air.spec \in Spec_ /\ w.arn \in ARN
      /\ w.todo \subseteq DOMAIN air.spec.roles
      /\ w.entry \in DOMAIN air.spec.roles
      /\ w.refs \subseteq DOMAIN air.spec.policies
      /\ w.item \in DOMAIN air.spec.policies
      /\ w.role \in RoleName
      /\ w.pol \in PolicyName
  BY <1>1, SyncFacts
<1>3. air.spec.policies[w.item].doc \in Doc /\ air.spec.cluster \in Owner
  BY <1>2, SpecFields DEF Owner
<1>4. \A l \in SyncPolicyPoints \cup {"policies"} : ScopeAt(l, w, air) BY <1>2
<1>5. /\ NextItem \in Locals
      /\ NextItem.arn = w.arn
      /\ NextItem.todo = w.todo
      /\ NextItem.entry = w.entry
      /\ NextItem.role = w.role
      /\ NextItem.refs = w.refs
  BY <1>2 DEF Locals, NextItem
<1>6. ScopeAt("policies", NextItem, air) BY <1>2, <1>5
<1> QED BY <1>1, <1>2, <1>3, <1>4, <1>5, <1>6

(* Attaching the policy at hand, from where a report or an error follows.  *)
LEMMA AttachThenType ==
    ASSUME StepTypeOK, pc \in SyncPolicyPoints, NEW res \in Result,
           NEW l \in SyncPolicyPoints \cup {"policies"}, NEW x \in Locals,
           ScopeAt(l, x, air), AttachThen(res, l, x)
    PROVE  StepTypeOK'
<1>1. CASE ReturnError BY <1>1, PolicyFacts, SyncReturn DEF ReturnError
<1>2. CASE AttachRolePolicy(w.pol, w.role) /\ Report("Provisioned", res, l, x)
  <2>1. IAMTypeOK' BY <1>2, PolicyFacts, AttachType DEF StepTypeOK
  <2>2. l \in SyncPoints BY DEF SyncPoints, SyncPolicyPoints
  <2> QED BY <1>2, <2>1, <2>2, PolicyFacts, SyncReport
<1> QED BY <1>1, <1>2 DEF AttachThen

(* A step from a policy at hand to a point where it still is.              *)
LEMMA PolicyGoto ==
    ASSUME StepTypeOK, IAMTypeOK', pc \in SyncPolicyPoints,
           NEW l \in SyncPolicyPoints \cup {"policies"}, Goto(l, w)
    PROVE  StepTypeOK'
<1>1. l \in SyncPoints BY DEF SyncPoints, SyncPolicyPoints
<1> QED BY <1>1, PolicyFacts, SyncGoto

(* The loop over the policies of a role.                                   *)
LEMMA SyncPoliciesType ==
    ASSUME StepTypeOK, SyncPolicies PROVE StepTypeOK'
<1> USE DEF ScopeAt, RolePoints, TodoPoints, PolicyPoints,
       SyncPolicyPoints, SyncRolePoints
<1>1. pc = "policies" /\ pc \in SyncPoints /\ IAMTypeOK'
  BY SameIAMType DEF SyncPolicies, SyncPoints, StepTypeOK
<1>2. /\ w \in Locals /\ air \in Object /\ air.spec \in Spec_ /\ w.arn \in ARN
      /\ w.todo \subseteq DOMAIN air.spec.roles
      /\ w.entry \in DOMAIN air.spec.roles
      /\ w.role \in RoleName
      /\ w.refs \subseteq DOMAIN air.spec.policies
      /\ DOMAIN air.spec.policies \subseteq PolicyKey
  BY <1>1, SyncFacts, SpecFields
<1>3. CASE Goto("policies", [w EXCEPT !.refs = RefsOf(w.entry), !.again = FALSE])
  <2> DEFINE x == [w EXCEPT !.refs = RefsOf(w.entry), !.again = FALSE]
  <2>1. RefsOf(w.entry) \subseteq DOMAIN air.spec.policies BY DEF RefsOf
  <2>2. x \in Locals BY <1>2, <2>1 DEF Locals
  <2>3. /\ x.arn = w.arn
        /\ x.todo = w.todo
        /\ x.entry = w.entry
        /\ x.role = w.role
        /\ x.refs = RefsOf(w.entry)
    BY <1>2 DEF Locals
  <2>4. Goto("policies", x) BY <1>3
  <2> HIDE DEF x
  <2>5. ScopeAt("policies", x, air) BY <1>2, <2>1, <2>3
  <2> QED BY <1>1, <2>2, <2>4, <2>5, SyncGoto
<1>4. CASE Goto("syncRoles", [w EXCEPT !.entry = None, !.role = None])
  <2> DEFINE x == [w EXCEPT !.entry = None, !.role = None]
  <2>1. x \in Locals /\ x.arn = w.arn /\ x.todo = w.todo BY <1>2 DEF Locals
  <2>2. Goto("syncRoles", x) BY <1>4
  <2> HIDE DEF x
  <2>3. ScopeAt("syncRoles", x, air) BY <1>2, <2>1
  <2> QED BY <1>1, <2>1, <2>2, <2>3, SyncGoto DEF SyncPoints
<1>5. ASSUME NEW i \in w.refs, NEW l \in {"createPolicy", "updDetach", "checkAttached"},
             Goto(l, [w EXCEPT !.refs = @ \ {i}, !.item = i,
                               !.pol = air.spec.policies[i].name])
      PROVE  StepTypeOK'
  <2> DEFINE x == [w EXCEPT !.refs = @ \ {i}, !.item = i, !.pol = air.spec.policies[i].name]
  <2>1. i \in PolicyKey /\ air.spec.policies[i].name \in PolicyName
    BY <1>2, SpecFields
  <2>2. x \in Locals BY <1>2, <2>1 DEF Locals
  <2>3. /\ x.arn = w.arn
        /\ x.todo = w.todo
        /\ x.entry = w.entry
        /\ x.role = w.role
        /\ x.refs = w.refs \ {i}
        /\ x.item = i
        /\ x.pol \in PolicyName
    BY <1>2, <2>1 DEF Locals
  <2>4. Goto(l, x) BY <1>5
  <2> HIDE DEF x
  <2>5. ScopeAt(l, x, air) BY <1>2, <2>3
  <2> QED BY <1>1, <2>2, <2>4, <2>5, SyncGoto DEF SyncPoints
<1> QED BY <1>3, <1>4, <1>5 DEF SyncPolicies

(* The work on one policy of a role.                                       *)
LEMMA PolicyType ==
    ASSUME StepTypeOK,
           \/ CreateMissingPolicy \/ AttachNew \/ UpdDetach \/ UpdDelete
           \/ UpdCreate \/ UpdAttach \/ CheckAttached \/ Attach
    PROVE  StepTypeOK'
<1>1. pc \in SyncPolicyPoints
  BY DEF CreateMissingPolicy, AttachNew, UpdDetach, UpdDelete, UpdCreate, UpdAttach,
         CheckAttached, Attach, SyncPolicyPoints
<1>2. CreateFromSpec => IAMTypeOK'
  BY <1>1, PolicyFacts, CreatePolicyType DEF CreateFromSpec, StepTypeOK
<1>3. Policy(w.pol) \in Result /\ NilResult \in Result BY <1>1, PolicyFacts, Results
<1>4. ASSUME CreateMissingPolicy PROVE StepTypeOK'
  <2> DEFINE x == [w EXCEPT !.made = (policies[w.pol] = None)]
  <2>1. w \in Locals /\ ScopeAt("attachNew", w, air)
    BY <1>1, PolicyFacts DEF SyncPolicyPoints
  <2>2. (policies[w.pol] = None) \in BOOLEAN OBVIOUS
  <2>3. x \in Locals BY <2>1, <2>2 DEF Locals
  <2>4. /\ x.arn = w.arn
        /\ x.todo = w.todo
        /\ x.entry = w.entry
        /\ x.role = w.role
        /\ x.refs = w.refs
        /\ x.item = w.item
        /\ x.pol = w.pol
    BY <2>1 DEF Locals
  <2>5. Goto("attachNew", x) BY <1>4 DEF CreateMissingPolicy
  <2> HIDE DEF x
  <2>6. ScopeAt("attachNew", x, air)
    BY <2>1, <2>4 DEF ScopeAt, RolePoints, TodoPoints, PolicyPoints,
           SyncPolicyPoints, SyncRolePoints
  <2>7. "attachNew" \in SyncPoints /\ pc \in SyncPoints /\ IAMTypeOK'
    BY <1>1, <1>2, <1>4, PolicyFacts DEF SyncPoints, CreateMissingPolicy
  <2> QED BY <2>3, <2>5, <2>6, <2>7, SyncGoto
<1>5. ASSUME AttachNew PROVE StepTypeOK'
  <2> DEFINE x == [NextItem EXCEPT !.made = FALSE]
             res == IF w.made THEN Policy(w.pol) ELSE NilResult
  <2>1. NextItem \in Locals /\ ScopeAt("policies", NextItem, air)
    BY <1>1, PolicyFacts
  <2>2. x \in Locals BY <2>1 DEF Locals
  <2>3. /\ x.arn = NextItem.arn
        /\ x.todo = NextItem.todo
        /\ x.entry = NextItem.entry
        /\ x.role = NextItem.role
        /\ x.refs = NextItem.refs
    BY <2>1 DEF Locals
  <2>4. res \in Result BY <1>3
  <2>5. AttachThen(res, "policies", x) BY <1>5 DEF AttachNew
  <2> HIDE DEF x, res
  <2>6. ScopeAt("policies", x, air)
    BY <2>1, <2>3 DEF ScopeAt, RolePoints, TodoPoints, PolicyPoints,
           SyncPolicyPoints, SyncRolePoints
  <2> QED BY <1>1, <2>2, <2>4, <2>5, <2>6, AttachThenType
<1>6. ASSUME UpdDetach PROVE StepTypeOK'
  <2>1. IAMTypeOK' BY <1>6, DetachType DEF UpdDetach, StepTypeOK
  <2> QED BY <1>1, <1>6, <2>1, PolicyGoto DEF UpdDetach, SyncPolicyPoints
<1>7. ASSUME UpdDelete PROVE StepTypeOK'
  <2>1. CASE ReturnError BY <1>1, <2>1, PolicyFacts, SyncReturn DEF ReturnError
  <2>2. CASE DeletePolicy(w.pol) /\ Goto("updCreate", w)
    <3>1. IAMTypeOK' BY <2>2, DeletePolicyType DEF StepTypeOK
    <3> QED BY <1>1, <2>2, <3>1, PolicyGoto DEF SyncPolicyPoints
  <2> QED BY <1>7, <2>1, <2>2 DEF UpdDelete
<1>8. ASSUME UpdCreate PROVE StepTypeOK'
  BY <1>1, <1>2, <1>8, PolicyGoto DEF UpdCreate, SyncPolicyPoints
<1>9. ASSUME UpdAttach PROVE StepTypeOK'
  <2>1. w \in Locals /\ ScopeAt("checkAttached", w, air)
    BY <1>1, PolicyFacts DEF SyncPolicyPoints
  <2> QED BY <1>1, <1>3, <1>9, <2>1, AttachThenType DEF UpdAttach, SyncPolicyPoints
<1>10. ASSUME CheckAttached PROVE StepTypeOK'
  <2>1. IAMTypeOK' /\ UNCHANGED iamVars
    BY <1>10, SameIAMType DEF CheckAttached, StepTypeOK
  <2>2. CASE Return(TRUE) BY <1>1, <2>1, <2>2, PolicyFacts, SyncReturn
  <2>3. CASE Goto("policies", NextItem)
    BY <1>1, <2>1, <2>3, PolicyFacts, SyncGoto DEF SyncPoints
  <2>4. CASE Goto("attach", w) BY <1>1, <2>1, <2>4, PolicyGoto DEF SyncPolicyPoints
  <2> QED BY <1>10, <2>2, <2>3, <2>4 DEF CheckAttached
<1>11. ASSUME Attach PROVE StepTypeOK'
  BY <1>1, <1>3, <1>11, PolicyFacts, AttachThenType DEF Attach
<1> QED BY <1>4, <1>5, <1>6, <1>7, <1>8, <1>9, <1>10, <1>11

(* The end of Reconcile.                                                   *)
LEMMA EndType ==
    ASSUME StepTypeOK, End PROVE StepTypeOK'
<1> USE DEF ScopeAt, RolePoints, TodoPoints, PolicyPoints,
       SyncPolicyPoints, SyncRolePoints
<1>1. ASSUME Final PROVE StepTypeOK'
  <2>1. pc = "final" /\ IAMTypeOK' BY <1>1, SameIAMType DEF Final, StepTypeOK
  <2>2. w \in Locals /\ air \in Object /\ w.arn \in ARN
    BY <2>1, AtPoint DEF StepTypeOK
  <2>3. ScopeAt("return", w, air) BY <2>2
  <2>4. CASE Report("Provisioned", NoResult, "return", w)
    <3>1. "return" \in ReturnPoints /\ "Provisioned" \in Phase BY DEF ReturnPoints, Phase
    <3> QED BY <2>1, <2>2, <2>3, <2>4, <3>1, Results, ReportType DEF StepTypeOK
  <2>5. CASE Goto("return", w)
    <3>1. "return" \in PC \ {"idle", "status"} BY DEF PC
    <3> QED BY <2>1, <2>2, <2>3, <2>5, <3>1, GotoType DEF StepTypeOK
  <2> QED BY <1>1, <2>4, <2>5 DEF Final
<1>2. ASSUME Finish PROVE StepTypeOK'
  BY <1>2, ReturnType, SameIAMType DEF Finish, StepTypeOK
<1>3. ASSUME Requeue PROVE StepTypeOK'
  BY <1>3, ReturnType, SameIAMType DEF Requeue, ReturnError, StepTypeOK
<1> QED BY <1>1, <1>2, <1>3 DEF End

----------------------------------------------------------------------------
(* Every step of the others keeps the types *)

(* A failed call or a lost answer ends the action in a report or an error; *)
(* a crash leaves nothing of the worker.                                   *)
LEMMA FaultsType ==
    ASSUME StepTypeOK, Faults PROVE StepTypeOK'
<1> USE DEF ScopeAt, RolePoints, TodoPoints, PolicyPoints,
       SyncPolicyPoints, SyncRolePoints
<1>1. ASSUME CallFails PROVE StepTypeOK'
  <2>1. IAMTypeOK' /\ UNCHANGED iamVars BY <1>1, SameIAMType DEF CallFails, StepTypeOK
  <2>2. ASSUME \/ pc \in DestroyPoints \cup {"newIAMClient"}
               \/ pc = "getClusterResources" /\ air # None,
               Report("Failed", NoResult, "requeue", w)
        PROVE  StepTypeOK'
    <3>1. pc \notin {"idle", "status"} BY <2>2 DEF DestroyPoints
    <3>2. w \in Locals /\ air \in Object
      BY <2>2, <3>1, AtPoint DEF StepTypeOK, RestTypeOK, WorkerTypeOK, DestroyPoints
    <3>3. "requeue" \in ReturnPoints /\ "Failed" \in Phase BY DEF ReturnPoints, Phase
    <3>4. ScopeAt("requeue", w, air) BY <3>2
    <3> QED BY <2>1, <2>2, <3>1, <3>2, <3>3, <3>4, Results, ReportType DEF StepTypeOK
  <2>3. ASSUME pc \in SyncPoints \cup {"addFinalizer", "status", "unfinalize"}, Return(TRUE)
        PROVE  StepTypeOK'
    <3>1. pc # "idle" BY <2>3 DEF SyncPoints
    <3> QED BY <2>1, <2>3, <3>1, ReturnType DEF StepTypeOK
  <2> QED BY <1>1, <2>2, <2>3 DEF CallFails
<1>2. ASSUME ReplyLost PROVE StepTypeOK'
  <2>1. CASE /\ pc = "createRole"
             /\ CreateRole(w.role, Trust(w.entry), air.spec.cluster)
             /\ Report("Provisioned", NilResult, "policies", w)
    <3>1. pc \in SyncPoints BY <2>1 DEF SyncPoints
    <3>2. /\ w \in Locals /\ air \in Object /\ air.spec \in Spec_ /\ w.arn \in ARN
          /\ w.entry \in DOMAIN air.spec.roles
          /\ w.role \in RoleName
          /\ ScopeAt("policies", w, air)
      BY <2>1, <3>1, SyncFacts
    <3>3. Trust(w.entry) \in TrustDoc /\ air.spec.cluster \in Owner
      BY <3>2, SpecFields DEF Trust, TrustDoc, Owner
    <3>4. IAMTypeOK' BY <2>1, <3>2, <3>3, CreateRoleType DEF StepTypeOK
    <3> QED BY <2>1, <3>1, <3>2, <3>4, Results, SyncReport DEF SyncPoints
  <2>2. CASE pc = "createPolicy" /\ CreateFromSpec /\ Goto("attachNew", w)
    <3>1. IAMTypeOK'
      BY <2>2, PolicyFacts, CreatePolicyType DEF CreateFromSpec, StepTypeOK
    <3> QED BY <2>2, <3>1, PolicyGoto
  <2> QED BY <1>2, <2>1, <2>2 DEF ReplyLost
<1>3. ASSUME Crash PROVE StepTypeOK'
  <2>1. IAMTypeOK' BY <1>3, SameIAMType DEF Crash, StepTypeOK
  <2>2. WorkerTypeOK' /\ Scoped' BY <1>3, LeaveType DEF Crash
  <2>3. [c \in CR |-> <<>>] \in [CR -> Seq(Object \cup {None})] OBVIOUS
  <2>4. KubeTypeOK' BY <1>3, <2>3 DEF Crash, Relist, StepTypeOK, RestTypeOK, KubeTypeOK
  <2> QED BY <2>1, <2>2, <2>4 DEF StepTypeOK, RestTypeOK
<1> QED BY <1>1, <1>2, <1>3 DEF Faults

(* Users, the informer and Cluster API keep the types of the server's side. *)
LEMMA KubeStepType ==
    ASSUME KubeTypeOK,
           \/ \E c \in CR : UserRequest(c) \/ WatchEvent(c)
           \/ \E k \in Cluster : ControlPlaneChanges(k)
    PROVE  KubeTypeOK'
<1> USE DEF KubeTypeOK
<1>1. Spend => edits' \in Nat BY DEF Spend
<1>2. ASSUME NEW c \in CR, CreateCR(c) PROVE KubeTypeOK'
  <2>1. PICK s \in SpecsOf[c] : Write(c, NewObject(s)) BY <1>2 DEF CreateCR
  <2>2. s \in Spec_ BY <2>1, KubeAssumption
  <2>3. NewObject(s) \in Object BY <2>2 DEF NewObject, Object, Phase
  <2> QED BY <1>1, <1>2, <2>1, <2>3, WriteType DEF CreateCR
<1>3. ASSUME NEW c \in CR, EditCR(c) PROVE KubeTypeOK'
  <2>1. PICK s \in SpecsOf[c] : Write(c, [cr[c] EXCEPT !.spec = s]) BY <1>3 DEF EditCR
  <2>2. s \in Spec_ BY <2>1, KubeAssumption
  <2>3. [cr[c] EXCEPT !.spec = s] \in Object BY <1>3, <2>2 DEF EditCR, Object
  <2> QED BY <1>1, <1>3, <2>1, <2>3, WriteType DEF EditCR
<1>4. ASSUME NEW c \in CR, DeleteCR(c) PROVE KubeTypeOK'
  <2>1. [cr[c] EXCEPT !.deleting = TRUE] \in Object BY <1>4 DEF DeleteCR, Object
  <2> QED BY <1>1, <1>4, <2>1, StoredType, WriteType DEF DeleteCR
<1>5. ASSUME NEW c \in CR, WatchEvent(c) PROVE KubeTypeOK'
  <2>1. /\ Head(feed[c]) \in Object \cup {None}
        /\ Tail(feed[c]) \in Seq(Object \cup {None})
    BY <1>5 DEF WatchEvent
  <2> QED BY <1>5, <2>1 DEF WatchEvent
<1>6. ASSUME NEW k \in Cluster, ControlPlaneChanges(k) PROVE KubeTypeOK'
  BY <1>1, <1>6 DEF ControlPlaneChanges
<1> QED BY <1>2, <1>3, <1>4, <1>5, <1>6 DEF UserRequest

(* What another tool creates is an entity that belongs to no cluster.      *)
LEMMA ForeignType == ASSUME IAMTypeOK, Foreign PROVE IAMTypeOK'
<1>1. None \in Owner BY DEF Owner
<1>2. ASSUME NEW r \in RoleName, NEW t \in TrustDoc, CreateRole(r, t, None) PROVE IAMTypeOK'
  BY <1>1, <1>2, CreateRoleType
<1>3. ASSUME NEW p \in PolicyName, NEW d \in Doc, NEW R \in SUBSET RoleName,
             policies' = [policies EXCEPT ![p] = [doc |-> d, cluster |-> None]],
             attached' = attached \cup (R \X {p}),
             UNCHANGED roles
      PROVE  IAMTypeOK'
  <2>1. [doc |-> d, cluster |-> None] \in PolicyEntry BY <1>1 DEF PolicyEntry
  <2>2. R \X {p} \subseteq RoleName \X PolicyName OBVIOUS
  <2>3. policies' \in [PolicyName -> PolicyEntry \cup {None}] BY <1>3, <2>1 DEF IAMTypeOK
  <2>4. attached' \subseteq RoleName \X PolicyName BY <1>3, <2>2 DEF IAMTypeOK
  <2> QED BY <1>3, <2>3, <2>4 DEF IAMTypeOK
<1> QED BY <1>2, <1>3 DEF Foreign

(* No step outside the worker changes what the worker has at hand; a user's *)
(* request only makes it stale.                                             *)
LEMMA EnvironmentType ==
    ASSUME StepTypeOK, Environment PROVE StepTypeOK'
<1>1. CASE /\ \E c \in CR : UserRequest(c) /\ fresh' = (fresh /\ c # cur)
           /\ UNCHANGED <<pc, cur, air, w, call, left, iamVars>>
  <2>1. IAMTypeOK' BY <1>1, SameIAMType DEF StepTypeOK
  <2>2. KubeTypeOK' BY <1>1, KubeStepType DEF StepTypeOK, RestTypeOK
  <2>3. fresh' \in BOOLEAN BY <1>1 DEF StepTypeOK, RestTypeOK, WorkerTypeOK
  <2>4. WorkerTypeOK' /\ Scoped'
    BY <1>1, <2>3 DEF StepTypeOK, RestTypeOK, WorkerTypeOK, Scoped
  <2> QED BY <2>1, <2>2, <2>4 DEF StepTypeOK, RestTypeOK
<1>2. CASE /\ (\E c \in CR : WatchEvent(c)) \/ (\E k \in Cluster : ControlPlaneChanges(k))
           /\ UNCHANGED <<workerVars, left, iamVars>>
  <2>1. IAMTypeOK' BY <1>2, SameIAMType DEF StepTypeOK
  <2>2. KubeTypeOK' BY <1>2, KubeStepType DEF StepTypeOK, RestTypeOK
  <2>3. WorkerTypeOK' /\ Scoped'
    BY <1>2 DEF StepTypeOK, RestTypeOK, WorkerTypeOK, Scoped, workerVars
  <2> QED BY <2>1, <2>2, <2>3 DEF StepTypeOK, RestTypeOK
<1>3. CASE (OutOfBand \/ Foreign) /\ UNCHANGED <<workerVars, kubeVars>>
  <2>1. IAMTypeOK'
    BY <1>3, DetachType, DeletePolicyType, DeleteRoleType, ForeignType
    DEF OutOfBand, StepTypeOK
  <2>2. KubeTypeOK' BY <1>3 DEF StepTypeOK, RestTypeOK, KubeTypeOK, kubeVars
  <2>3. WorkerTypeOK' /\ Scoped'
    BY <1>3 DEF StepTypeOK, RestTypeOK, WorkerTypeOK, Scoped, workerVars
  <2> QED BY <2>1, <2>2, <2>3 DEF StepTypeOK, RestTypeOK
<1> QED BY <1>1, <1>2, <1>3 DEF Environment

(* The bounds on faults are only ever counted down.                        *)
LEMMA LeftType ==
    ASSUME LeftTypeOK, Worker \/ Faults \/ Environment PROVE LeftTypeOK'
<1>1. \A what \in {"faults", "crashes", "drift", "foreign"} : Lose(what) => LeftTypeOK'
  BY DEF Lose, LeftTypeOK
<1>2. UNCHANGED left => LeftTypeOK' BY DEF LeftTypeOK
<1> QED BY <1>1, <1>2 DEF Worker, Faults, CallFails, ReplyLost, Crash, Environment

----------------------------------------------------------------------------
(* The theorem *)

(* Before the operator starts nothing is at hand.                          *)
LEMMA InitType == Init => TypeInv
<1> SUFFICES ASSUME Init PROVE TypeInv OBVIOUS
<1>1. IAMTypeOK BY DEF Init, IAMInit, IAMTypeOK
<1>2. [c \in CR |-> <<>>] \in [CR -> Seq(Object \cup {None})] OBVIOUS
<1>3. KubeTypeOK BY <1>2, KubeAssumption DEF Init, KubeInit, KubeTypeOK
<1>4. NoLocals \in Locals BY DEF NoLocals, Locals
<1>5. NoCall \in Call BY DEF NoCall, NoResult, Call, Phase, Result, PC
<1>6. WorkerTypeOK BY <1>4, <1>5 DEF Init, WorkerTypeOK, PC
<1>7. Scoped
  BY DEF Init, Scoped, ScopeAt, RolePoints, TodoPoints, PolicyPoints,
         SyncRolePoints, SyncPolicyPoints
<1>8. LeftTypeOK BY BoundsAssumption DEF Init, LeftTypeOK
<1> QED BY <1>1, <1>3, <1>6, <1>7, <1>8 DEF TypeInv

(* Every step of the system keeps TypeInv.                                 *)
LEMMA NextType == TypeInv /\ [Next]_vars => TypeInv'
<1> SUFFICES ASSUME TypeInv, [Next]_vars PROVE TypeInv' OBVIOUS
<1>1. StepTypeOK /\ LeftTypeOK BY DEF TypeInv, StepTypeOK, RestTypeOK
<1>2. CASE Worker
  <2>1. StepTypeOK'
    BY <1>1, <1>2, BeginType, UpdateCRDStatusType, DestroyType, StaleType, DropRolesType,
       DropPoliciesType, SyncRoleType, SyncPoliciesType, PolicyType, EndType
    DEF Worker, Prune, Provide
  <2> QED BY <1>1, <1>2, <2>1, LeftType DEF TypeInv, StepTypeOK, RestTypeOK
<1>3. CASE Faults
  BY <1>1, <1>3, FaultsType, LeftType DEF TypeInv, StepTypeOK, RestTypeOK
<1>4. CASE Environment
  BY <1>1, <1>4, EnvironmentType, LeftType DEF TypeInv, StepTypeOK, RestTypeOK
<1>5. CASE UNCHANGED vars
  <2>1. IAMTypeOK' BY <1>1, <1>5, SameIAMType DEF vars, StepTypeOK
  <2>2. KubeTypeOK' /\ WorkerTypeOK' /\ Scoped' /\ LeftTypeOK'
    BY <1>5 DEF TypeInv, vars, kubeVars, workerVars, KubeTypeOK, WorkerTypeOK, Scoped,
                LeftTypeOK
  <2> QED BY <2>1, <2>2 DEF TypeInv
<1> QED BY <1>2, <1>3, <1>4, <1>5 DEF Next

(* The worker has at each point what it uses there.                        *)
THEOREM ScopeCorrect == Spec => []TypeInv
  BY InitType, NextType, PTL DEF Spec

(* Whatever users, control planes, faults and restarts do, every variable  *)
(* of the operator stays within its type.                                  *)
THEOREM TypeCorrect == Spec => []TypeOK
<1>1. TypeInv => TypeOK BY DEF TypeInv, WorkerTypeOK, LeftTypeOK, TypeOK
<1> QED BY <1>1, ScopeCorrect, PTL
=============================================================================
