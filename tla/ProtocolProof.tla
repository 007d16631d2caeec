---------------------------- MODULE ProtocolProof ----------------------------
(***************************************************************************)
(* Every behaviour of Reconciler is one of FinalizerProtocol, for every    *)
(* value of the constants.  Next to the types and FinalizerInv this takes  *)
(* two facts: every version of an object that is still about is one its    *)
(* users asked for, and the role about to be created is one such a version *)
(* names.                                                                  *)
(***************************************************************************)
EXTENDS FinalizerProof, ProtocolRefinement

Known(c, v) == v # None => v.spec \in SpecsOf[c]

SpecsKnown == /\ \A c \in CR : \A v \in Seen(c) : Known(c, v)
              /\ pc # "idle" => Known(cur, air)

CreatesOwn == At = "createRole" => pc = "createRole" /\ w.role \in RolesNamed(air.spec)

ProtocolInv == SpecsKnown /\ CreatesOwn

----------------------------------------------------------------------------
(* What can be read of an object *)

(* The version the server holds is one that can be read.                   *)
LEMMA ServerKnown ==
    ASSUME TypeInv, FinalizerInv, SpecsKnown, NEW c \in CR PROVE Known(c, cr[c])
BY ServerSeen DEF TypeInv, FinalizerInv, ServerInv, SpecsKnown

(* A write of a known version keeps the versions known.                    *)
LEMMA WriteKnown ==
    ASSUME TypeInv, SpecsKnown, NEW c \in CR, NEW o \in Object \cup {None}, Write(c, o),
           UNCHANGED cache, Known(c, o)
    PROVE  \A d \in CR : \A v \in Seen(d)' : Known(d, v)
<1>1. KubeTypeOK BY DEF TypeInv
<1>2. Seen(c)' = Seen(c) \cup {o} BY <1>1, WriteSeen
<1>3. \A d \in CR \ {c} : Seen(d)' = Seen(d) BY <1>1, WriteSeen, SameSeen
<1> QED BY <1>2, <1>3 DEF SpecsKnown

(* A request of a user writes a version its users may ask for.             *)
LEMMA UserKnown ==
    ASSUME TypeInv, FinalizerInv, SpecsKnown, NEW c \in CR, UserRequest(c)
    PROVE  \A d \in CR : \A v \in Seen(d)' : Known(d, v)
<1>1. KubeTypeOK BY DEF TypeInv
<1>2. UNCHANGED cache BY DEF UserRequest, CreateCR, EditCR, DeleteCR
<1>3. CASE CreateCR(c)
  <2>1. PICK s \in SpecsOf[c] : Write(c, NewObject(s)) BY <1>3 DEF CreateCR
  <2>2. s \in Spec_ BY <2>1, KubeAssumption
  <2>3. NewObject(s) \in Object /\ NewObject(s).spec = s
    BY <2>2 DEF NewObject, Object, Phase
  <2> QED BY <1>2, <2>1, <2>3, WriteKnown DEF Known
<1>4. CASE EditCR(c)
  <2>1. PICK s \in SpecsOf[c] : Write(c, [cr[c] EXCEPT !.spec = s]) BY <1>4 DEF EditCR
  <2> DEFINE o == [cr[c] EXCEPT !.spec = s]
  <2>2. s \in Spec_ /\ cr[c] \in Object BY <1>1, <1>4, <2>1, KubeAssumption DEF EditCR, KubeTypeOK
  <2>3. o \in Object /\ o.spec = s BY <2>2 DEF Object
  <2>4. Write(c, o) BY <2>1
  <2> HIDE DEF o
  <2> QED BY <1>2, <2>1, <2>3, <2>4, WriteKnown DEF Known
<1>5. CASE DeleteCR(c)
  <2> DEFINE o == [cr[c] EXCEPT !.deleting = TRUE]
  <2>1. cr[c] \in Object BY <1>1, <1>5 DEF DeleteCR, KubeTypeOK
  <2>2. o \in Object /\ o.spec = cr[c].spec BY <2>1 DEF Object
  <2>3. Write(c, Stored(o)) BY <1>5 DEF DeleteCR
  <2> HIDE DEF o
  <2>4. Known(c, Stored(o)) BY <2>1, <2>2, ServerKnown, NoneAssumption DEF Known, Stored
  <2>5. Stored(o) \in Object \cup {None} BY <2>2, StoredType
  <2> QED BY <1>2, <2>3, <2>4, <2>5, WriteKnown
<1> QED BY <1>3, <1>4, <1>5 DEF UserRequest

(* A step that writes nothing and keeps the object at hand.                *)
LEMMA QuietKnown ==
    ASSUME SpecsKnown, pc # "idle", Quiet PROVE SpecsKnown'
<1>1. \A c \in CR : Seen(c)' = Seen(c) BY SameSeen DEF Quiet
<1> QED BY <1>1 DEF SpecsKnown, Quiet, Known

(* Update sends the specification it was given.                            *)
LEMMA UpdateKnown ==
    ASSUME TypeInv, SpecsKnown, pc # "idle", air \in Object, NEW o \in Object,
           o.spec = air.spec, NEW l, Update(o, l)
    PROVE  SpecsKnown'
<1>1. cur \in CR /\ Known(cur, o)
  BY NoneAssumption DEF TypeInv, Scoped, SpecsKnown, Known
<1>2. CASE Return(TRUE) BY <1>2, QuietKnown, Ends DEF Quiet
<1>3. CASE /\ fresh
           /\ Write(cur, Stored(o))
           /\ air' = o
           /\ pc' = l
           /\ call' = NoCall
           /\ UNCHANGED <<cur, fresh, w, cache, queue, cp, edits>>
  <2>1. Stored(o) \in Object \cup {None} /\ Known(cur, Stored(o))
    BY <1>1, StoredType DEF Known, Stored
  <2>2. \A d \in CR : \A v \in Seen(d)' : Known(d, v) BY <1>1, <1>3, <2>1, WriteKnown
  <2> QED BY <1>1, <1>3, <2>2 DEF SpecsKnown, Known
<1> QED BY <1>2, <1>3 DEF Update

----------------------------------------------------------------------------
(* The two facts are kept *)

(* Only SyncRole leads to createRole.                                      *)
Elsewhere == At' # "createRole"

(* The ends of an action which leads elsewhere.                            *)
LEMMA EndsElsewhere ==
    /\ \A l, x : Goto(l, x) /\ l # "createRole" /\ l # "status" => Elsewhere
    /\ \A h, res, l, x : Report(h, res, l, x) /\ l # "createRole" => Elsewhere
    /\ \A b : Return(b) => Elsewhere
    /\ ReturnError => Elsewhere
    /\ DestroyFails => Elsewhere
    /\ Leave => Elsewhere
BY Ends DEF Elsewhere, At, Leave

(* A pruning, a destruction and the ends of Reconcile.                     *)
LEMMA PruneElsewhere == Prune \/ Destroy \/ End \/ CallFails \/ Crash => Elsewhere
<1> USE EndsElsewhere
<1>1. List \/ StaleRefs \/ StaleDetach => Elsewhere BY DEF List, StaleRefs, StaleDetach
<1>2. DropRoles \/ DropDetach => Elsewhere BY DEF DropRoles, DropDetach
<1>5. DropPolicies \/ DropPolicy => Elsewhere BY DEF DropPolicies, DropPolicy, DropPolicyThen
<1>6. DropEntities \/ DropEntityPolicy => Elsewhere
  BY DEF DropEntities, DropEntityPolicy, DropPolicyThen
<1>3. DestroyRoles \/ DestroyDetach \/ DestroyPolicies \/ DestroyRole \/ Unfinalize => Elsewhere
  BY DEF DestroyRoles, DestroyDetach, DestroyPolicies, DestroyRole, Unfinalize
<1>4. Final \/ Finish \/ Requeue \/ CallFails \/ Crash => Elsewhere
  BY DEF Final, Finish, Requeue, CallFails, Crash
<1> QED BY <1>1, <1>2, <1>3, <1>4, <1>5, <1>6 DEF Prune, Destroy, End

(* The rest of a synchronisation.                                          *)
LEMMA ProvideElsewhere == Provide => Elsewhere \/ \E e \in RoleKey : SyncRole(e)
<1> USE EndsElsewhere
<1>1. SyncRolesDone \/ CreateMissingRole \/ UpdateRoleTrust => Elsewhere
  BY DEF SyncRolesDone, CreateMissingRole, UpdateRoleTrust
<1>4. SyncPolicies => Elsewhere BY DEF SyncPolicies
<1>2. CreateMissingPolicy \/ AttachNew \/ UpdDetach \/ UpdDelete => Elsewhere
  BY DEF CreateMissingPolicy, AttachNew, AttachThen, UpdDetach, UpdDelete
<1>3. UpdCreate \/ UpdAttach \/ CheckAttached \/ Attach => Elsewhere
  BY DEF UpdCreate, UpdAttach, AttachThen, CheckAttached, Attach
<1> QED BY <1>1, <1>2, <1>3, <1>4 DEF Provide

(* The role about to be created is the entry's.                            *)
LEMMA CreatesOwnStep ==
    ASSUME TypeInv, CreatesOwn, [Next]_vars PROVE CreatesOwn'
<1>1. CASE Elsewhere BY <1>1 DEF Elsewhere, CreatesOwn
<1>2. ASSUME NEW e \in RoleKey, SyncRole(e) PROVE CreatesOwn'
  <2> DEFINE x == [w EXCEPT !.todo = @ \ {e}, !.entry = e, !.role = air.spec.roles[e].name,
                            !.refs = RefsOf(e), !.again = TRUE]
  <2>1. pc = "syncRoles" /\ pc \in SyncPoints BY <1>2 DEF SyncRole, SyncPoints
  <2>2. w \in Locals /\ e \in DOMAIN air.spec.roles
    BY <1>2, <2>1
    DEF SyncRole, TypeInv, WorkerTypeOK, Scoped, ScopeAt, TodoPoints
  <2>3. x.role \in RolesNamed(air.spec) BY <2>2 DEF Locals, RolesNamed
  <2>4. CASE Goto("createRole", x)
    <3> HIDE DEF x
    <3>1. pc' = "createRole" /\ w' = x /\ air' = air BY <2>4, Ends
    <3> QED BY <2>3, <3>1 DEF CreatesOwn
  <2>5. Elsewhere \/ Goto("createRole", x) BY <1>2, EndsElsewhere DEF SyncRole, x
  <2> QED BY <1>1, <2>4, <2>5
<1>3. CASE Begin
  <2>1. ASSUME NEW c \in CR, Pick(c) PROVE Elsewhere BY <2>1 DEF Pick, Elsewhere, At
  <2>2. GetClusterResources => Elsewhere BY EndsElsewhere DEF GetClusterResources
  <2>4. NewIAMClient => Elsewhere BY EndsElsewhere DEF NewIAMClient
  <2>3. AddFinalizer => Elsewhere
    BY EndsElsewhere DEF AddFinalizer, Update, Elsewhere, At
  <2> QED BY <1>1, <1>3, <2>1, <2>2, <2>3, <2>4 DEF Begin
<1>4. CASE UpdateCRDStatus
  <2>1. pc = "status" /\ call.return # "createRole"
    BY <1>4 DEF UpdateCRDStatus, CreatesOwn, At
  <2>2. call.return # "status"
    BY <2>1 DEF TypeInv, Scoped, ReturnPoints, DestroyPoints, SyncPoints
  <2>3. Elsewhere
    BY <1>4, <2>1, <2>2, EndsElsewhere DEF UpdateCRDStatus, Update, Elsewhere, At
  <2> QED BY <1>1, <2>3
<1>5. CASE ReplyLost BY <1>1, <1>5, EndsElsewhere DEF ReplyLost
<1>6. CASE Environment \/ UNCHANGED vars
  <2>1. UNCHANGED <<pc, air, w, call>> BY <1>6 DEF Environment, workerVars, vars
  <2> QED BY <2>1 DEF CreatesOwn, At
<1> QED
  BY <1>1, <1>2, <1>3, <1>4, <1>5, <1>6, PruneElsewhere, ProvideElsewhere
  DEF Next, Worker, Faults

(* Every version about is one that was asked for.                          *)
LEMMA SpecsKnownStep ==
    ASSUME TypeInv, FinalizerInv, SpecsKnown, [Next]_vars PROVE SpecsKnown'
<1>1. CASE Prune \/ Provide BY <1>1, SyncMoves, QuietKnown DEF Moves, SyncPoints
<1>2. CASE DestroyRoles \/ DestroyDetach \/ DestroyPolicies \/ DestroyRole
  BY <1>2, Ends, QuietKnown
  DEF DestroyRoles, DestroyDetach, DestroyPolicies, DestroyRole, Quiet
<1>3. CASE GetClusterResources \/ NewIAMClient \/ End
  BY <1>3, Ends, QuietKnown
  DEF GetClusterResources, NewIAMClient, End, Final, Finish, Requeue, Quiet
<1>4. CASE CallFails \/ ReplyLost
  BY <1>4, Ends, QuietKnown
  DEF CallFails, ReplyLost, Quiet, SyncPoints, DestroyPoints
<1>5. ASSUME NEW c \in CR, Pick(c) PROVE SpecsKnown'
  <2>1. UNCHANGED <<cr, cache, feed>> /\ cur' = c /\ air' = cache[c] BY <1>5 DEF Pick
  <2>2. \A d \in CR : Seen(d)' = Seen(d) BY <2>1, SameSeen
  <2>3. cache[c] \in Seen(c) BY DEF Seen
  <2> QED BY <2>1, <2>2, <2>3 DEF SpecsKnown
<1>6. CASE AddFinalizer
  <2> DEFINE o == [air EXCEPT !.finalizer = TRUE]
  <2>1. pc = "addFinalizer" /\ air \in Object /\ Update(o, "list")
    BY <1>6 DEF AddFinalizer, TypeInv, Scoped, ScopeAt
  <2>2. o \in Object /\ o.spec = air.spec BY <2>1 DEF Object
  <2> HIDE DEF o
  <2> QED BY <2>1, <2>2, UpdateKnown
<1>7. CASE UpdateCRDStatus
  <2>1. pc = "status" /\ air \in Object /\ call \in Call
    BY <1>7 DEF UpdateCRDStatus, TypeInv, Scoped, WorkerTypeOK
  <2>2. CASE Return(TRUE) BY <2>1, <2>2, Ends, QuietKnown DEF Quiet
  <2>3. CASE Update(StatusFor(air, call.phase, call.result), call.return)
    <3>1. call.phase \in Phase /\ call.result \in Result BY <2>1 DEF Call
    <3> QED BY <2>1, <2>3, <3>1, StatusForType, UpdateKnown
  <2> QED BY <1>7, <2>2, <2>3 DEF UpdateCRDStatus
<1>8. CASE Unfinalize
  <2>1. pc = "unfinalize" /\ air \in Object /\ cur \in CR
    BY <1>8 DEF Unfinalize, TypeInv, Scoped, ScopeAt
  <2>2. CASE Return(TRUE) BY <2>1, <2>2, Ends, QuietKnown DEF Quiet
  <2>3. CASE /\ Write(cur, Stored([air EXCEPT !.finalizer = FALSE]))
             /\ Leave
             /\ UNCHANGED <<cache, queue, cp, edits>>
    <3> DEFINE o == [air EXCEPT !.finalizer = FALSE]
    <3>1. o \in Object /\ o.spec = air.spec BY <2>1 DEF Object
    <3>2. Write(cur, Stored(o)) BY <2>3
    <3> HIDE DEF o
    <3>3. Stored(o) \in Object \cup {None} /\ Known(cur, Stored(o))
      BY <2>1, <3>1, StoredType, NoneAssumption DEF SpecsKnown, Known, Stored
    <3>4. \A d \in CR : \A v \in Seen(d)' : Known(d, v)
      BY <2>1, <2>3, <3>2, <3>3, WriteKnown
    <3> QED BY <2>3, <3>4 DEF SpecsKnown, Leave
  <2> QED BY <1>8, <2>2, <2>3 DEF Unfinalize
<1>9. CASE Crash
  <2>1. pc' = "idle" /\ \A c \in CR : Seen(c)' = {cr[c]}
    BY <1>9 DEF Crash, Leave, Relist, Seen
  <2> QED BY <2>1, ServerKnown DEF SpecsKnown
<1>10. CASE Environment \/ UNCHANGED vars
  <2>1. UNCHANGED <<pc, cur, air>> BY <1>10 DEF Environment, workerVars, vars
  <2>2. \A d \in CR : \A v \in Seen(d)' : Known(d, v)
    <3>1. CASE \E c \in CR : UserRequest(c) BY <3>1, UserKnown
    <3>2. CASE \E c \in CR : WatchEvent(c)
      BY <3>2, WatchEventServer DEF TypeInv, FinalizerInv, SpecsKnown
    <3>3. CASE UNCHANGED <<cr, cache, feed>> BY <3>3, SameSeen DEF SpecsKnown
    <3> QED
      BY <1>10, <3>1, <3>2, <3>3 DEF Environment, ControlPlaneChanges, kubeVars, vars
  <2> QED BY <2>1, <2>2 DEF SpecsKnown
<1> QED
  BY <1>1, <1>2, <1>3, <1>4, <1>5, <1>6, <1>7, <1>8, <1>9, <1>10
  DEF Next, Worker, Begin, Destroy, Faults

----------------------------------------------------------------------------
(* The steps of the protocol *)

(* No role of the operator's appears.                                      *)
Shrinks == \A r \in RoleName : Ours(r)' => Ours(r)

(* What only takes away, or touches policies and attachments alone.        *)
LEMMA OpsShrink ==
    ASSUME IAMTypeOK
    PROVE  /\ UNCHANGED roles => Shrinks
           /\ UNCHANGED iamVars => Shrinks
           /\ \A p, r : DetachRolePolicy(p, r) \/ AttachRolePolicy(p, r) => Shrinks
           /\ \A p : DeletePolicy(p) => Shrinks
           /\ \A r : DeleteRole(r) => Shrinks
           /\ \A p, d, k : CreatePolicy(p, d, k) => Shrinks
           /\ \A r \in RoleName : \A t : UpdateRole(r, t) => Shrinks
<1> USE DEF Shrinks, Ours, InPath, IAMTypeOK
<1>1. UNCHANGED roles => Shrinks OBVIOUS
<1>2. \A r : DeleteRole(r) => Shrinks BY DEF DeleteRole
<1>3. \A r \in RoleName : \A t : UpdateRole(r, t) => Shrinks
  <2> SUFFICES ASSUME NEW r \in RoleName, NEW t, UpdateRole(r, t), NEW q \in RoleName, Ours(q)'
               PROVE  Ours(q)
    OBVIOUS
  <2>1. CASE q = r /\ RoleExists(r)
    <3>1. roles[r] \in RoleEntry BY <2>1 DEF RoleExists
    <3>2. roles'[r].cluster = roles[r].cluster BY <2>1, <3>1 DEF UpdateRole, RoleEntry
    <3> QED BY <2>1, <3>2 DEF RoleExists
  <2>2. CASE ~(q = r /\ RoleExists(r)) BY <2>2 DEF UpdateRole
  <2> QED BY <2>1, <2>2
<1> HIDE DEF Shrinks
<1> QED
  BY <1>1, <1>2, <1>3
  DEF iamVars, DetachRolePolicy, AttachRolePolicy, DeletePolicy, CreatePolicy

(* A creation adds the one role it names.                                  *)
LEMMA CreateAdds ==
    ASSUME IAMTypeOK, NEW r \in RoleName, NEW t, NEW k, CreateRole(r, t, k)
    PROVE  \A q \in RoleName : Ours(q)' => Ours(q) \/ q = r
BY DEF CreateRole, Ours, InPath, IAMTypeOK

(* Nothing of an object or of the roles has changed.                       *)
LEMMA ProtocolStutter ==
    ASSUME cr' = cr, UNCHANGED roles PROVE UNCHANGED Protocol!vars
BY DEF Protocol!vars, Stages, AskedFor, OurRoles, StageOf, Ours

(* Roles have gone.                                                        *)
LEMMA ProtocolOthers ==
    ASSUME cr' = cr, Shrinks PROVE Protocol!Next
<1>1. UNCHANGED <<Stages, AskedFor>> BY DEF Stages, AskedFor, StageOf
<1>2. OurRoles' \subseteq OurRoles BY DEF OurRoles, Shrinks
<1> QED BY <1>1, <1>2 DEF Protocol!Next, Protocol!Others

(* The creation of a role of an object the server holds with the finalizer. *)
LEMMA ProtocolWork ==
    ASSUME cr' = cr, NEW c \in CR, NEW s \in SpecsOf[c], NEW r \in RolesNamed(s),
           Held(cr[c]), Dying(cr[c]) \/ Alive(cr[c]),
           \A q \in RoleName : Ours(q)' => Ours(q) \/ q = r
    PROVE  Protocol!Next
<1>1. UNCHANGED <<Stages, AskedFor>> BY DEF Stages, AskedFor, StageOf
<1>2. Stages[c] \in {"guarded", "dying"} BY DEF Stages, StageOf, Held
<1>3. r \in UNION MayAskFor[c] BY DEF MayAskFor
<1>4. OurRoles' \subseteq OurRoles \cup UNION MayAskFor[c] BY <1>3 DEF OurRoles
<1> QED BY <1>1, <1>2, <1>4 DEF Protocol!Next, Protocol!Work

(* What a write to the server is in the protocol.                          *)
LEMMA ProtocolWrite ==
    ASSUME KubeTypeOK, NEW c \in CR, NEW o, Write(c, o), UNCHANGED roles
    PROVE  /\ Stages' = [Stages EXCEPT ![c] = StageOf(o)]
           /\ AskedFor' = [AskedFor EXCEPT ![c] = IF o = None THEN {} ELSE RolesNamed(o.spec)]
           /\ OurRoles' = OurRoles
<1>1. cr' = [cr EXCEPT ![c] = o] BY DEF Write
<1>2. \A d \in CR : cr'[d] = IF d = c THEN o ELSE cr[d] BY <1>1 DEF KubeTypeOK
<1>3. Stages' = [Stages EXCEPT ![c] = StageOf(o)] BY <1>2 DEF Stages, StageOf
<1>4. AskedFor' = [AskedFor EXCEPT ![c] = IF o = None THEN {} ELSE RolesNamed(o.spec)]
  BY <1>2 DEF AskedFor
<1> QED BY <1>3, <1>4 DEF OurRoles, Ours

----------------------------------------------------------------------------
(* Every step is one of the protocol *)

ProtocolStep == Protocol!Next \/ UNCHANGED Protocol!vars

(* A request of a user is the same request there.                          *)
LEMMA UserProtocol ==
    ASSUME TypeInv, FinalizerInv, NEW c \in CR, UserRequest(c), UNCHANGED roles
    PROVE  ProtocolStep
<1>1. KubeTypeOK BY DEF TypeInv
<1>2. CASE CreateCR(c)
  <2>1. PICK s \in SpecsOf[c] : Write(c, NewObject(s)) BY <1>2 DEF CreateCR
  <2>2. s \in Spec_ BY <2>1, KubeAssumption
  <2> DEFINE o == NewObject(s)
  <2>3. o \in Object /\ ~o.deleting /\ ~o.finalizer /\ o.spec = s
    BY <2>2 DEF NewObject, Object, Phase
  <2>4. Write(c, o) BY <2>1
  <2> HIDE DEF o
  <2>5. o # None BY <2>3, NoneAssumption
  <2>6. StageOf(o) = "open" /\ Stages[c] = "absent"
    BY <1>2, <2>3, <2>5 DEF StageOf, Stages, CreateCR
  <2>7. RolesNamed(o.spec) \in MayAskFor[c] BY <2>1, <2>3 DEF MayAskFor
  <2>8. Protocol!Create(c)
    BY <1>1, <2>4, <2>5, <2>6, <2>7, ProtocolWrite DEF Protocol!Create
  <2> QED BY <2>8 DEF ProtocolStep, Protocol!Next
<1>3. CASE EditCR(c)
  <2>1. PICK s \in SpecsOf[c] : Write(c, [cr[c] EXCEPT !.spec = s]) BY <1>3 DEF EditCR
  <2>2. s \in Spec_ BY <2>1, KubeAssumption
  <2> DEFINE o == [cr[c] EXCEPT !.spec = s]
  <2>3. cr[c] \in Object /\ cr[c] # None BY <1>1, <1>3 DEF EditCR, KubeTypeOK
  <2>4. o \in Object /\ o.deleting = cr[c].deleting /\ o.finalizer = cr[c].finalizer
        /\ o.spec = s
    BY <2>2, <2>3 DEF Object
  <2>5. Write(c, o) BY <2>1
  <2> HIDE DEF o
  <2>6. o # None BY <2>4, NoneAssumption
  <2>7. StageOf(o) = Stages[c] /\ Stages[c] # "absent" BY <2>3, <2>4, <2>6 DEF StageOf, Stages
  <2>8. [Stages EXCEPT ![c] = StageOf(o)] = Stages BY <2>7 DEF Stages
  <2>9. RolesNamed(o.spec) \in MayAskFor[c] BY <2>1, <2>4 DEF MayAskFor
  <2>10. Protocol!Edit(c)
    BY <1>1, <2>5, <2>6, <2>7, <2>8, <2>9, ProtocolWrite DEF Protocol!Edit
  <2> QED BY <2>10 DEF ProtocolStep, Protocol!Next
<1>4. CASE DeleteCR(c)
  <2> DEFINE o == [cr[c] EXCEPT !.deleting = TRUE]
  <2>1. cr[c] \in Object /\ cr[c] # None /\ ~cr[c].deleting
    BY <1>1, <1>4 DEF DeleteCR, KubeTypeOK
  <2>2. o \in Object /\ o.deleting /\ o.finalizer = cr[c].finalizer /\ o.spec = cr[c].spec
    BY <2>1 DEF Object
  <2>3. Write(c, Stored(o)) BY <1>4 DEF DeleteCR
  <2> HIDE DEF o
  <2>4. o # None BY <2>2, NoneAssumption
  <2>5. CASE o.finalizer
    <3>1. Stored(o) = o BY <2>5 DEF Stored
    <3>2. StageOf(o) = "dying" /\ Stages[c] = "guarded"
      BY <2>1, <2>2, <2>4, <2>5 DEF StageOf, Stages
    <3>3. [AskedFor EXCEPT ![c] = RolesNamed(o.spec)] = AskedFor
      BY <2>1, <2>2 DEF AskedFor
    <3>4. Protocol!Delete(c)
      BY <1>1, <2>3, <2>4, <3>1, <3>2, <3>3, ProtocolWrite DEF Protocol!Delete
    <3> QED BY <3>4 DEF ProtocolStep, Protocol!Next
  <2>6. CASE ~o.finalizer
    <3>1. Stored(o) = None BY <2>2, <2>6 DEF Stored
    <3>2. StageOf(None) = "absent" /\ Stages[c] = "open"
      BY <2>1, <2>2, <2>6 DEF StageOf, Stages
    <3>3. Protocol!Delete(c)
      BY <1>1, <2>3, <3>1, <3>2, ProtocolWrite DEF Protocol!Delete
    <3> QED BY <3>3 DEF ProtocolStep, Protocol!Next
  <2> QED BY <2>5, <2>6
<1> QED BY <1>2, <1>3, <1>4 DEF UserRequest

(* An Update that keeps deletion and finalizer changes nothing there; one  *)
(* that adds the finalizer is Guard.                                       *)
LEMMA UpdateProtocol ==
    ASSUME TypeInv, FinalizerInv, pc # "idle", air \in Object, NEW o \in Object,
           o.deleting = air.deleting, o.spec = air.spec,
           o.finalizer = air.finalizer \/ (~air.deleting /\ o.finalizer),
           NEW l, Update(o, l), UNCHANGED roles
    PROVE  ProtocolStep
<1>1. cur \in CR /\ KubeTypeOK BY DEF TypeInv, Scoped
<1>2. CASE Return(TRUE) BY <1>2, Ends, ProtocolStutter DEF ProtocolStep
<1>3. CASE fresh /\ Write(cur, Stored(o))
  <2>1. air = cr[cur] /\ o # None /\ air # None
    BY <1>3, NoneAssumption DEF FinalizerInv, AtHand
  <2>2. air.deleting => air.finalizer
    BY <1>1, <2>1 DEF FinalizerInv, ServerInv, DyingIsHeld, Dying, Held
  <2>3. Stored(o) = o BY <2>2 DEF Stored
  <2>4. [AskedFor EXCEPT ![cur] = RolesNamed(o.spec)] = AskedFor
    BY <2>1 DEF AskedFor
  <2>5. CASE o.finalizer = air.finalizer
    <3>1. StageOf(o) = Stages[cur] BY <1>1, <2>1, <2>5 DEF StageOf, Stages
    <3>2. [Stages EXCEPT ![cur] = StageOf(o)] = Stages BY <3>1 DEF Stages
    <3> QED
      BY <1>1, <1>3, <2>1, <2>3, <2>4, <3>2, ProtocolWrite DEF ProtocolStep, Protocol!vars
  <2>6. CASE o.finalizer # air.finalizer
    <3>1. o.finalizer /\ ~air.finalizer /\ ~air.deleting BY <2>6 DEF Object
    <3>2. StageOf(o) = "guarded" /\ Stages[cur] = "open"
      BY <1>1, <2>1, <3>1 DEF StageOf, Stages
    <3>3. Protocol!Guard(cur)
      BY <1>1, <1>3, <2>1, <2>3, <2>4, <3>2, ProtocolWrite DEF Protocol!Guard
    <3> QED BY <1>1, <3>3 DEF ProtocolStep, Protocol!Next
  <2> QED BY <2>5, <2>6
<1> QED BY <1>2, <1>3 DEF Update

(* unfinalize is Release.                                                  *)
LEMMA UnfinalizeProtocol ==
    ASSUME TypeInv, FinalizerInv, Unfinalize PROVE ProtocolStep
<1>1. /\ pc = "unfinalize" /\ At = "unfinalize"
      /\ cur \in CR
      /\ air \in Object
      /\ KubeTypeOK
      /\ UNCHANGED roles
  BY DEF Unfinalize, TypeInv, Scoped, ScopeAt, At, iamVars
<1>2. CASE Return(TRUE) BY <1>1, <1>2, Ends, ProtocolStutter DEF ProtocolStep
<1>3. CASE fresh /\ Write(cur, Stored([air EXCEPT !.finalizer = FALSE]))
  <2>1. air = cr[cur] /\ Dying(air)
    BY <1>1, <1>3 DEF FinalizerInv, AtHand, Branch
  <2>2. Stored([air EXCEPT !.finalizer = FALSE]) = None
    BY <1>1, <2>1 DEF Stored, Object, Dying
  <2>3. Stages[cur] = "dying" /\ StageOf(None) = "absent"
    BY <1>1, <2>1 DEF Stages, StageOf, Dying
  <2>4. AskedFor[cur] \cap OurRoles = {}
    <3>1. \A r \in RolesNamed(air.spec) : ~Ours(r)
      BY <1>1 DEF FinalizerInv, RolesGone, GoneAt, RolesNamed
    <3> QED BY <1>1, <2>1, <3>1 DEF AskedFor, OurRoles, Dying
  <2>5. Protocol!Release(cur)
    BY <1>1, <1>3, <2>2, <2>3, <2>4, ProtocolWrite DEF Protocol!Release
  <2> QED BY <1>1, <2>5 DEF ProtocolStep, Protocol!Next
<1> QED BY <1>2, <1>3 DEF Unfinalize

(* The creation of a role, its answer lost or not, is Work.                *)
LEMMA CreateProtocol ==
    ASSUME TypeInv, FinalizerInv, ProtocolInv, NEW t, NEW k, pc = "createRole",
           CreateRole(w.role, t, k), cr' = cr
    PROVE  ProtocolStep
<1>1. At = "createRole" /\ pc \in SyncPoints BY DEF At, SyncPoints
<1>2. /\ cur \in CR
      /\ air # None
      /\ w.role \in RoleName
      /\ IAMTypeOK
  BY <1>1, NoneAssumption DEF TypeInv, Scoped, ScopeAt, SyncRolePoints
<1>3. air.spec \in SpecsOf[cur] /\ w.role \in RolesNamed(air.spec)
  BY <1>1, <1>2 DEF ProtocolInv, SpecsKnown, Known, CreatesOwn
<1>4. Held(cr[cur])
  BY <1>1 DEF FinalizerInv, Branch, AtHand
<1>5. Dying(cr[cur]) \/ Alive(cr[cur]) BY <1>4 DEF Dying, Alive, Held
<1>6. \A q \in RoleName : Ours(q)' => Ours(q) \/ q = w.role BY <1>2, CreateAdds
<1> QED BY <1>2, <1>3, <1>4, <1>5, <1>6, ProtocolWork DEF ProtocolStep

----------------------------------------------------------------------------
(* The rest of a synchronisation and of a destruction only takes away *)

Calm == cr' = cr /\ Shrinks

(* An error leaves the account as it is.                                   *)
LEMMA ErrorCalm == ASSUME TypeInv, ReturnError PROVE Calm
BY Ends, OpsShrink DEF Calm, ReturnError, TypeInv

(* All of Prune.                                                           *)
LEMMA CalmPrune == ASSUME TypeInv, Prune PROVE Calm
<1>0. IAMTypeOK BY DEF TypeInv
<1> USE <1>0, Ends, OpsShrink, ErrorCalm DEF Calm
<1>1. List \/ StaleRefs \/ StaleDetach => Calm BY DEF List, StaleRefs, StaleDetach
<1>2. DropRoles \/ DropDetach => Calm BY DEF DropRoles, DropDetach
<1>3. DropPolicies \/ DropPolicy => Calm BY DEF DropPolicies, DropPolicy, DropPolicyThen
<1>4. DropEntities \/ DropEntityPolicy => Calm
  BY DEF DropEntities, DropEntityPolicy, DropPolicyThen
<1> QED BY <1>1, <1>2, <1>3, <1>4 DEF Prune

(* All of Provide but the creation of a role.                              *)
LEMMA CalmProvide == ASSUME TypeInv, Provide, ~CreateMissingRole PROVE Calm
<1>0. IAMTypeOK BY DEF TypeInv
<1> USE <1>0, Ends, OpsShrink, ErrorCalm DEF Calm
<1>1. SyncRolesDone \/ SyncPolicies => Calm BY DEF SyncRolesDone, SyncPolicies
<1>2. \A e \in RoleKey : SyncRole(e) => Calm BY DEF SyncRole
<1>3. CASE UpdateRoleTrust
  <2>1. w.role \in RoleName
    BY <1>3 DEF UpdateRoleTrust, TypeInv, Scoped, ScopeAt, SyncRolePoints
  <2> QED BY <1>3, <2>1 DEF UpdateRoleTrust
<1>4. CreateMissingPolicy \/ AttachNew \/ UpdDetach \/ UpdDelete => Calm
  BY DEF CreateMissingPolicy, CreateFromSpec, AttachNew, AttachThen, UpdDetach, UpdDelete
<1>5. UpdCreate \/ UpdAttach \/ CheckAttached \/ Attach => Calm
  BY DEF UpdCreate, CreateFromSpec, UpdAttach, AttachThen, CheckAttached, Attach
<1> QED BY <1>1, <1>2, <1>3, <1>4, <1>5 DEF Provide

(* All of Destroy but the removal of the finalizer, and what reads only.   *)
LEMMA CalmRest ==
    ASSUME TypeInv,
           \/ DestroyRoles \/ DestroyDetach \/ DestroyPolicies \/ DestroyRole
           \/ GetClusterResources \/ NewIAMClient \/ End \/ CallFails \/ Crash
           \/ \E c \in CR : Pick(c)
    PROVE  Calm
<1>0. IAMTypeOK BY DEF TypeInv
<1> USE <1>0, Ends, OpsShrink, ErrorCalm DEF Calm
<1>1. DestroyRoles \/ DestroyDetach => Calm BY DEF DestroyRoles, DestroyDetach
<1>2. DestroyPolicies \/ DestroyRole => Calm
  BY DEF DestroyPolicies, DestroyRole, DestroyFails
<1>3. GetClusterResources \/ NewIAMClient \/ End => Calm
  BY DEF GetClusterResources, NewIAMClient, End, Final, Finish, Requeue
<1>4. CallFails \/ Crash => Calm BY DEF CallFails, Crash, Relist
<1>5. (\E c \in CR : Pick(c)) => Calm BY DEF Pick
<1> QED BY <1>1, <1>2, <1>3, <1>4, <1>5

(* The environment but for the requests of users.                          *)
LEMMA CalmEnvironment ==
    ASSUME TypeInv, Environment, \A c \in CR : ~UserRequest(c) PROVE Calm
<1>0. IAMTypeOK BY DEF TypeInv
<1>1. CASE OutOfBand /\ UNCHANGED kubeVars
  BY <1>0, <1>1, OpsShrink DEF OutOfBand, kubeVars, Calm
<1>2. CASE Foreign /\ UNCHANGED kubeVars
  <2>1. CASE UNCHANGED roles BY <1>0, <1>2, <2>1, OpsShrink DEF kubeVars, Calm
  <2>2. ASSUME NEW r \in RoleName, NEW t, CreateRole(r, t, None), ~RoleExists(r) PROVE Shrinks
    BY <1>0, <2>2 DEF CreateRole, Shrinks, Ours, InPath, RoleExists, IAMTypeOK
  <2> QED BY <1>2, <2>1, <2>2 DEF Foreign, kubeVars, Calm
<1>3. CASE cr' = cr /\ UNCHANGED iamVars BY <1>0, <1>3, OpsShrink DEF Calm
<1> QED
  BY <1>1, <1>2, <1>3 DEF Environment, WatchEvent, ControlPlaneChanges

----------------------------------------------------------------------------
(* The theorems *)

(* Whatever the system does is a step of the protocol.                     *)
LEMMA NextProtocol ==
    ASSUME TypeInv, FinalizerInv, ProtocolInv, [Next]_vars PROVE ProtocolStep
<1>1. CASE Calm BY <1>1, ProtocolOthers DEF Calm, ProtocolStep
<1>2. CASE UNCHANGED vars
  BY <1>2, ProtocolStutter DEF vars, iamVars, kubeVars, ProtocolStep
<1>3. CASE CreateMissingRole BY <1>3, Ends, CreateProtocol DEF CreateMissingRole
<1>4. CASE ReplyLost
  <2>1. CASE pc = "createRole"
    BY <1>4, <2>1, Ends, CreateProtocol DEF ReplyLost
  <2>2. CASE pc # "createRole"
    <3>1. IAMTypeOK BY DEF TypeInv
    <3>2. Calm BY <1>4, <2>2, <3>1, Ends, OpsShrink DEF ReplyLost, CreateFromSpec, Calm
    <3> QED BY <1>1, <3>2
  <2> QED BY <2>1, <2>2
<1>5. CASE Unfinalize BY <1>5, UnfinalizeProtocol
<1>6. CASE AddFinalizer
  <2> DEFINE o == [air EXCEPT !.finalizer = TRUE]
  <2>1. /\ pc # "idle" /\ air \in Object /\ ~air.deleting
        /\ Update(o, "list")
        /\ UNCHANGED roles
    BY <1>6 DEF AddFinalizer, TypeInv, Scoped, ScopeAt, FinalizerInv, Branch, Alive, At, iamVars
  <2>2. o \in Object /\ o.deleting = air.deleting /\ o.spec = air.spec /\ o.finalizer
    BY <2>1 DEF Object
  <2> HIDE DEF o
  <2> QED BY <2>1, <2>2, UpdateProtocol
<1>7. CASE UpdateCRDStatus
  <2> DEFINE o == StatusFor(air, call.phase, call.result)
  <2>1. pc # "idle" /\ air \in Object /\ call \in Call /\ UNCHANGED roles
    BY <1>7 DEF UpdateCRDStatus, TypeInv, Scoped, WorkerTypeOK, iamVars
  <2>2. CASE Return(TRUE) BY <2>1, <2>2, Ends, ProtocolStutter DEF ProtocolStep
  <2>3. CASE Update(o, call.return)
    <3>1. call.phase \in Phase /\ call.result \in Result BY <2>1 DEF Call
    <3>2. o \in Object BY <2>1, <3>1, StatusForType
    <3>3. o.deleting = air.deleting /\ o.spec = air.spec /\ o.finalizer = air.finalizer
      BY <2>1 DEF StatusFor, Object
    <3> HIDE DEF o
    <3> QED BY <2>1, <2>3, <3>2, <3>3, UpdateProtocol
  <2> QED BY <1>7, <2>2, <2>3 DEF UpdateCRDStatus
<1>8. CASE Environment
  <2>1. CASE \A c \in CR : ~UserRequest(c) BY <1>1, <1>8, <2>1, CalmEnvironment
  <2>2. ASSUME NEW c \in CR, UserRequest(c) PROVE UNCHANGED roles
    <3>1. edits' = edits - 1 /\ edits \in Nat
      BY <2>2 DEF UserRequest, CreateCR, EditCR, DeleteCR, Spend, TypeInv, KubeTypeOK
    <3>2. edits' # edits BY <3>1
    <3>3. cr' # cr \/ UNCHANGED iamVars BY <1>8, <3>2 DEF Environment, kubeVars
    <3> QED BY <1>8, <3>2 DEF Environment, kubeVars, WatchEvent, ControlPlaneChanges, iamVars
  <2> QED BY <2>1, <2>2, UserProtocol
<1> QED
  BY <1>1, <1>2, <1>3, <1>4, <1>5, <1>6, <1>7, <1>8, CalmPrune, CalmProvide, CalmRest
  DEF Next, Worker, Faults, Begin, Destroy

(* The server starts without objects and the account without roles.        *)
LEMMA InitProtocol == Init => ProtocolInv /\ Protocol!Init
<1> SUFFICES ASSUME Init PROVE ProtocolInv /\ Protocol!Init OBVIOUS
<1>1. /\ \A c \in CR : cr[c] = None /\ Seen(c) = {None}
      /\ pc = "idle"
      /\ \A r \in RoleName : roles[r] = None
  BY DEF Init, KubeInit, IAMInit, Seen
<1>2. ProtocolInv BY <1>1 DEF ProtocolInv, SpecsKnown, CreatesOwn, Known, At
<1>3. Protocol!Init
  BY <1>1 DEF Protocol!Init, Stages, StageOf, AskedFor, OurRoles, Ours, InPath
<1> QED BY <1>2, <1>3

(* The inductive step of the theorem below.                                *)
LEMMA NextKnown ==
    ASSUME TypeInv, FinalizerInv, ProtocolInv, [Next]_vars PROVE ProtocolInv'
BY CreatesOwnStep, SpecsKnownStep DEF ProtocolInv

(* The worker never has an object in its hands that its users did not ask  *)
(* for, and creates no role but those of the entry it is ranging over.     *)
THEOREM ProtocolInvariance == Spec => []ProtocolInv
<1>1. Init => ProtocolInv BY InitProtocol
<1>2. TypeInv /\ FinalizerInv /\ ProtocolInv /\ [Next]_vars => ProtocolInv' BY NextKnown
<1> QED BY <1>1, <1>2, ScopeCorrect, FinalizerInvariance, PTL DEF Spec

(* The controller implements FinalizerProtocol, with any number of objects, *)
(* names, crashes, failed calls and changes by others.                     *)
THEOREM ProtocolImplementedHolds == Spec => ProtocolImplemented
<1>1. Init => Protocol!Init BY InitProtocol
<1>2. TypeInv /\ FinalizerInv /\ ProtocolInv /\ [Next]_vars => [Protocol!Next]_Protocol!vars
  BY NextProtocol DEF ProtocolStep
<1> QED
  BY <1>1, <1>2, ScopeCorrect, FinalizerInvariance, ProtocolInvariance, PTL
  DEF Spec, ProtocolImplemented, Protocol!Spec

(* What objects may ask for is a set of role names.                        *)
LEMMA AsksKnownNames == Protocol!AsksTyped
<1> SUFFICES ASSUME NEW c \in CR, NEW s \in SpecsOf[c] PROVE RolesNamed(s) \subseteq RoleName
  BY DEF Protocol!AsksTyped, MayAskFor
<1>1. s \in Spec_ BY KubeAssumption
<1> QED BY <1>1, SpecFields DEF RolesNamed

(* No role is left behind which its objects name in every version.         *)
THEOREM NoRoleLeft == Spec => []NoRoleLeftBehind
<1>1. Protocol!Spec => []Protocol!NothingLeftBehind
  BY AsksKnownNames, Protocol!NothingLeft
<1> QED
  BY <1>1, ProtocolImplementedHolds, PTL DEF ProtocolImplemented, NoRoleLeftBehind
=============================================================================
