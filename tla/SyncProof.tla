------------------------------ MODULE SyncProof ------------------------------
(***************************************************************************)
(* What a synchronisation does to the account, for every value of the      *)
(* constants: it keeps what its specification wants, prunes only its own   *)
(* cluster's entities, changes nothing in an account that is in sync, and  *)
(* leaves the account in sync when it ends without an error.               *)
(*                                                                         *)
(* The invariants are those of SyncInvariant.  Each proof goes through the *)
(* handlers of a pass one by one; every other step leaves the point, the   *)
(* locals and the specification at hand as they are, or ends the pass.     *)
(***************************************************************************)
EXTENDS ProtocolProof, SyncInvariant

----------------------------------------------------------------------------
(* What the operations do to each entity *)

LEMMA DetachFrame ==
    ASSUME NEW p, NEW r, DetachRolePolicy(p, r)
    PROVE  /\ UNCHANGED <<roles, policies>>
           /\ attached' \subseteq attached
           /\ \A x, y : <<x, y>> \in attached => <<x, y>> \in attached' \/ (x = r /\ y = p)
           /\ PolicyExists(p) => <<r, p>> \notin attached'
           /\ <<r, p>> \notin attached \/ ~PolicyExists(p) => UNCHANGED iamVars
BY DEF DetachRolePolicy, iamVars

LEMMA DeletePolicyFrame ==
    ASSUME IAMTypeOK, NEW p, DeletePolicy(p)
    PROVE  /\ UNCHANGED <<roles, attached>>
           /\ \A q \in PolicyName : policies'[q] = IF q = p /\ PolicyExists(p) THEN None
                                                   ELSE policies[q]
           /\ ~PolicyExists(p) => UNCHANGED iamVars
<1>1. ~PolicyExists(p) => policies' = policies BY DEF DeletePolicy, IAMTypeOK
<1> QED BY <1>1 DEF DeletePolicy, IAMTypeOK, iamVars

LEMMA DeleteRoleFrame ==
    ASSUME IAMTypeOK, NEW r, DeleteRole(r)
    PROVE  /\ UNCHANGED <<policies, attached>>
           /\ \A x \in RoleName : roles'[x] = IF x = r THEN None ELSE roles[x]
           /\ ~RoleExists(r) => UNCHANGED iamVars
<1>1. ~RoleExists(r) => roles' = roles BY DEF DeleteRole, IAMTypeOK, RoleExists
<1> QED BY <1>1 DEF DeleteRole, IAMTypeOK, iamVars

LEMMA CreatePolicyFrame ==
    ASSUME IAMTypeOK, NEW p \in PolicyName, NEW d, NEW k, CreatePolicy(p, d, k)
    PROVE  /\ UNCHANGED <<roles, attached>>
           /\ \A q \in PolicyName : q # p => policies'[q] = policies[q]
           /\ policies'[p] = IF policies[p] # None THEN policies[p] ELSE [doc |-> d, cluster |-> k]
           /\ policies[p] # None => UNCHANGED iamVars
<1>1. policies[p] # None => policies' = policies BY DEF CreatePolicy, IAMTypeOK
<1> QED BY <1>1 DEF CreatePolicy, IAMTypeOK, iamVars

LEMMA CreateRoleFrame ==
    ASSUME IAMTypeOK, NEW r \in RoleName, NEW t, NEW k, CreateRole(r, t, k)
    PROVE  /\ UNCHANGED <<policies, attached>>
           /\ \A x \in RoleName : x # r => roles'[x] = roles[x]
           /\ roles'[r] = IF RoleExists(r) THEN roles[r] ELSE [trust |-> t, cluster |-> k]
           /\ RoleExists(r) => UNCHANGED iamVars
<1>1. RoleExists(r) => roles' = roles BY DEF CreateRole, IAMTypeOK
<1> QED BY <1>1 DEF CreateRole, IAMTypeOK, iamVars

LEMMA UpdateRoleFrame ==
    ASSUME IAMTypeOK, NEW r \in RoleName, NEW t \in TrustDoc, UpdateRole(r, t)
    PROVE  /\ UNCHANGED <<policies, attached>>
           /\ \A x \in RoleName : x # r => roles'[x] = roles[x]
           /\ ~RoleExists(r) => roles'[r] = roles[r]
           /\ RoleExists(r) => /\ roles'[r] # None
                               /\ roles'[r].trust = t
                               /\ roles'[r].cluster = roles[r].cluster
           /\ RoleExists(r) /\ roles[r].trust = t => UNCHANGED iamVars
<1>1. roles'[r] = IF RoleExists(r) THEN [roles[r] EXCEPT !.trust = t] ELSE roles[r]
  BY DEF UpdateRole, IAMTypeOK
<1>2. CASE RoleExists(r)
  <2>1. roles[r] \in RoleEntry BY <1>2 DEF RoleExists, IAMTypeOK
  <2>2. roles'[r] \in RoleEntry BY <1>1, <1>2, <2>1 DEF RoleEntry
  <2>3. roles'[r].trust = t /\ roles'[r].cluster = roles[r].cluster
    BY <1>1, <1>2, <2>1 DEF RoleEntry
  <2>4. ASSUME roles[r].trust = t PROVE roles' = roles
    <3>1. [roles[r] EXCEPT !.trust = t] = roles[r] BY <2>1, <2>4 DEF RoleEntry
    <3> QED BY <1>2, <3>1 DEF UpdateRole, IAMTypeOK
  <2> QED BY <1>2, <2>2, <2>3, <2>4, EntryAssumption DEF UpdateRole, IAMTypeOK, iamVars
<1> QED BY <1>1, <1>2 DEF UpdateRole, IAMTypeOK

LEMMA AttachFrame ==
    ASSUME NEW p, NEW r, AttachRolePolicy(p, r)
    PROVE  /\ UNCHANGED <<roles, policies>>
           /\ attached \subseteq attached'
           /\ \A x, y : <<x, y>> \in attached' => <<x, y>> \in attached \/ (x = r /\ y = p)
           /\ <<r, p>> \in attached'
           /\ <<r, p>> \in attached => UNCHANGED iamVars
BY DEF AttachRolePolicy, iamVars

(* What others create.                                                     *)
LEMMA ForeignFrame ==
    ASSUME IAMTypeOK, Foreign
    PROVE  /\ \A r \in RoleName : RoleExists(r) => roles'[r] = roles[r]
           /\ \A p \in PolicyName : policies[p] # None => policies'[p] = policies[p]
           /\ \A p \in PolicyName : policies'[p] # policies[p] => ~PolicyExists(p)'
           /\ \A r \in RoleName, p \in PolicyName :
                <<r, p>> \in attached' =>
                  \/ <<r, p>> \in attached
                  \/ RoleExists(r) /\ roles' = roles /\ policies'[p] # None
<1>1. ASSUME NEW r \in RoleName, NEW t \in TrustDoc, ~RoleExists(r), CreateRole(r, t, None)
      PROVE  /\ UNCHANGED <<policies, attached>>
             /\ \A x \in RoleName : RoleExists(x) => roles'[x] = roles[x]
  BY <1>1, CreateRoleFrame
<1>2. ASSUME NEW p \in PolicyName, NEW d \in Doc, NEW R \in SUBSET {r \in RoleName : RoleExists(r)},
             policies[p] = None,
             policies' = [policies EXCEPT ![p] = [doc |-> d, cluster |-> None]],
             attached' = attached \cup (R \X {p}), UNCHANGED roles
      PROVE  /\ \A q \in PolicyName : q # p => policies'[q] = policies[q]
             /\ ~PolicyExists(p)'
             /\ policies'[p] # None
             /\ \A x \in RoleName, q \in PolicyName :
                  <<x, q>> \in attached' => <<x, q>> \in attached \/ (RoleExists(x) /\ q = p)
  <2>1. /\ \A q \in PolicyName : q # p => policies'[q] = policies[q]
        /\ policies'[p] = [doc |-> d, cluster |-> None]
    BY <1>2 DEF IAMTypeOK
  <2>2. policies'[p] # None BY <2>1, EntryAssumption DEF PolicyEntry, Owner
  <2>3. ~PolicyExists(p)' BY <2>1 DEF PolicyExists, InPath
  <2> QED BY <1>2, <2>1, <2>2, <2>3
<1> QED BY <1>1, <1>2 DEF Foreign

(* What others create is outside the path, and takes nothing away.         *)
Grown == /\ \A r \in RoleName : RoleExists(r) => roles'[r] = roles[r]
         /\ \A r \in RoleName : roles[r] = None /\ roles'[r] # None => roles'[r].cluster = None
         /\ \A p \in PolicyName : policies[p] # None => policies'[p] = policies[p]
         /\ \A p \in PolicyName : policies[p] = None => ~InPath(policies'[p])
         /\ attached \subseteq attached'
         /\ \A r, p : <<r, p>> \in attached' /\ <<r, p>> \notin attached
                       => p \in PolicyName /\ policies[p] = None

LEMMA ForeignGrows == ASSUME IAMTypeOK, Foreign PROVE Grown
<1>1. ASSUME NEW r \in RoleName, NEW t \in TrustDoc, ~RoleExists(r), CreateRole(r, t, None)
      PROVE  Grown
  <2>1. UNCHANGED <<policies, attached>> BY <1>1 DEF CreateRole
  <2>2. /\ \A x \in RoleName : x # r => roles'[x] = roles[x]
        /\ roles'[r] = [trust |-> t, cluster |-> None]
    BY <1>1, CreateRoleFrame DEF RoleExists
  <2> QED BY <1>1, <2>1, <2>2 DEF Grown, RoleExists, InPath
<1>2. ASSUME NEW p \in PolicyName, NEW d \in Doc, NEW R,
             policies[p] = None,
             policies' = [policies EXCEPT ![p] = [doc |-> d, cluster |-> None]],
             attached' = attached \cup (R \X {p}),
             UNCHANGED roles
      PROVE  Grown
  <2>1. /\ \A q \in PolicyName : q # p => policies'[q] = policies[q]
        /\ policies'[p] = [doc |-> d, cluster |-> None]
    BY <1>2 DEF IAMTypeOK
  <2>2. ASSUME NEW r, NEW q, <<r, q>> \in attached', <<r, q>> \notin attached PROVE q = p
    BY <1>2, <2>2
  <2> QED BY <1>2, <2>1, <2>2 DEF Grown, RoleExists, InPath
<1> QED BY <1>1, <1>2 DEF Foreign

----------------------------------------------------------------------------
(* The ends of an action *)

LEMMA EndsMove ==
    /\ \A l, x : Goto(l, x) /\ l # "status" => At' = l /\ w' = x /\ air' = air
    /\ \A h, res, l, x : Report(h, res, l, x) => At' = l /\ w' = x /\ air' = air
    /\ \A b : Return(b) => At' = "idle"
    /\ ReturnError => At' = "idle" /\ UNCHANGED iamVars
    /\ Leave => At' = "idle"
BY DEF At, Goto, Report, Return, ReturnError, Leave

(* The points at which a synchronisation has something at hand.            *)
BusyPoints == PrunePoints \cup SyncRolePoints \cup {"syncRoles", "final", "return"}

(* The worker stays where it is, with what it has.                         *)
Same == At' = At /\ w' = w /\ air'.spec = air.spec

(* The facts the proofs for the handlers of a synchronisation start from.  *)
LEMMA PassFacts ==
    ASSUME TypeInv, pc \in SyncPoints
    PROVE  /\ At = pc
           /\ IAMTypeOK
           /\ cur \in CR
           /\ w \in Locals
           /\ air \in Object
           /\ air.spec \in Spec_
           /\ w.arn \in ARN
           /\ ScopeAt(pc, w, air)
<1>1. pc # "status" /\ pc # "idle" BY DEF SyncPoints
<1>2. StepTypeOK BY DEF TypeInv, StepTypeOK, RestTypeOK
<1> QED BY <1>1, <1>2, SyncFacts DEF At, TypeInv, Scoped

(* Outside the handlers of a synchronisation: stay, or end the pass.       *)
LEMMA StayOrEnd ==
    ASSUME TypeInv, [Next]_vars, ~Prune, ~Provide, ~ReplyLost, ~Final
    PROVE  Same \/ At' \notin BusyPoints
<1> DEFINE Away == At' \in {"idle", "getClusterResources", "newIAMClient", "addFinalizer",
                                  "list", "requeue", "unfinalize"} \cup DestroyPoints
<1>1. CASE UNCHANGED vars BY <1>1 DEF vars, workerVars, Same, At
<1>2. CASE Environment BY <1>2 DEF Environment, workerVars, Same, At
<1>3. Faults => Away
  <2>1. CallFails => At' = "requeue" \/ At' = "idle" BY EndsMove DEF CallFails
  <2>2. Crash => At' = "idle" BY EndsMove DEF Crash
  <2> QED BY <2>1, <2>2 DEF Faults
<1>4. Begin => Away
  <2>1. (\E c \in CR : Pick(c)) => At' = "getClusterResources" BY DEF Pick, At
  <2>2. GetClusterResources => At' \in {"idle", "requeue", "newIAMClient"}
    <3>1. Return(TRUE) => At' = "idle" BY EndsMove
    <3>2. Report("Provisioning", NoResult, "requeue", w) => At' = "requeue" BY EndsMove
    <3>3. Goto("newIAMClient", [w EXCEPT !.arn = cp[air.spec.cluster]]) => At' = "newIAMClient"
      BY EndsMove
    <3> QED BY <3>1, <3>2, <3>3 DEF GetClusterResources
  <2>3. NewIAMClient => At' \in {"addFinalizer", "list", "destroyRoles"}
    BY EndsMove DEF NewIAMClient
  <2>4. AddFinalizer => At' \in {"idle", "list"} BY EndsMove DEF AddFinalizer, Update, At
  <2> QED BY <2>1, <2>2, <2>3, <2>4 DEF Begin, DestroyPoints
<1>5. CASE UpdateCRDStatus
  <2>1. /\ pc = "status" /\ air \in Object /\ call.return \in ReturnPoints
        /\ call.phase \in Phase /\ call.result \in Result
    BY <1>5 DEF UpdateCRDStatus, TypeInv, Scoped, WorkerTypeOK, Call
  <2>2. CASE Return(TRUE) BY <2>2, EndsMove
    DEF BusyPoints, PrunePoints, RolePrunePoints, PolicyPoints, SyncRolePoints, SyncPolicyPoints
  <2>3. CASE Update(StatusFor(air, call.phase, call.result), call.return)
    <3>1. call.return # "status" BY <2>1 DEF ReturnPoints, DestroyPoints, SyncPoints
    <3>2. StatusFor(air, call.phase, call.result).spec = air.spec BY <2>1, StatusForType
    <3>3. Return(TRUE) => At' = "idle" BY EndsMove
    <3>4. ~Return(TRUE) => Same BY <2>1, <2>3, <3>1, <3>2 DEF Update, Same, At
    <3> QED BY <3>3, <3>4
      DEF BusyPoints, PrunePoints, RolePrunePoints, PolicyPoints, SyncRolePoints, SyncPolicyPoints
  <2> QED BY <1>5, <2>2, <2>3 DEF UpdateCRDStatus
<1>6. Destroy => Away
  <2>0. DestroyFails => At' = "requeue" BY EndsMove DEF DestroyFails
  <2>1. DestroyRoles => At' \in {"unfinalize", "destroyRoles", "destroyDetach"}
    <3>1. \A x : Goto("destroyRoles", x) => At' = "destroyRoles" BY EndsMove
    <3>2. \A x : Goto("destroyDetach", x) => At' = "destroyDetach" BY EndsMove
    <3>3. Report("Destroyed", NoResult, "unfinalize", w) => At' = "unfinalize" BY EndsMove
    <3> QED BY <3>1, <3>2, <3>3, Zenon DEF DestroyRoles
  <2>2. DestroyDetach => At' \in {"destroyPolicies", "destroyDetach"}
    <3>1. \A x : Goto("destroyPolicies", x) => At' = "destroyPolicies" BY EndsMove
    <3>2. \A x : Goto("destroyDetach", x) => At' = "destroyDetach" BY EndsMove
    <3> QED BY <3>1, <3>2, Zenon DEF DestroyDetach
  <2>3. DestroyPolicies => At' \in {"requeue", "destroyRole", "destroyPolicies"}
    <3>1. \A x : Goto("destroyPolicies", x) => At' = "destroyPolicies" BY EndsMove
    <3>2. \A x : Goto("destroyRole", x) => At' = "destroyRole" BY EndsMove
    <3> QED BY <2>0, <3>1, <3>2, Zenon DEF DestroyPolicies
  <2>4. DestroyRole => At' \in {"requeue", "destroyRoles"} BY <2>0, EndsMove DEF DestroyRole
  <2>5. Unfinalize => At' = "idle" BY EndsMove DEF Unfinalize
  <2> QED BY <2>1, <2>2, <2>3, <2>4, <2>5 DEF Destroy, DestroyPoints
<1>7. Finish \/ Requeue => Away BY EndsMove DEF Finish, Requeue
<1>8. Away => At' \notin BusyPoints
  BY DEF BusyPoints, PrunePoints, RolePrunePoints, PolicyPoints, SyncRolePoints,
         SyncPolicyPoints, DestroyPoints
<1> HIDE DEF Away
<1> QED BY <1>1, <1>2, <1>3, <1>4, <1>5, <1>6, <1>7, <1>8 DEF Next, Worker, End, Faults
----------------------------------------------------------------------------
(* Attachments have two ends *)

(* Policies in the path only go.                                           *)
PoliciesFade ==
    \A p \in PolicyName : PolicyExists(p)' => PolicyExists(p) /\ policies'[p] = policies[p]

(* Each operation keeps the ends of what is attached; those which delete   *)
(* are refused while something is.                                         *)
LEMMA SameEnds ==
    ASSUME EndsExist, UNCHANGED iamVars PROVE EndsExist' /\ PoliciesFade
BY DEF EndsExist, iamVars, RoleExists, PolicyExists, PoliciesFade

LEMMA DetachEnds ==
    ASSUME EndsExist, NEW p, NEW r, DetachRolePolicy(p, r) PROVE EndsExist' /\ PoliciesFade
<1>1. UNCHANGED <<roles, policies>> /\ attached' \subseteq attached BY DetachFrame
<1> QED BY <1>1 DEF EndsExist, RoleExists, PolicyExists, PoliciesFade

LEMMA DeletePolicyEnds ==
    ASSUME IAMTypeOK, EndsExist, NEW p, CanDeletePolicy(p), DeletePolicy(p)
    PROVE  EndsExist' /\ PoliciesFade
<1>1. /\ UNCHANGED <<roles, attached>>
      /\ \A q \in PolicyName : policies'[q] = IF q = p /\ PolicyExists(p) THEN None ELSE policies[q]
  BY DeletePolicyFrame
<1>2. ASSUME NEW r \in RoleName, NEW q \in PolicyName, <<r, q>> \in attached'
      PROVE  RoleExists(r)' /\ policies'[q] # None
  <2>1. ~(q = p /\ PolicyExists(p)) BY <1>1, <1>2 DEF CanDeletePolicy, HoldersOf
  <2> QED BY <1>1, <1>2, <2>1 DEF EndsExist, RoleExists
<1>3. PoliciesFade BY <1>1 DEF PoliciesFade, PolicyExists, InPath
<1> QED BY <1>2, <1>3 DEF EndsExist

LEMMA DeleteRoleEnds ==
    ASSUME IAMTypeOK, EndsExist, NEW r, CanDeleteRole(r), DeleteRole(r)
    PROVE  EndsExist' /\ PoliciesFade
<1>1. /\ UNCHANGED <<policies, attached>>
      /\ \A x \in RoleName : roles'[x] = IF x = r THEN None ELSE roles[x]
  BY DeleteRoleFrame
<1>2. \A q \in PolicyName : <<r, q>> \notin attached BY DEF CanDeleteRole, AttachedTo
<1> QED BY <1>1, <1>2 DEF EndsExist, RoleExists, PoliciesFade, PolicyExists

LEMMA CreatePolicyEnds ==
    ASSUME IAMTypeOK, EndsExist, NEW p \in PolicyName, NEW d, NEW k, CreatePolicy(p, d, k)
    PROVE  EndsExist'
<1>1. /\ UNCHANGED <<roles, attached>>
      /\ \A q \in PolicyName : policies[q] # None => policies'[q] = policies[q]
  BY CreatePolicyFrame
<1> QED BY <1>1 DEF EndsExist, RoleExists

LEMMA CreateRoleEnds ==
    ASSUME IAMTypeOK, EndsExist, NEW r \in RoleName, NEW t, NEW k, CreateRole(r, t, k)
    PROVE  EndsExist' /\ PoliciesFade
<1>1. /\ UNCHANGED <<policies, attached>>
      /\ \A x \in RoleName : RoleExists(x) => roles'[x] = roles[x]
  BY CreateRoleFrame
<1> QED BY <1>1 DEF EndsExist, RoleExists, PoliciesFade, PolicyExists

LEMMA UpdateRoleEnds ==
    ASSUME IAMTypeOK, EndsExist, NEW r \in RoleName, NEW t \in TrustDoc, UpdateRole(r, t)
    PROVE  EndsExist' /\ PoliciesFade
<1>1. /\ UNCHANGED <<policies, attached>>
      /\ \A x \in RoleName : RoleExists(x) => RoleExists(x)'
  BY UpdateRoleFrame DEF RoleExists
<1> QED BY <1>1 DEF EndsExist, PoliciesFade, PolicyExists

LEMMA AttachEnds ==
    ASSUME EndsExist, NEW p, NEW r, CanAttach(p, r), AttachRolePolicy(p, r)
    PROVE  EndsExist' /\ PoliciesFade
<1>1. /\ UNCHANGED <<roles, policies>>
      /\ \A x, y : <<x, y>> \in attached' => <<x, y>> \in attached \/ (x = r /\ y = p)
  BY DEF AttachRolePolicy
<1>2. RoleExists(r) /\ policies[p] # None BY DEF CanAttach, PolicyExists, InPath
<1> QED BY <1>1, <1>2 DEF EndsExist, RoleExists, PolicyExists, PoliciesFade

(* What others do.                                                         *)
LEMMA OthersEnds ==
    ASSUME IAMTypeOK, EndsExist, OutOfBand \/ Foreign PROVE EndsExist' /\ PoliciesFade
<1>1. CASE OutOfBand BY <1>1, DetachEnds, DeletePolicyEnds, DeleteRoleEnds DEF OutOfBand
<1>2. CASE Foreign
  <2>1. \A r \in RoleName : RoleExists(r) => RoleExists(r)'
    BY <1>2, ForeignFrame DEF RoleExists
  <2>2. EndsExist' BY <1>2, <2>1, ForeignFrame DEF EndsExist
  <2>3. PoliciesFade BY <1>2, ForeignFrame DEF PoliciesFade, PolicyExists
  <2> QED BY <2>2, <2>3
<1> QED BY <1>1, <1>2

(* The destruction of what a deleted object names.                         *)
LEMMA DestroyEnds ==
    ASSUME IAMTypeOK, EndsExist, Destroy PROVE EndsExist' /\ PoliciesFade
<1>1. CASE UNCHANGED iamVars BY <1>1, SameEnds
<1>2. CASE DestroyDetach BY <1>1, <1>2, DetachEnds DEF DestroyDetach
<1>3. CASE DestroyPolicies
  <2>1. ASSUME NEW p \in w.kill, CanDeletePolicy(p), DeletePolicy(p)
        PROVE  EndsExist' /\ PoliciesFade
    BY <2>1, DeletePolicyEnds
  <2> QED BY <1>1, <1>3, <2>1, Zenon DEF DestroyPolicies, DestroyFails
<1>4. CASE DestroyRole BY <1>1, <1>4, DeleteRoleEnds DEF DestroyRole, DestroyFails
<1> QED BY <1>1, <1>2, <1>3, <1>4 DEF Destroy, DestroyRoles, Unfinalize

----------------------------------------------------------------------------
(* What a pruning has at hand *)

LEMMA PruneOnly ==
    ASSUME EndsExist', At' \in PrunePoints \cup {"idle", "syncRoles"},
           PruneLocals(At, w, air.spec)'
    PROVE  PassInv'
<1>1. At' \notin SyncRolePoints \cup SyncPolicyPoints \cup {"updDetach", "updDelete"}
  BY DEF PrunePoints, RolePrunePoints, PolicyPoints, SyncRolePoints, SyncPolicyPoints
<1>2. ProvideLocals(At, w, air.spec)' BY <1>1 DEF ProvideLocals
<1> QED BY <1>2 DEF PassInv

(* A handler that returns an error.                                        *)
LEMMA ErrorPass == ASSUME EndsExist', At' = "idle" PROVE PassInv'
<1>1. PruneLocals(At, w, air.spec)'
  BY DEF PruneLocals, PrunePoints, RolePrunePoints, PolicyPoints
<1> QED BY <1>1, PruneOnly

(* The listing, and what it finds attached to the roles.                   *)
LEMMA StalePass ==
    ASSUME TypeInv, PassInv, List \/ StaleRefs \/ StaleDetach PROVE PassInv'
<1>0. /\ pc \in SyncPoints /\ At = pc /\ w \in Locals /\ EndsExist
      /\ PruneLocals(pc, w, air.spec)
  BY PassFacts DEF List, StaleRefs, StaleDetach, SyncPoints, PassInv
<1>1. CASE List
  <2>1. Goto("staleRefs", [w EXCEPT !.listed = PoliciesTagged(air.spec.cluster),
                                    !.dropRoles = UnwantedRoles,
                                    !.todo = DOMAIN air.spec.roles])
        /\ UNCHANGED iamVars
    BY <1>1 DEF List
  <2> DEFINE x == [w EXCEPT !.listed = PoliciesTagged(air.spec.cluster),
                            !.dropRoles = UnwantedRoles,
                            !.todo = DOMAIN air.spec.roles]
  <2>a. x.listed = PoliciesTagged(air.spec.cluster) /\ x.dropRoles = UnwantedRoles
    BY <1>0 DEF Locals
  <2>b. Goto("staleRefs", x) BY <2>1
  <2>2. /\ At' = "staleRefs" /\ air' = air
        /\ w'.listed = PoliciesTagged(air.spec.cluster)
        /\ w'.dropRoles = UnwantedRoles
    <3> HIDE DEF x
    <3> QED BY <2>a, <2>b, EndsMove
  <2>3. EndsExist' BY <1>0, <2>1, SameEnds
  <2>4. PruneLocals(At, w, air.spec)'
    <3>1. \A p \in w'.listed : TaggedIfThere(p, air.spec.cluster)'
      BY <2>1, <2>2 DEF PoliciesTagged, TaggedIfThere, iamVars, PolicyExists
    <3>2. w'.dropRoles \cap RolesNamed(air.spec)' = {}
      BY <2>2 DEF UnwantedRoles, WantedRoles
    <3> QED BY <2>2, <3>1, <3>2 DEF PruneLocals, RolePrunePoints, PolicyPoints
  <2> QED BY <2>2, <2>3, <2>4, PruneOnly DEF PrunePoints, RolePrunePoints
<1>2. CASE StaleRefs
  <2>0. /\ pc = "staleRefs" /\ UNCHANGED iamVars /\ EndsExist'
        /\ \A p \in w.listed : TaggedIfThere(p, air.spec.cluster)
        /\ w.dropRoles \cap RolesNamed(air.spec) = {}
    BY <1>0, <1>2, SameEnds DEF StaleRefs, PruneLocals, PrunePoints, RolePrunePoints
  <2>1. CASE Goto("dropRoles", w)
    <3>1. At' = "dropRoles" /\ w' = w /\ air' = air BY <2>1, EndsMove
    <3>2. PruneLocals(At, w, air.spec)'
      BY <2>0, <3>1 DEF PruneLocals, RolePrunePoints, PolicyPoints, TaggedIfThere, iamVars,
                        PolicyExists
    <3> QED BY <2>0, <3>1, <3>2, PruneOnly DEF PrunePoints, RolePrunePoints
  <2>2. CASE Return(TRUE) BY <2>0, <2>2, EndsMove, ErrorPass
  <2>3. ASSUME NEW e \in w.todo,
               Goto("staleDetach", [w EXCEPT !.todo = @ \ {e}, !.role = air.spec.roles[e].name,
                                             !.pend = Stale(e)])
        PROVE  PassInv'
    <3> DEFINE x == [w EXCEPT !.todo = @ \ {e}, !.role = air.spec.roles[e].name,
                              !.pend = Stale(e)]
    <3>a. /\ x.listed = w.listed /\ x.dropRoles = w.dropRoles
          /\ x.role = air.spec.roles[e].name /\ x.pend = Stale(e)
      BY <1>0 DEF Locals
    <3>b. Goto("staleDetach", x) BY <2>3
    <3>1. /\ At' = "staleDetach" /\ air' = air
          /\ w'.listed = w.listed /\ w'.dropRoles = w.dropRoles
          /\ w'.role = air.spec.roles[e].name
          /\ w'.pend = Stale(e)
      <4> HIDE DEF x
      <4> QED BY <3>a, <3>b, EndsMove
    <3>2. e \in DOMAIN air.spec.roles
      BY <1>0, <2>0, <2>3, PassFacts DEF ScopeAt, TodoPoints
    <3>3. Stale(e) \subseteq w.listed /\ Stale(e) \cap air.spec.roles[e].policies = {}
      BY DEF Stale, ListedOf
    <3>4. \A p \in w'.listed : TaggedIfThere(p, air.spec.cluster)'
      BY <2>0, <3>1 DEF TaggedIfThere, iamVars, PolicyExists
    <3>5. /\ w'.pend \subseteq w'.listed
          /\ \E f \in DOMAIN air'.spec.roles :
               air'.spec.roles[f].name = w'.role /\ w'.pend \cap air'.spec.roles[f].policies = {}
      BY <3>1, <3>2, <3>3
    <3>6. w'.dropRoles \cap RolesNamed(air.spec)' = {} BY <2>0, <3>1
    <3>7. PruneLocals(At, w, air.spec)'
      BY <3>1, <3>4, <3>5, <3>6 DEF PruneLocals, RolePrunePoints, PolicyPoints
    <3> QED BY <2>0, <3>1, <3>7, PruneOnly DEF PrunePoints, RolePrunePoints
  <2> QED BY <1>2, <2>1, <2>2, <2>3, Zenon DEF StaleRefs
<1>3. CASE StaleDetach
  <2>0. /\ pc = "staleDetach"
        /\ \A p \in w.listed : TaggedIfThere(p, air.spec.cluster)
        /\ w.dropRoles \cap RolesNamed(air.spec) = {}
        /\ w.pend \subseteq w.listed
        /\ w.listed \subseteq PolicyName
    BY <1>0, <1>3 DEF StaleDetach, PruneLocals, PrunePoints, RolePrunePoints, Locals
  <2>1. CASE Goto("staleRefs", [w EXCEPT !.role = None]) /\ UNCHANGED iamVars
    <3>1. /\ At' = "staleRefs" /\ air' = air
          /\ w'.listed = w.listed /\ w'.dropRoles = w.dropRoles
      BY <1>0, <2>1, EndsMove DEF Locals
    <3>2. PruneLocals(At, w, air.spec)'
      BY <2>0, <2>1, <3>1
      DEF PruneLocals, RolePrunePoints, PolicyPoints, TaggedIfThere, iamVars, PolicyExists
    <3> QED BY <1>0, <2>1, <3>1, <3>2, SameEnds, PruneOnly DEF PrunePoints, RolePrunePoints
  <2>2. ASSUME NEW p \in w.pend, DetachRolePolicy(p, w.role),
               Report("Provisioned", Policy(p), "staleDetach", [w EXCEPT !.pend = @ \ {p}])
        PROVE  PassInv'
    <3>1. /\ At' = "staleDetach" /\ air' = air
          /\ w'.listed = w.listed /\ w'.dropRoles = w.dropRoles
          /\ w'.role = w.role /\ w'.pend \subseteq w.pend
      BY <1>0, <2>2, EndsMove DEF Locals
    <3>2. EndsExist' /\ PoliciesFade BY <1>0, <2>2, DetachEnds
    <3>3. \A q \in w.listed : TaggedIfThere(q, air.spec.cluster)'
      BY <2>0, <3>1, <3>2 DEF TaggedIfThere, PoliciesFade
    <3>4. \E e \in DOMAIN air.spec.roles :
            air.spec.roles[e].name = w.role /\ w.pend \cap air.spec.roles[e].policies = {}
      BY <1>0, <2>0 DEF PruneLocals
    <3>5. PruneLocals(At, w, air.spec)'
      BY <2>0, <3>1, <3>3, <3>4
      DEF PruneLocals, RolePrunePoints, PolicyPoints, TaggedIfThere
    <3> QED BY <3>1, <3>2, <3>5, PruneOnly DEF PrunePoints, RolePrunePoints
  <2> QED BY <1>3, <2>1, <2>2, Zenon DEF StaleDetach
<1> QED BY <1>1, <1>2, <1>3

(* The deletion of roles.                                                  *)
LEMMA DropPass ==
    ASSUME TypeInv, PassInv, DropRoles \/ DropDetach PROVE PassInv'
<1>0. /\ pc \in SyncPoints /\ At = pc /\ w \in Locals /\ EndsExist /\ IAMTypeOK
      /\ PruneLocals(pc, w, air.spec)
  BY PassFacts DEF DropRoles, DropDetach, SyncPoints, PassInv
<1>1. /\ w.listed \subseteq PolicyName
      /\ \A p \in w.listed : TaggedIfThere(p, air.spec.cluster)
      /\ w.dropRoles \cap RolesNamed(air.spec) = {}
  BY <1>0 DEF PruneLocals, DropRoles, DropDetach, PrunePoints, RolePrunePoints, Locals
<1>2. ASSUME At' \in {"dropRoles", "dropDetach"}, air' = air, EndsExist', PoliciesFade,
             w'.listed = w.listed, w'.dropRoles \subseteq w.dropRoles,
             At' = "dropDetach" => w'.role \notin RolesNamed(air.spec)
      PROVE  PassInv'
  <2>1. \A p \in w'.listed : TaggedIfThere(p, air.spec.cluster)'
    BY <1>1, <1>2 DEF TaggedIfThere, PoliciesFade
  <2>2. w'.dropRoles \cap RolesNamed(air.spec)' = {} BY <1>1, <1>2
  <2>3. PruneLocals(At, w, air.spec)'
    BY <1>2, <2>1, <2>2 DEF PruneLocals, RolePrunePoints, PolicyPoints
  <2> QED BY <1>2, <2>3, PruneOnly DEF PrunePoints, RolePrunePoints
<1>3. CASE DropRoles
  <2>0. UNCHANGED iamVars /\ EndsExist' /\ PoliciesFade BY <1>0, <1>3, SameEnds DEF DropRoles
  <2>1. CASE Goto("dropPolicies", [w EXCEPT !.listed = UnwantedPolicies])
    <3>1. At' = "dropPolicies" /\ air' = air /\ w'.listed = w.listed \ WantedPolicies
      BY <1>0, <2>1, EndsMove DEF Locals, UnwantedPolicies
    <3>2. \A p \in w'.listed : TaggedIfThere(p, air.spec.cluster)'
      BY <1>1, <2>0, <3>1 DEF TaggedIfThere, PoliciesFade
    <3>3. w'.listed \cap PoliciesNamed(air.spec)' = {} BY <3>1 DEF WantedPolicies
    <3>4. PruneLocals(At, w, air.spec)'
      BY <3>1, <3>2, <3>3 DEF PruneLocals, RolePrunePoints, PolicyPoints
    <3> QED BY <2>0, <3>1, <3>4, PruneOnly DEF PrunePoints
  <2>2. ASSUME NEW r \in w.dropRoles, Goto("dropRoles", [w EXCEPT !.dropRoles = @ \ {r}])
        PROVE  PassInv'
    <3>1. /\ At' = "dropRoles" /\ air' = air
          /\ w'.listed = w.listed /\ w'.dropRoles \subseteq w.dropRoles
      BY <1>0, <2>2, EndsMove DEF Locals
    <3> QED BY <1>2, <2>0, <3>1
  <2>3. ASSUME NEW r \in w.dropRoles,
               Goto("dropDetach", [[w EXCEPT !.dropRoles = @ \ {r}]
                                     EXCEPT !.role = r, !.pend = PoliciesOf(r)])
        PROVE  PassInv'
    <3> DEFINE x == [[w EXCEPT !.dropRoles = @ \ {r}] EXCEPT !.role = r, !.pend = PoliciesOf(r)]
    <3>1. x.listed = w.listed /\ x.dropRoles \subseteq w.dropRoles /\ x.role = r
      BY <1>0 DEF Locals
    <3>2. Goto("dropDetach", x) BY <2>3
    <3> HIDE DEF x
    <3>3. At' = "dropDetach" /\ air' = air /\ w' = x BY <3>2, EndsMove
    <3>4. r \notin RolesNamed(air.spec) BY <1>1
    <3> QED BY <1>2, <2>0, <3>1, <3>3, <3>4
  <2> QED BY <1>3, <2>1, <2>2, <2>3, Zenon DEF DropRoles
<1>4. CASE DropDetach
  <2>0. w.role \notin RolesNamed(air.spec) BY <1>0, <1>4 DEF DropDetach, PruneLocals
  <2>1. ASSUME NEW p \in w.pend, DetachRolePolicy(p, w.role),
               Report("Provisioned", Policy(p), "dropDetach", [w EXCEPT !.pend = @ \ {p}])
        PROVE  PassInv'
    <3>1. /\ At' = "dropDetach" /\ air' = air
          /\ w'.listed = w.listed /\ w'.dropRoles = w.dropRoles /\ w'.role = w.role
      BY <1>0, <2>1, EndsMove DEF Locals
    <3>2. EndsExist' /\ PoliciesFade BY <1>0, <2>1, DetachEnds
    <3> QED BY <1>2, <2>0, <3>1, <3>2
  <2>2. CASE ReturnError BY <1>0, <2>2, EndsMove, SameEnds, ErrorPass
  <2>3. CASE /\ CanDeleteRole(w.role)
             /\ DeleteRole(w.role)
             /\ Report("Provisioned", Role(w.role), "dropRoles", [w EXCEPT !.role = None])
    <3>1. /\ At' = "dropRoles" /\ air' = air
          /\ w'.listed = w.listed /\ w'.dropRoles = w.dropRoles
      BY <1>0, <2>3, EndsMove DEF Locals
    <3>2. EndsExist' /\ PoliciesFade BY <1>0, <2>3, DeleteRoleEnds
    <3> QED BY <1>2, <3>1, <3>2
  <2> QED BY <1>4, <2>1, <2>2, <2>3, Zenon DEF DropDetach
<1> QED BY <1>3, <1>4

(* The deletion of policies.                                               *)
LEMMA DropPolicyPass ==
    ASSUME TypeInv, PassInv, DropPolicies \/ DropPolicy \/ DropEntities \/ DropEntityPolicy
    PROVE  PassInv'
<1>0. /\ pc \in SyncPoints /\ At = pc /\ w \in Locals /\ EndsExist /\ IAMTypeOK
      /\ PruneLocals(pc, w, air.spec)
      /\ ScopeAt(pc, w, air)
  BY PassFacts
  DEF DropPolicies, DropPolicy, DropEntities, DropEntityPolicy, SyncPoints, PassInv
<1>1. /\ w.listed \subseteq PolicyName
      /\ \A p \in w.listed : TaggedIfThere(p, air.spec.cluster)
      /\ w.listed \cap PoliciesNamed(air.spec) = {}
  BY <1>0 DEF PruneLocals, DropPolicies, DropPolicy, DropEntities, DropEntityPolicy,
              PrunePoints, PolicyPoints, Locals
<1>2. pc \in PolicyPoints => /\ w.pol \in PolicyName
                             /\ w.pol \notin PoliciesNamed(air.spec)
                             /\ TaggedIfThere(w.pol, air.spec.cluster)
  BY <1>0 DEF PruneLocals, ScopeAt
<1>3. ASSUME At' \in PolicyPoints \cup {"dropPolicies"}, air' = air, EndsExist', PoliciesFade,
             w'.listed \subseteq w.listed,
             At' \in PolicyPoints => w'.pol \in w.listed \/ (pc \in PolicyPoints /\ w'.pol = w.pol)
      PROVE  PassInv'
  <2>1. \A p \in w'.listed : TaggedIfThere(p, air.spec.cluster)'
    BY <1>1, <1>3 DEF TaggedIfThere, PoliciesFade
  <2>2. w'.listed \cap PoliciesNamed(air.spec)' = {} BY <1>1, <1>3
  <2>3. At' \in PolicyPoints => /\ w'.pol \in PolicyName
                                /\ w'.pol \notin PoliciesNamed(air.spec)
                                /\ TaggedIfThere(w'.pol, air.spec.cluster)
    BY <1>1, <1>2, <1>3
  <2>4. At' \in PolicyPoints => /\ w'.pol \notin PoliciesNamed(air.spec)'
                                /\ TaggedIfThere(w.pol, air.spec.cluster)'
    BY <1>3, <2>3 DEF TaggedIfThere, PoliciesFade
  <2>5. PruneLocals(At, w, air.spec)'
    BY <1>3, <2>1, <2>2, <2>4 DEF PruneLocals, RolePrunePoints, PolicyPoints
  <2> QED BY <1>3, <2>5, PruneOnly DEF PrunePoints
<1>4. CASE DropPolicies
  <2>0. EndsExist' /\ PoliciesFade BY <1>0, <1>4, SameEnds DEF DropPolicies
  <2>1. CASE Goto("syncRoles", [w EXCEPT !.todo = DOMAIN air.spec.roles])
    <3>1. At' = "syncRoles" BY <2>1, EndsMove
    <3>2. PruneLocals(At, w, air.spec)'
      BY <3>1 DEF PruneLocals, PrunePoints, RolePrunePoints, PolicyPoints
    <3> QED BY <2>0, <3>1, <3>2, PruneOnly
  <2>2. ASSUME NEW p \in w.listed, Goto("dropPolicies", [w EXCEPT !.listed = @ \ {p}])
        PROVE  PassInv'
    <3>1. At' = "dropPolicies" /\ air' = air /\ w'.listed \subseteq w.listed
      BY <1>0, <2>2, EndsMove DEF Locals
    <3> QED BY <1>3, <2>0, <3>1 DEF PolicyPoints
  <2>3. ASSUME NEW p \in w.listed, NEW l \in {"dropPolicy", "dropEntities"},
               Goto(l, [[w EXCEPT !.listed = @ \ {p}] EXCEPT !.pol = p, !.ents = EntitiesOf(p)])
        PROVE  PassInv'
    <3> DEFINE x == [[w EXCEPT !.listed = @ \ {p}] EXCEPT !.pol = p, !.ents = EntitiesOf(p)]
    <3>1. x.listed \subseteq w.listed /\ x.pol = p BY <1>0 DEF Locals
    <3>2. Goto(l, x) BY <2>3
    <3> HIDE DEF x
    <3>3. At' = l /\ air' = air /\ w' = x BY <3>2, EndsMove
    <3> QED BY <1>3, <2>0, <3>1, <3>3 DEF PolicyPoints
  <2>4. \/ Goto("syncRoles", [w EXCEPT !.todo = DOMAIN air.spec.roles])
        \/ \E p \in w.listed :
             LET rest == [w EXCEPT !.listed = @ \ {p}]
                 at   == [rest EXCEPT !.pol = p, !.ents = EntitiesOf(p)]
             IN \/ Goto("dropPolicies", rest)
                \/ \E l \in {"dropPolicy", "dropEntities"} : Goto(l, at)
    BY <1>4, Zenon DEF DropPolicies
  <2> QED BY <2>1, <2>2, <2>3, <2>4, Zenon
<1>5. ASSUME pc \in PolicyPoints, NEW l \in {"dropPolicies", "dropEntities"}, DropPolicyThen(l)
      PROVE  PassInv'
  <2>1. CASE ReturnError BY <1>0, <2>1, EndsMove, SameEnds, ErrorPass
  <2>2. CASE /\ CanDeletePolicy(w.pol)
             /\ DeletePolicy(w.pol)
             /\ Report("Provisioned", Policy(w.pol), l,
                       IF l = "dropPolicies" THEN [w EXCEPT !.pol = None] ELSE w)
    <3>1. EndsExist' /\ PoliciesFade BY <1>0, <2>2, DeletePolicyEnds
    <3>2. At' = l /\ air' = air
          /\ w' = IF l = "dropPolicies" THEN [w EXCEPT !.pol = None] ELSE w
      BY <2>2, EndsMove
    <3>3. w'.listed = w.listed /\ (l = "dropEntities" => w' = w) BY <1>0, <3>2 DEF Locals
    <3> QED BY <1>3, <1>5, <3>1, <3>2, <3>3 DEF PolicyPoints
  <2> QED BY <1>5, <2>1, <2>2, Zenon DEF DropPolicyThen
<1>6. CASE DropPolicy BY <1>5, <1>6 DEF DropPolicy, PolicyPoints
<1>7. CASE DropEntityPolicy BY <1>5, <1>7 DEF DropEntityPolicy, PolicyPoints
<1>8. CASE DropEntities
  <2>1. CASE Goto("dropPolicies", [w EXCEPT !.pol = None]) /\ UNCHANGED iamVars
    <3>1. At' = "dropPolicies" /\ air' = air /\ w'.listed = w.listed
      BY <1>0, <2>1, EndsMove DEF Locals
    <3> QED BY <1>0, <1>3, <2>1, <3>1, SameEnds DEF PolicyPoints
  <2>2. ASSUME NEW e \in w.ents, DetachRolePolicy(w.pol, e),
               Goto("dropEntityPolicy", [w EXCEPT !.ents = @ \ {e}])
        PROVE  PassInv'
    <3>1. /\ At' = "dropEntityPolicy" /\ air' = air
          /\ w'.listed = w.listed /\ w'.pol = w.pol
      BY <1>0, <2>2, EndsMove DEF Locals
    <3>2. EndsExist' /\ PoliciesFade BY <1>0, <2>2, DetachEnds
    <3> QED BY <1>3, <1>8, <3>1, <3>2 DEF PolicyPoints, DropEntities
  <2> QED BY <1>8, <2>1, <2>2, Zenon DEF DropEntities
<1> QED BY <1>4, <1>6, <1>7, <1>8

----------------------------------------------------------------------------
(* What syncRole and syncPoliciesByRoleSpec have at hand *)

LEMMA ProvideOnly ==
    ASSUME EndsExist', At' \notin PrunePoints, ProvideLocals(At, w, air.spec)' PROVE PassInv'
<1>1. PruneLocals(At, w, air.spec)'
  BY DEF PruneLocals, PrunePoints, RolePrunePoints, PolicyPoints
<1> QED BY <1>1 DEF PassInv

(* From one handler to the next within an entry of spec.roles.             *)
LEMMA ProvideGoesOn ==
    ASSUME EndsExist', air' = air, pc \in SyncRolePoints, ProvideLocals(pc, w, air.spec),
           At' \in SyncRolePoints \ {"updDetach"},
           w'.entry = w.entry, w'.role = w.role, w'.refs \subseteq w.refs,
           At' \in SyncPolicyPoints =>
             pc \in SyncPolicyPoints /\ w'.item = w.item /\ w'.pol = w.pol,
           At' = "updDelete" => pc = "updDetach" /\ UNCHANGED policies
    PROVE  PassInv'
<1>1. w.role = air.spec.roles[w.entry].name /\ w.refs \subseteq Wanted(air.spec, w.entry)
  BY DEF ProvideLocals
<1>2. w'.refs \subseteq Wanted(air.spec, w'.entry) BY <1>1
<1>3. At' \in SyncPolicyPoints => /\ w'.item \in Wanted(air.spec, w'.entry)
                                  /\ w'.pol = air.spec.policies[w'.item].name
  BY DEF ProvideLocals
<1>4. (At' = "updDelete" /\ PolicyExists(w.pol)')
        => policies'[w'.pol].doc # air.spec.policies[w'.item].doc
  <2>1. At' = "updDelete" => At' \in SyncPolicyPoints BY DEF SyncPolicyPoints
  <2> QED BY <2>1 DEF ProvideLocals, PolicyExists
<1>5. ProvideLocals(At, w, air.spec)' BY <1>1, <1>2, <1>3, <1>4 DEF ProvideLocals, Wanted
<1>6. At' \notin PrunePoints
  BY DEF PrunePoints, RolePrunePoints, PolicyPoints, SyncRolePoints, SyncPolicyPoints
<1> QED BY <1>5, <1>6, ProvideOnly

(* The start of an entry of spec.roles, and the end of them.               *)
LEMMA SyncRolePass ==
    ASSUME TypeInv, PassInv, (\E e \in RoleKey : SyncRole(e)) \/ SyncRolesDone PROVE PassInv'
<1>0. pc \in SyncPoints /\ w \in Locals /\ EndsExist'
  BY PassFacts, SameEnds DEF SyncRole, SyncRolesDone, SyncPoints, PassInv
<1>1. ASSUME At' \in {"final", "requeue"} PROVE PassInv'
  <2>1. At' \notin PrunePoints
    BY <1>1 DEF PrunePoints, RolePrunePoints, PolicyPoints
  <2>2. ProvideLocals(At, w, air.spec)'
    BY <1>1 DEF ProvideLocals, SyncRolePoints, SyncPolicyPoints
  <2> QED BY <1>0, <2>1, <2>2, ProvideOnly
<1>2. CASE SyncRolesDone BY <1>1, <1>2, EndsMove DEF SyncRolesDone
<1>3. ASSUME NEW e \in RoleKey, SyncRole(e) PROVE PassInv'
  <2> DEFINE x == [w EXCEPT !.todo = @ \ {e}, !.entry = e, !.role = air.spec.roles[e].name,
                            !.refs = RefsOf(e), !.again = TRUE]
  <2>1. x.entry = e /\ x.role = air.spec.roles[e].name /\ x.refs = RefsOf(e)
    BY <1>0 DEF Locals
  <2>2. RefsOf(e) = Wanted(air.spec, e) BY DEF RefsOf, Wanted
  <2>3. \/ Report("Failed", NoResult, "requeue", w)
        \/ \E l \in {"createRole", "policies", "updateRole"} : Goto(l, x)
    BY <1>3 DEF SyncRole
  <2> HIDE DEF x
  <2>4. CASE Report("Failed", NoResult, "requeue", w) BY <1>1, <2>4, EndsMove
  <2>5. ASSUME NEW l \in {"createRole", "policies", "updateRole"}, Goto(l, x) PROVE PassInv'
    <3>1. At' = l /\ w' = x /\ air' = air BY <2>5, EndsMove
    <3>2. ProvideLocals(At, w, air.spec)'
      <4>1. w'.role = air'.spec.roles[w'.entry].name /\ w'.refs \subseteq Wanted(air.spec, w.entry)'
        BY <2>1, <2>2, <3>1
      <4> QED BY <3>1, <4>1 DEF ProvideLocals, SyncPolicyPoints
    <3>3. At' \notin PrunePoints BY <3>1 DEF PrunePoints, RolePrunePoints, PolicyPoints
    <3> QED BY <1>0, <3>2, <3>3, ProvideOnly
  <2> QED BY <2>3, <2>4, <2>5
<1> QED BY <1>2, <1>3

(* The role of an entry.                                                   *)
LEMMA RolePass ==
    ASSUME TypeInv, PassInv,
           \/ CreateMissingRole \/ UpdateRoleTrust
           \/ pc = "createRole" /\ ReplyLost
    PROVE  PassInv'
<1>0. /\ pc \in SyncPoints /\ pc \in SyncRolePoints /\ At = pc
      /\ w \in Locals /\ EndsExist /\ IAMTypeOK
      /\ air.spec \in Spec_ /\ w.arn \in ARN
      /\ ScopeAt(pc, w, air) /\ ProvideLocals(pc, w, air.spec)
  BY PassFacts
  DEF CreateMissingRole, UpdateRoleTrust, SyncPoints, SyncRolePoints, PassInv
<1>1. w.role \in RoleName /\ w.entry \in DOMAIN air.spec.roles BY <1>0 DEF ScopeAt
<1>2. Trust(w.entry) \in TrustDoc BY <1>0, <1>1, SpecFields DEF Trust, TrustDoc
<1>3. /\ \/ CreateRole(w.role, Trust(w.entry), air.spec.cluster)
         \/ UpdateRole(w.role, Trust(w.entry))
      /\ \E res : Report("Provisioned", res, "policies", w)
  BY DEF CreateMissingRole, UpdateRoleTrust, ReplyLost
<1>4. EndsExist' BY <1>0, <1>1, <1>2, <1>3, CreateRoleEnds, UpdateRoleEnds
<1>5. At' = "policies" /\ w' = w /\ air' = air BY <1>3, EndsMove
<1> QED BY <1>0, <1>4, <1>5, ProvideGoesOn DEF SyncRolePoints, SyncPolicyPoints

(* The choice of the next policy, and the second round.                    *)
LEMMA SyncPoliciesPass == ASSUME TypeInv, PassInv, SyncPolicies PROVE PassInv'
<1>0. /\ pc = "policies" /\ pc \in SyncPoints /\ pc \in SyncRolePoints
      /\ w \in Locals /\ EndsExist' /\ UNCHANGED iamVars
      /\ ProvideLocals(pc, w, air.spec)
  BY PassFacts, SameEnds DEF SyncPolicies, SyncPoints, SyncRolePoints, PassInv
<1>1. w.role = air.spec.roles[w.entry].name /\ w.refs \subseteq Wanted(air.spec, w.entry)
  BY <1>0 DEF ProvideLocals
<1>2. CASE Goto("policies", [w EXCEPT !.refs = RefsOf(w.entry), !.again = FALSE])
  <2> DEFINE x == [w EXCEPT !.refs = RefsOf(w.entry), !.again = FALSE]
  <2>0. x.entry = w.entry /\ x.role = w.role /\ x.refs = RefsOf(w.entry) /\ Goto("policies", x)
    BY <1>0, <1>2 DEF Locals
  <2> HIDE DEF x
  <2>1. /\ At' = "policies" /\ air' = air
        /\ w'.entry = w.entry /\ w'.role = w.role /\ w'.refs = RefsOf(w.entry)
    BY <2>0, EndsMove
  <2>2. RefsOf(w.entry) = Wanted(air.spec, w.entry) BY DEF RefsOf, Wanted
  <2>3. w'.refs \subseteq Wanted(air.spec, w.entry)' BY <2>1, <2>2
  <2>4. ProvideLocals(At, w, air.spec)' BY <1>1, <2>1, <2>3 DEF ProvideLocals, SyncPolicyPoints
  <2>5. At' \notin PrunePoints BY <2>1 DEF PrunePoints, RolePrunePoints, PolicyPoints
  <2> QED BY <1>0, <2>4, <2>5, ProvideOnly
<1>3. CASE Goto("syncRoles", [w EXCEPT !.entry = None, !.role = None])
  <2>1. At' = "syncRoles" BY <1>3, EndsMove
  <2>2. ProvideLocals(At, w, air.spec)'
    BY <2>1 DEF ProvideLocals, SyncRolePoints, SyncPolicyPoints
  <2>3. At' \notin PrunePoints BY <2>1 DEF PrunePoints, RolePrunePoints, PolicyPoints
  <2> QED BY <1>0, <2>2, <2>3, ProvideOnly
<1>4. ASSUME NEW i \in w.refs, NEW l \in {"createPolicy", "updDetach", "checkAttached"},
             l = "updDetach" => Outdated(i),
             Goto(l, [w EXCEPT !.refs = @ \ {i}, !.item = i, !.pol = air.spec.policies[i].name])
      PROVE  PassInv'
  <2> DEFINE x == [w EXCEPT !.refs = @ \ {i}, !.item = i, !.pol = air.spec.policies[i].name]
  <2>1. /\ x.entry = w.entry /\ x.role = w.role /\ x.refs \subseteq w.refs
        /\ x.item = i /\ x.pol = air.spec.policies[i].name
    BY <1>0 DEF Locals
  <2>2. Goto(l, x) BY <1>4
  <2> HIDE DEF x
  <2>3. At' = l /\ w' = x /\ air' = air BY <2>2, EndsMove
  <2>4. /\ w'.role = air'.spec.roles[w'.entry].name
        /\ w'.refs \subseteq Wanted(air.spec, w.entry)'
        /\ w'.item \in Wanted(air.spec, w.entry)'
        /\ w'.pol = air'.spec.policies[w'.item].name
    BY <1>1, <2>1, <2>3
  <2>5. At' \in {"updDetach", "updDelete"} =>
          policies'[w'.pol].doc # air'.spec.policies[w'.item].doc
    BY <1>0, <1>4, <2>1, <2>3 DEF Outdated, iamVars
  <2>6. ProvideLocals(At, w, air.spec)' BY <2>4, <2>5 DEF ProvideLocals
  <2>7. At' \notin PrunePoints BY <2>3 DEF PrunePoints, RolePrunePoints, PolicyPoints
  <2> QED BY <1>0, <2>6, <2>7, ProvideOnly
<1>5. \/ Goto("policies", [w EXCEPT !.refs = RefsOf(w.entry), !.again = FALSE])
      \/ Goto("syncRoles", [w EXCEPT !.entry = None, !.role = None])
      \/ \E i \in w.refs : \E l \in {"createPolicy", "updDetach", "checkAttached"} :
           /\ l = "updDetach" => Outdated(i)
           /\ Goto(l, [w EXCEPT !.refs = @ \ {i}, !.item = i, !.pol = air.spec.policies[i].name])
  BY DEF SyncPolicies
<1> QED BY <1>2, <1>3, <1>4, <1>5

(* One policy of an entry.                                                 *)
LEMMA PolicyPass ==
    ASSUME TypeInv, PassInv,
           \/ CreateMissingPolicy \/ AttachNew \/ UpdDetach \/ UpdDelete
           \/ UpdCreate \/ UpdAttach \/ CheckAttached \/ Attach
           \/ pc = "createPolicy" /\ ReplyLost
    PROVE  PassInv'
<1>0. pc \in SyncPolicyPoints
  BY DEF SyncPolicyPoints, CreateMissingPolicy, AttachNew, UpdDetach, UpdDelete, UpdCreate,
         UpdAttach, CheckAttached, Attach
<1>1. pc \in SyncPoints /\ pc \in SyncRolePoints
  BY <1>0 DEF SyncPoints, SyncRolePoints, SyncPolicyPoints
<1>2. /\ At = pc /\ w \in Locals /\ EndsExist /\ IAMTypeOK
      /\ ProvideLocals(pc, w, air.spec) /\ w.pol \in PolicyName
  BY <1>0, <1>1, PassFacts DEF PassInv, ScopeAt
<1>3. ASSUME EndsExist', air' = air, At' \in SyncRolePoints \ {"updDetach"},
             w'.entry = w.entry, w'.role = w.role, w'.refs = w.refs,
             At' # "policies" => w'.item = w.item /\ w'.pol = w.pol,
             At' = "updDelete" => pc = "updDetach" /\ UNCHANGED policies
      PROVE  PassInv'
  <2>1. At' \in SyncPolicyPoints => At' # "policies" BY DEF SyncPolicyPoints
  <2> QED BY <1>0, <1>1, <1>2, <1>3, <2>1, ProvideGoesOn
<1>a. ASSUME EndsExist', air' = air, w' = w, NEW l \in SyncRolePoints \ {"updDetach", "updDelete"},
             At' = l
      PROVE  PassInv'
  BY <1>3, <1>a
<1>b. /\ NextItem.entry = w.entry /\ NextItem.role = w.role /\ NextItem.refs = w.refs
      /\ NextItem \in Locals
  BY <1>2 DEF NextItem, Locals
<1>4. UNCHANGED iamVars => EndsExist' BY <1>2, SameEnds
<1>5. CreateFromSpec => EndsExist' BY <1>2, CreatePolicyEnds DEF CreateFromSpec
<1>6. ReturnError => PassInv' BY <1>4, EndsMove, ErrorPass
<1>c. {"policies", "attachNew", "updCreate", "updAttach", "checkAttached", "attach"}
        \subseteq SyncRolePoints \ {"updDetach", "updDelete"}
  BY DEF SyncRolePoints, SyncPolicyPoints
<1>d. "updDelete" \in SyncRolePoints \ {"updDetach"} BY DEF SyncRolePoints, SyncPolicyPoints
<1>7. ASSUME NEW res, NEW l \in {"policies", "checkAttached"}, NEW x,
             x.entry = w.entry, x.role = w.role, x.refs = w.refs,
             l # "policies" => x = w,
             AttachThen(res, l, x)
      PROVE  PassInv'
  <2>1. CASE /\ CanAttach(w.pol, w.role)
             /\ AttachRolePolicy(w.pol, w.role)
             /\ Report("Provisioned", res, l, x)
    <3>1. EndsExist' BY <1>2, <2>1, AttachEnds
    <3>2. At' = l /\ w' = x /\ air' = air BY <2>1, EndsMove
    <3>3. At' \in SyncRolePoints \ {"updDetach"} /\ At' # "updDelete" BY <1>7, <1>c, <3>2
    <3> QED BY <1>3, <1>7, <3>1, <3>2, <3>3
  <2> QED BY <1>6, <1>7, <2>1, Zenon DEF AttachThen
<1>8. CASE CreateMissingPolicy
  <2>1. At' = "attachNew" /\ air' = air /\ w' = [w EXCEPT !.made = (policies[w.pol] = None)]
    BY <1>8, EndsMove DEF CreateMissingPolicy
  <2>2. /\ w'.entry = w.entry /\ w'.role = w.role /\ w'.refs = w.refs
        /\ w'.item = w.item /\ w'.pol = w.pol
    BY <1>2, <2>1 DEF Locals
  <2>3. EndsExist' BY <1>5, <1>8 DEF CreateMissingPolicy
  <2> QED BY <1>3, <1>c, <2>1, <2>2, <2>3
<1>9. CASE pc = "createPolicy" /\ ReplyLost
  <2>1. CreateFromSpec /\ Goto("attachNew", w) BY <1>9 DEF ReplyLost
  <2>2. At' = "attachNew" /\ w' = w /\ air' = air BY <2>1, EndsMove
  <2>3. EndsExist' BY <1>5, <2>1
  <2> QED BY <1>a, <1>c, <2>2, <2>3
<1>10. CASE AttachNew
  <2> DEFINE x == [NextItem EXCEPT !.made = FALSE]
  <2>1. x.entry = w.entry /\ x.role = w.role /\ x.refs = w.refs BY <1>b DEF Locals
  <2>2. \E res : AttachThen(res, "policies", x) BY <1>10 DEF AttachNew
  <2> HIDE DEF x
  <2> QED BY <1>7, <2>1, <2>2
<1>11. CASE UpdAttach BY <1>7, <1>11 DEF UpdAttach
<1>12. CASE Attach
  <2>1. AttachThen(Policy(w.pol), "policies", NextItem) BY <1>12 DEF Attach
  <2> QED BY <1>7, <1>b, <2>1
<1>13. CASE UpdDetach
  <2>1. EndsExist' /\ UNCHANGED policies BY <1>2, <1>13, DetachEnds DEF UpdDetach, DetachRolePolicy
  <2>2. At' = "updDelete" /\ w' = w /\ air' = air BY <1>13, EndsMove DEF UpdDetach
  <2> QED BY <1>3, <1>13, <1>d, <2>1, <2>2 DEF UpdDetach
<1>14. CASE UpdDelete
  <2>1. CASE CanDeletePolicy(w.pol) /\ DeletePolicy(w.pol) /\ Goto("updCreate", w)
    <3>1. EndsExist' BY <1>2, <2>1, DeletePolicyEnds
    <3>2. At' = "updCreate" /\ w' = w /\ air' = air BY <2>1, EndsMove
    <3> QED BY <1>a, <1>c, <3>1, <3>2
  <2> QED BY <1>6, <1>14, <2>1, Zenon DEF UpdDelete
<1>15. CASE UpdCreate
  <2>1. At' = "updAttach" /\ w' = w /\ air' = air BY <1>15, EndsMove DEF UpdCreate
  <2>2. EndsExist' BY <1>5, <1>15 DEF UpdCreate
  <2> QED BY <1>a, <1>c, <2>1, <2>2
<1>16. CASE CheckAttached
  <2>0. EndsExist' BY <1>4, <1>16 DEF CheckAttached
  <2>1. CASE Return(TRUE) BY <2>0, <2>1, EndsMove, ErrorPass
  <2>2. CASE Goto("policies", NextItem)
    <3>1. At' = "policies" /\ w' = NextItem /\ air' = air BY <2>2, EndsMove
    <3> QED BY <1>3, <1>b, <1>c, <2>0, <3>1
  <2>3. CASE Goto("attach", w)
    <3>1. At' = "attach" /\ w' = w /\ air' = air BY <2>3, EndsMove
    <3> QED BY <1>a, <1>c, <2>0, <3>1
  <2>4. Return(TRUE) \/ Goto("policies", NextItem) \/ Goto("attach", w)
    BY <1>16, Zenon DEF CheckAttached
  <2> QED BY <2>1, <2>2, <2>3, <2>4
<1> QED BY <1>8, <1>9, <1>10, <1>11, <1>12, <1>13, <1>14, <1>15, <1>16

----------------------------------------------------------------------------
(* The invariant of a pass that no interference destroys *)

(* A step that leaves the worker where it is, and policies only go.        *)
LEMMA SamePass ==
    ASSUME PassInv, Same, EndsExist', PoliciesFade,
           At \in SyncPolicyPoints \cup PolicyPoints => w.pol \in PolicyName,
           w.listed \subseteq PolicyName
    PROVE  PassInv'
<1>1. /\ At' = At /\ w' = w /\ air'.spec = air.spec
      /\ PruneLocals(At, w, air.spec) /\ ProvideLocals(At, w, air.spec)
  BY DEF Same, PassInv
<1>2. ASSUME NEW p \in PolicyName, NEW k, TaggedIfThere(p, k) PROVE TaggedIfThere(p, k)'
  BY <1>2 DEF TaggedIfThere, PoliciesFade
<1>3. PruneLocals(At, w, air.spec)'
  <2>1. At \in PrunePoints => \A p \in w.listed : TaggedIfThere(p, air.spec.cluster)'
    BY <1>1, <1>2 DEF PruneLocals
  <2>2. At \in PolicyPoints => TaggedIfThere(w.pol, air.spec.cluster)'
    BY <1>1, <1>2 DEF PruneLocals
  <2> QED BY <1>1, <2>1, <2>2 DEF PruneLocals
<1>4. ProvideLocals(At, w, air.spec)'
  <2>1. ASSUME At \in {"updDetach", "updDelete"}, PolicyExists(w.pol)'
        PROVE  policies'[w.pol].doc # air.spec.policies[w.item].doc
    <3>1. w.pol \in PolicyName BY <2>1 DEF SyncPolicyPoints
    <3>2. PolicyExists(w.pol) /\ policies'[w.pol] = policies[w.pol]
      BY <1>1, <2>1, <3>1 DEF PoliciesFade, PolicyExists
    <3> QED BY <1>1, <2>1, <3>2 DEF ProvideLocals
  <2>2. (At' \in {"updDetach", "updDelete"} /\ PolicyExists(w.pol)')
          => policies'[w'.pol].doc # air'.spec.policies[w'.item].doc
    BY <1>1, <2>1
  <2> QED BY <1>1, <2>2 DEF ProvideLocals, Wanted
<1> QED BY <1>3, <1>4 DEF PassInv

LEMMA InitPass == Init => PassInv
<1> SUFFICES ASSUME Init PROVE PassInv OBVIOUS
<1>1. EndsExist BY DEF Init, IAMInit, EndsExist
<1>2. At = "idle" BY DEF Init, At
<1>3. PruneLocals(At, w, air.spec)
  BY <1>2 DEF PruneLocals, PrunePoints, RolePrunePoints, PolicyPoints
<1>4. ProvideLocals(At, w, air.spec) BY <1>2 DEF ProvideLocals, SyncRolePoints, SyncPolicyPoints
<1> QED BY <1>1, <1>3, <1>4 DEF PassInv

(* The point at hand says what is in the locals.                           *)
LEMMA ScopeThere ==
    ASSUME TypeInv
    PROVE  /\ pc # "idle" => ScopeAt(At, w, air)
           /\ At \in SyncPolicyPoints \cup PolicyPoints => w.pol \in PolicyName
           /\ w \in Locals /\ w.listed \subseteq PolicyName
<1>1. pc # "idle" => ScopeAt(At, w, air) BY DEF TypeInv, Scoped, At
<1>2. w \in Locals BY DEF TypeInv, WorkerTypeOK
<1>3. w.listed \subseteq PolicyName BY <1>2 DEF Locals
<1>4. At \in SyncPolicyPoints \cup PolicyPoints => pc # "idle"
  BY DEF At, SyncPolicyPoints, PolicyPoints
<1> QED BY <1>1, <1>2, <1>3, <1>4 DEF ScopeAt

(* The steps outside the handlers which touch the account.                 *)
LEMMA OtherEnds ==
    ASSUME TypeInv, EndsExist, [Next]_vars, ~Prune, ~Provide, ~ReplyLost
    PROVE  EndsExist' /\ PoliciesFade
<1>0. IAMTypeOK BY DEF TypeInv
<1>1. CASE UNCHANGED iamVars BY <1>1, SameEnds
<1>2. CASE Destroy BY <1>0, <1>2, DestroyEnds
<1>3. CASE OutOfBand \/ Foreign BY <1>0, <1>3, OthersEnds
<1>4. \/ UNCHANGED iamVars \/ Destroy \/ OutOfBand \/ Foreign
  <2>1. UNCHANGED vars => UNCHANGED iamVars BY DEF vars
  <2>2. Begin \/ UpdateCRDStatus \/ End => UNCHANGED iamVars
    BY DEF Begin, Pick, GetClusterResources, NewIAMClient, AddFinalizer, UpdateCRDStatus, End,
           Final, Finish, Requeue, ReturnError
  <2>3. CallFails \/ Crash => UNCHANGED iamVars BY DEF CallFails, Crash
  <2>4. Environment => UNCHANGED iamVars \/ OutOfBand \/ Foreign BY DEF Environment
  <2> QED BY <2>1, <2>2, <2>3, <2>4 DEF Next, Worker, Faults
<1> QED BY <1>1, <1>2, <1>3, <1>4

LEMMA NextPass == ASSUME TypeInv, PassInv, [Next]_vars PROVE PassInv'
<1>1. CASE Prune BY <1>1, StalePass, DropPass, DropPolicyPass DEF Prune
<1>2. CASE Provide BY <1>2, SyncRolePass, RolePass, SyncPoliciesPass, PolicyPass DEF Provide
<1>3. CASE ReplyLost BY <1>3, RolePass, PolicyPass DEF ReplyLost
<1>4. CASE Final
  <2>1. At' = "return" BY <1>4, EndsMove DEF Final
  <2>2. EndsExist' BY <1>4, SameEnds DEF Final, PassInv
  <2>3. At' \notin PrunePoints BY <2>1 DEF PrunePoints, RolePrunePoints, PolicyPoints
  <2>4. ProvideLocals(At, w, air.spec)'
    BY <2>1 DEF ProvideLocals, SyncRolePoints, SyncPolicyPoints
  <2> QED BY <2>2, <2>3, <2>4, ProvideOnly
<1>5. CASE ~Prune /\ ~Provide /\ ~ReplyLost /\ ~Final
  <2>1. EndsExist' /\ PoliciesFade BY <1>5, OtherEnds DEF PassInv
  <2>2. CASE Same BY <2>1, <2>2, ScopeThere, SamePass
  <2>3. CASE At' \notin BusyPoints
    <3>1. At' \notin PrunePoints /\ At' \notin SyncRolePoints BY <2>3 DEF BusyPoints
    <3>2. ProvideLocals(At, w, air.spec)' BY <3>1 DEF ProvideLocals, SyncRolePoints, SyncPolicyPoints
    <3> QED BY <2>1, <3>1, <3>2, ProvideOnly
  <2> QED BY <1>5, <2>2, <2>3, StayOrEnd
<1> QED BY <1>1, <1>2, <1>3, <1>4, <1>5

(* At every step of a synchronisation, under any faults, crashes, removals  *)
(* and creations by others: an attachment has both its ends; what pruning   *)
(* has on its lists was tagged and is not wanted; and syncRole and          *)
(* syncPoliciesByRoleSpec work on the names of the entries they range over. *)
THEOREM PassInvariance == Spec => []PassInv
<1>1. Spec => []TypeInv BY ScopeCorrect
<1> QED BY <1>1, InitPass, NextPass, PTL DEF Spec

----------------------------------------------------------------------------
(* What a synchronisation does to the account, handler by handler *)

Change ==
    \/ UNCHANGED iamVars
    \/ pc \in {"staleDetach", "dropDetach"} /\ \E p \in w.pend : DetachRolePolicy(p, w.role)
    \/ pc = "dropDetach" /\ DeleteRole(w.role)
    \/ pc = "dropEntities" /\ \E e \in w.ents : DetachRolePolicy(w.pol, e)
    \/ pc \in {"dropPolicy", "dropEntityPolicy", "updDelete"} /\ DeletePolicy(w.pol)
    \/ pc = "createRole" /\ CreateRole(w.role, Trust(w.entry), air.spec.cluster)
    \/ pc = "updateRole" /\ UpdateRole(w.role, Trust(w.entry))
    \/ pc \in {"createPolicy", "updCreate"} /\ CreateFromSpec
    \/ pc \in {"attachNew", "updAttach", "attach"} /\ AttachRolePolicy(w.pol, w.role)
    \/ pc = "updDetach" /\ DetachRolePolicy(w.pol, w.role)

LEMMA PruneChange == Prune => Change
<1>1. List \/ StaleRefs \/ DropRoles \/ DropPolicies => UNCHANGED iamVars
  BY DEF List, StaleRefs, DropRoles, DropPolicies
<1>2. StaleDetach \/ DropDetach => Change
  BY Zenon DEF StaleDetach, DropDetach, Change, ReturnError
<1>3. ASSUME NEW l, DropPolicyThen(l), pc \in {"dropPolicy", "dropEntityPolicy"} PROVE Change
  BY <1>3 DEF DropPolicyThen, Change, ReturnError
<1>4. DropEntities => Change BY Zenon DEF DropEntities, Change
<1> QED BY <1>1, <1>2, <1>3, <1>4 DEF Prune, DropPolicy, DropEntityPolicy, Change

LEMMA ProvideChange == Provide \/ ReplyLost => Change
<1>1. (\E e \in RoleKey : SyncRole(e)) \/ SyncRolesDone \/ SyncPolicies \/ CheckAttached
        => UNCHANGED iamVars
  BY DEF SyncRole, SyncRolesDone, SyncPolicies, CheckAttached
<1>2. CreateMissingRole \/ UpdateRoleTrust \/ CreateMissingPolicy \/ UpdDetach \/ UpdCreate
        => Change
  BY DEF CreateMissingRole, UpdateRoleTrust, CreateMissingPolicy, UpdDetach, UpdCreate, Change
<1>3. ASSUME NEW res, NEW l, NEW x, AttachThen(res, l, x)
      PROVE  UNCHANGED iamVars \/ AttachRolePolicy(w.pol, w.role)
  BY <1>3 DEF AttachThen, ReturnError
<1>4. AttachNew \/ UpdAttach \/ Attach => Change
  BY <1>3 DEF AttachNew, UpdAttach, Attach, Change
<1>5. UpdDelete => Change BY DEF UpdDelete, ReturnError, Change
<1>6. ReplyLost => Change BY DEF ReplyLost, Change
<1> QED BY <1>1, <1>2, <1>4, <1>5, <1>6 DEF Provide, Change

(* Between two of a synchronisation's own steps others may do anything; a   *)
(* step of its own is one of the above.                                    *)
LEMMA PassChange ==
    ASSUME [Next]_vars, pc \in SyncPoints, workerVars' # workerVars PROVE Change
<1>1. Prune \/ Provide \/ ReplyLost => Change BY PruneChange, ProvideChange
<1>2. CallFails \/ Crash => UNCHANGED iamVars BY DEF CallFails, Crash
<1>3. Environment => UNCHANGED iamVars BY DEF Environment
<1>4. Begin \/ UpdateCRDStatus \/ End => UNCHANGED iamVars
  BY DEF Begin, Pick, GetClusterResources, NewIAMClient, AddFinalizer, UpdateCRDStatus, End,
         Final, Finish, Requeue, ReturnError
<1>5. ~Destroy
  BY DEF SyncPoints, Destroy, DestroyRoles, DestroyDetach, DestroyPolicies, DestroyRole, Unfinalize
<1>6. ~UNCHANGED vars BY DEF vars
<1> QED BY <1>1, <1>2, <1>3, <1>4, <1>5, <1>6 DEF Next, Worker, Faults, Change

----------------------------------------------------------------------------
(* A synchronisation keeps what its specification wants *)

(* The names in the maps of the specification at hand are distinct.        *)
LEMMA DistinctAtHand ==
    ASSUME DistinctNames, TypeInv, ProtocolInv, pc \in SyncPoints
    PROVE  /\ \A e, f \in DOMAIN air.spec.roles :
                air.spec.roles[e].name = air.spec.roles[f].name => e = f
           /\ \A i, j \in DOMAIN air.spec.policies :
                air.spec.policies[i].name = air.spec.policies[j].name => i = j
<1>1. pc # "idle" BY DEF SyncPoints
<1>2. air # None BY PassFacts, NoneAssumption
<1>3. cur \in CR BY PassFacts
<1>4. air.spec \in SpecsOf[cur] BY <1>1, <1>2 DEF ProtocolInv, SpecsKnown, Known
<1> QED BY <1>3, <1>4 DEF DistinctNames

Keeps ==
    /\ \A r \in WantedRoles : RoleExists(r) => roles'[r] # None
    /\ \A i \in DOMAIN air.spec.policies :
         LET p == air.spec.policies[i].name IN
         PolicyExists(p) /\ ~Outdated(i) => policies'[p] # None
    /\ \A e \in DOMAIN air.spec.roles : \A i \in RefsOf(e) :
         LET r == air.spec.roles[e].name
             p == air.spec.policies[i].name
         IN p \in PoliciesOf(r) /\ ~Outdated(i) => <<r, p>> \in attached'

(* The names of a specification are names IAM knows.                       *)
LEMMA NamesKnown ==
    ASSUME air.spec \in Spec_
    PROVE  /\ WantedRoles \subseteq RoleName
           /\ \A i \in DOMAIN air.spec.policies : air.spec.policies[i].name \in PolicyName
           /\ \A e \in DOMAIN air.spec.roles : air.spec.roles[e].name \in RoleName
BY SpecFields DEF WantedRoles, RolesNamed

(* What only adds, or only changes what is not wanted or out of date.      *)
LEMMA KeepsMore ==
    ASSUME air.spec \in Spec_,
           \A r \in RoleName : RoleExists(r) => roles'[r] # None,
           \A p \in PolicyName : PolicyExists(p) => policies'[p] # None,
           attached \subseteq attached'
    PROVE  Keeps
BY NamesKnown DEF Keeps, PoliciesOf, AttachedTo

LEMMA KeepsDetach ==
    ASSUME air.spec \in Spec_, NEW p, NEW r, DetachRolePolicy(p, r),
           \A e \in DOMAIN air.spec.roles : \A i \in RefsOf(e) :
             air.spec.roles[e].name = r /\ air.spec.policies[i].name = p => Outdated(i)
    PROVE  Keeps
<1>1. /\ UNCHANGED <<roles, policies>>
      /\ \A x, y : <<x, y>> \in attached => <<x, y>> \in attached' \/ (x = r /\ y = p)
  BY DetachFrame
<1>2. \A x : RoleExists(x) => roles'[x] # None BY <1>1 DEF RoleExists
<1>3. \A x : PolicyExists(x) => policies'[x] # None BY <1>1 DEF PolicyExists, InPath
<1>4. ASSUME NEW e \in DOMAIN air.spec.roles, NEW i \in RefsOf(e),
             air.spec.policies[i].name \in PoliciesOf(air.spec.roles[e].name), ~Outdated(i)
      PROVE  <<air.spec.roles[e].name, air.spec.policies[i].name>> \in attached'
  BY <1>1, <1>4 DEF PoliciesOf, AttachedTo
<1> QED BY <1>2, <1>3, <1>4 DEF Keeps

LEMMA KeepsDeletePolicy ==
    ASSUME IAMTypeOK, air.spec \in Spec_, NEW p, DeletePolicy(p),
           \A i \in DOMAIN air.spec.policies :
             PolicyExists(p) /\ air.spec.policies[i].name = p => Outdated(i)
    PROVE  Keeps
<1>1. /\ UNCHANGED <<roles, attached>>
      /\ \A q \in PolicyName : policies'[q] = IF q = p /\ PolicyExists(p) THEN None ELSE policies[q]
  BY DeletePolicyFrame
<1>2. ASSUME NEW i \in DOMAIN air.spec.policies, PolicyExists(air.spec.policies[i].name),
             ~Outdated(i)
      PROVE  policies'[air.spec.policies[i].name] # None
  BY <1>1, <1>2, NamesKnown DEF PolicyExists, InPath
<1> QED BY <1>1, <1>2 DEF Keeps, RoleExists, PoliciesOf, AttachedTo

LEMMA KeepsDeleteRole ==
    ASSUME IAMTypeOK, air.spec \in Spec_, NEW r, r \notin WantedRoles, DeleteRole(r)
    PROVE  Keeps
<1>1. /\ UNCHANGED <<policies, attached>>
      /\ \A x \in RoleName : roles'[x] = IF x = r THEN None ELSE roles[x]
  BY DeleteRoleFrame
<1>2. \A x \in WantedRoles : RoleExists(x) => roles'[x] # None BY <1>1, NamesKnown DEF RoleExists
<1> QED BY <1>1, <1>2 DEF Keeps, PolicyExists, InPath, PoliciesOf, AttachedTo

LEMMA ChangeKeeps ==
    ASSUME DistinctNames, TypeInv, PassInv, ProtocolInv, pc \in SyncPoints, Change PROVE Keeps
<1>0. /\ At = pc /\ IAMTypeOK /\ air.spec \in Spec_ /\ w.arn \in ARN
      /\ ScopeAt(pc, w, air)
      /\ PruneLocals(pc, w, air.spec) /\ ProvideLocals(pc, w, air.spec)
  BY PassFacts DEF PassInv
<1>1. pc \in SyncPolicyPoints =>
        /\ w.pol \in PolicyName /\ w.role \in RoleName
        /\ w.item \in DOMAIN air.spec.policies /\ w.pol = air.spec.policies[w.item].name
  BY <1>0 DEF ScopeAt, ProvideLocals, SyncRolePoints
<1>2. CASE UNCHANGED iamVars
  BY <1>0, <1>2, KeepsMore DEF iamVars, RoleExists, PolicyExists, InPath
<1>3. CASE pc = "staleDetach" /\ \E p \in w.pend : DetachRolePolicy(p, w.role)
  <2>1. PICK p \in w.pend : DetachRolePolicy(p, w.role) BY <1>3
  <2>2. PICK f \in DOMAIN air.spec.roles :
          air.spec.roles[f].name = w.role /\ w.pend \cap air.spec.roles[f].policies = {}
    BY <1>0, <1>3 DEF PruneLocals
  <2>3. ASSUME NEW e \in DOMAIN air.spec.roles, NEW i \in RefsOf(e),
               air.spec.roles[e].name = w.role, air.spec.policies[i].name = p
        PROVE  FALSE
    <3>1. e = f BY <2>2, <2>3, DistinctAtHand
    <3>2. p \in air.spec.roles[e].policies BY <2>3 DEF RefsOf
    <3> QED BY <2>1, <2>2, <3>1, <3>2
  <2> QED BY <1>0, <2>1, <2>3, KeepsDetach
<1>4. CASE pc = "dropDetach" /\ \E p \in w.pend : DetachRolePolicy(p, w.role)
  <2>1. w.role \notin RolesNamed(air.spec) BY <1>0, <1>4 DEF PruneLocals
  <2> QED BY <1>0, <1>4, <2>1, KeepsDetach DEF RolesNamed
<1>5. CASE pc = "dropDetach" /\ DeleteRole(w.role)
  <2>1. w.role \notin WantedRoles BY <1>0, <1>5 DEF PruneLocals, WantedRoles
  <2> QED BY <1>0, <1>5, <2>1, KeepsDeleteRole
<1>6. CASE pc \in PolicyPoints
  <2>1. \A i \in DOMAIN air.spec.policies : air.spec.policies[i].name # w.pol
    BY <1>0, <1>6 DEF PruneLocals, PoliciesNamed
  <2>2. UNCHANGED iamVars \/ (\E e \in w.ents : DetachRolePolicy(w.pol, e)) \/ DeletePolicy(w.pol)
    BY <1>6 DEF Change, PolicyPoints
  <2> QED BY <1>0, <1>2, <2>1, <2>2, KeepsDetach, KeepsDeletePolicy DEF RefsOf
<1>7. CASE pc = "createRole" /\ CreateRole(w.role, Trust(w.entry), air.spec.cluster)
  <2>1. w.role \in RoleName BY <1>0, <1>7 DEF ScopeAt, SyncRolePoints
  <2>2. /\ UNCHANGED <<policies, attached>>
        /\ \A x \in RoleName : RoleExists(x) => roles'[x] = roles[x]
    BY <1>0, <1>7, <2>1, CreateRoleFrame
  <2> QED BY <1>0, <2>2, KeepsMore DEF RoleExists, PolicyExists, InPath
<1>8. CASE pc = "updateRole" /\ UpdateRole(w.role, Trust(w.entry))
  <2>1. w.role \in RoleName /\ w.entry \in DOMAIN air.spec.roles
    BY <1>0, <1>8 DEF ScopeAt, SyncRolePoints
  <2>2. Trust(w.entry) \in TrustDoc BY <1>0, <2>1, SpecFields DEF Trust, TrustDoc
  <2>3. /\ UNCHANGED <<policies, attached>>
        /\ \A x \in RoleName : RoleExists(x) => roles'[x] # None
    BY <1>0, <1>8, <2>1, <2>2, UpdateRoleFrame DEF RoleExists
  <2> QED BY <1>0, <2>3, KeepsMore DEF RoleExists, PolicyExists, InPath
<1>9. CASE pc \in {"createPolicy", "updCreate"} /\ CreateFromSpec
  <2>1. w.pol \in PolicyName BY <1>1, <1>9 DEF SyncPolicyPoints
  <2>2. /\ UNCHANGED <<roles, attached>>
        /\ \A q \in PolicyName : policies[q] # None => policies'[q] = policies[q]
    BY <1>0, <1>9, <2>1, CreatePolicyFrame DEF CreateFromSpec
  <2> QED BY <1>0, <2>2, KeepsMore DEF RoleExists, PolicyExists, InPath
<1>10. CASE pc \in {"attachNew", "updAttach", "attach"} /\ AttachRolePolicy(w.pol, w.role)
  BY <1>0, <1>10, AttachFrame, KeepsMore DEF RoleExists, PolicyExists, InPath
<1>11. pc \in {"updDetach", "updDelete"} =>
         \A i \in DOMAIN air.spec.policies :
           PolicyExists(w.pol) /\ air.spec.policies[i].name = w.pol => Outdated(i)
  <2>1. pc \in {"updDetach", "updDelete"} => pc \in SyncPolicyPoints BY DEF SyncPolicyPoints
  <2> QED BY <1>0, <1>1, <2>1, DistinctAtHand DEF ProvideLocals, Outdated
<1>12. CASE pc = "updDetach" /\ DetachRolePolicy(w.pol, w.role)
  <2>1. CASE PolicyExists(w.pol)
    BY <1>0, <1>11, <1>12, <2>1, KeepsDetach DEF RefsOf
  <2>2. CASE ~PolicyExists(w.pol)
    BY <1>2, <1>12, <2>2, DetachFrame
  <2> QED BY <2>1, <2>2
<1>13. CASE pc = "updDelete" /\ DeletePolicy(w.pol)
  BY <1>0, <1>11, <1>13, KeepsDeletePolicy
<1> QED
  BY <1>2, <1>3, <1>4, <1>5, <1>6, <1>7, <1>8, <1>9, <1>10, <1>12, <1>13
  DEF Change, PolicyPoints

(* When no map of a specification uses one name twice, a synchronisation   *)
(* keeps, whatever others do meanwhile, the roles it wants, the policies    *)
(* whose document it wants, and their attachments to roles that refer to    *)
(* them.  Two entries of one name take from each other what only one wants. *)
THEOREM KeepsWantedHolds == ASSUME DistinctNames PROVE Spec => KeepsWanted
<1>1. TypeInv /\ PassInv /\ ProtocolInv /\ [Next]_vars
        => [(pc \in SyncPoints) => Keeps]_workerVars
  BY PassChange, ChangeKeeps
<1>2. Spec => [][(pc \in SyncPoints) => Keeps]_workerVars
  BY <1>1, ScopeCorrect, PassInvariance, ProtocolInvariance, PTL DEF Spec
<1> QED BY <1>2 DEF KeepsWanted, Keeps

----------------------------------------------------------------------------
(* What any step does to the roles *)

(* The changes by others that are left are those there were, or fewer.     *)
WithinBounds == left.drift <= MaxDrift /\ left.foreign <= MaxForeign

LEMMA LeftWithin == Spec => []WithinBounds
<1>1. Init => WithinBounds BY BoundsAssumption DEF Init, WithinBounds
<1>2. ASSUME LeftTypeOK, WithinBounds, [Next]_vars PROVE WithinBounds'
  <2>1. \A k \in {"faults", "crashes", "drift", "foreign"} : Lose(k) => WithinBounds'
    BY <1>2, BoundsAssumption DEF Lose, LeftTypeOK, WithinBounds
  <2>2. UNCHANGED left => WithinBounds' BY <1>2 DEF WithinBounds
  <2> QED
    BY <1>2, <2>1, <2>2
    DEF Next, Worker, Faults, CallFails, ReplyLost, Crash, Environment, vars
<1>3. TypeInv => LeftTypeOK BY DEF TypeInv
<1> QED BY <1>1, <1>2, <1>3, ScopeCorrect, PTL DEF Spec

(* A synchronisation, a destruction, or others.                            *)
Pass == Prune \/ Provide \/ ReplyLost

LEMMA AnyChange ==
    ASSUME TypeInv, WithinBounds, [Next]_vars
    PROVE  \/ UNCHANGED iamVars
           \/ Pass /\ pc \in SyncPoints /\ Change
           \/ Destroy
           \/ OutOfBand /\ MaxDrift > 0 /\ UNCHANGED workerVars
           \/ Foreign /\ MaxForeign > 0 /\ UNCHANGED workerVars
<1>1. Pass => pc \in SyncPoints /\ Change
  <2>1. Prune \/ Provide \/ ReplyLost => Change BY PruneChange, ProvideChange
  <2>2. Prune => pc \in SyncPoints
    BY DEF Prune, List, StaleRefs, StaleDetach, DropRoles, DropDetach, DropPolicies, DropPolicy,
           DropEntities, DropEntityPolicy, SyncPoints
  <2>3. Provide => pc \in SyncPoints
    BY DEF Provide, SyncRole, SyncRolesDone, CreateMissingRole, UpdateRoleTrust, SyncPolicies,
           CreateMissingPolicy, AttachNew, UpdDetach, UpdDelete, UpdCreate, UpdAttach,
           CheckAttached, Attach, SyncPoints
  <2>4. ReplyLost => pc \in SyncPoints BY DEF ReplyLost, SyncPoints
  <2> QED BY <2>1, <2>2, <2>3, <2>4 DEF Pass
<1>2. UNCHANGED vars => UNCHANGED iamVars BY DEF vars
<1>3. Begin \/ UpdateCRDStatus \/ End => UNCHANGED iamVars
  BY DEF Begin, Pick, GetClusterResources, NewIAMClient, AddFinalizer, UpdateCRDStatus, End,
         Final, Finish, Requeue, ReturnError
<1>4. CallFails \/ Crash => UNCHANGED iamVars BY DEF CallFails, Crash
<1>5. Environment => \/ UNCHANGED iamVars
                     \/ OutOfBand /\ MaxDrift > 0 /\ UNCHANGED workerVars
                     \/ Foreign /\ MaxForeign > 0 /\ UNCHANGED workerVars
  <2>1. Lose("drift") => MaxDrift > 0
    BY BoundsAssumption DEF Lose, WithinBounds, TypeInv, LeftTypeOK
  <2>2. Lose("foreign") => MaxForeign > 0
    BY BoundsAssumption DEF Lose, WithinBounds, TypeInv, LeftTypeOK
  <2> QED BY <2>1, <2>2 DEF Environment
<1> QED BY <1>1, <1>2, <1>3, <1>4, <1>5 DEF Next, Worker, Faults, Pass

(* The changes of a synchronisation that concern roles.                    *)
LEMMA RoleChange ==
    ASSUME TypeInv, pc \in SyncPoints, Change
    PROVE  \/ UNCHANGED roles
           \/ pc = "dropDetach" /\ DeleteRole(w.role)
           \/ /\ pc = "createRole"
              /\ w.role \in RoleName
              /\ CreateRole(w.role, Trust(w.entry), air.spec.cluster)
           \/ /\ pc = "updateRole"
              /\ w.role \in RoleName
              /\ Trust(w.entry) \in TrustDoc
              /\ UpdateRole(w.role, Trust(w.entry))
<1>0. air.spec \in Spec_ /\ ScopeAt(pc, w, air) /\ w.arn \in ARN BY PassFacts
<1>1. pc \in {"createRole", "updateRole"} =>
        w.role \in RoleName /\ w.entry \in DOMAIN air.spec.roles
  BY <1>0 DEF ScopeAt, SyncRolePoints
<1>2. w.entry \in DOMAIN air.spec.roles => Trust(w.entry) \in TrustDoc
  BY <1>0, SpecFields DEF Trust, TrustDoc
<1> QED
  BY <1>1, <1>2
  DEF Change, iamVars, DetachRolePolicy, DeletePolicy, CreateFromSpec, CreatePolicy,
      AttachRolePolicy

(* Where a role comes from: it was there for the same cluster, a           *)
(* synchronisation has created it for its own, or another tool has.        *)
LEMMA RolesFrom ==
    ASSUME TypeInv, WithinBounds, [Next]_vars, NEW r \in RoleName, RoleExists(r)'
    PROVE  \/ RoleExists(r) /\ roles'[r].cluster = roles[r].cluster
           \/ /\ pc = "createRole" /\ r = w.role /\ ~RoleExists(r)
              /\ roles'[r].cluster = air.spec.cluster /\ air.spec.cluster \in Cluster
           \/ /\ Foreign /\ MaxForeign > 0 /\ UNCHANGED workerVars
              /\ ~RoleExists(r) /\ roles'[r].cluster = None
<1>0. IAMTypeOK BY DEF TypeInv
<1>1. CASE UNCHANGED roles BY <1>1 DEF RoleExists
<1>2. ASSUME NEW q, DeleteRole(q) PROVE RoleExists(r) /\ roles'[r].cluster = roles[r].cluster
  BY <1>0, <1>2, DeleteRoleFrame DEF RoleExists
<1>3. CASE pc \in SyncPoints /\ Change
  <2>1. air.spec.cluster \in Cluster BY <1>3, PassFacts, SpecFields
  <2>2. ASSUME w.role \in RoleName, CreateRole(w.role, Trust(w.entry), air.spec.cluster)
        PROVE  \/ RoleExists(r) /\ roles'[r].cluster = roles[r].cluster
               \/ r = w.role /\ ~RoleExists(r) /\ roles'[r].cluster = air.spec.cluster
    <3>1. /\ \A x \in RoleName : x # w.role => roles'[x] = roles[x]
          /\ roles'[w.role] = IF RoleExists(w.role) THEN roles[w.role]
                             ELSE [trust |-> Trust(w.entry), cluster |-> air.spec.cluster]
      BY <1>0, <2>2, CreateRoleFrame
    <3> QED BY <3>1 DEF RoleExists
  <2>3. ASSUME w.role \in RoleName, Trust(w.entry) \in TrustDoc, UpdateRole(w.role, Trust(w.entry))
        PROVE  RoleExists(r) /\ roles'[r].cluster = roles[r].cluster
    BY <1>0, <2>3, UpdateRoleFrame DEF RoleExists
  <2> QED BY <1>1, <1>2, <1>3, <2>1, <2>2, <2>3, RoleChange
<1>4. CASE Destroy
  BY <1>1, <1>2, <1>4
  DEF Destroy, DestroyRoles, DestroyDetach, DestroyPolicies, DestroyRole, DestroyFails,
      Unfinalize, DetachRolePolicy, DeletePolicy, iamVars
<1>5. CASE OutOfBand
  BY <1>1, <1>2, <1>5 DEF OutOfBand, DetachRolePolicy, DeletePolicy
<1>6. CASE Foreign /\ MaxForeign > 0 /\ UNCHANGED workerVars
  <2>1. RoleExists(r) => roles'[r] = roles[r] BY <1>0, <1>6, ForeignFrame
  <2>2. ~RoleExists(r) => roles'[r].cluster = None
    BY <1>0, <1>6, ForeignGrows DEF Grown, RoleExists
  <2> QED BY <1>6, <2>1, <2>2
<1> QED BY <1>1, <1>3, <1>4, <1>5, <1>6, AnyChange DEF iamVars

(* Where a role goes: deleted by a pruning, by a destruction, or by others. *)
LEMMA RolesGo ==
    ASSUME TypeInv, WithinBounds, [Next]_vars, NEW r \in RoleName, RoleExists(r), ~RoleExists(r)'
    PROVE  \/ Pass /\ pc = "dropDetach" /\ r = w.role
           \/ Destroy
           \/ MaxDrift > 0
<1>0. IAMTypeOK BY DEF TypeInv
<1>1. ~UNCHANGED roles BY DEF RoleExists
<1>2. CASE Pass /\ pc \in SyncPoints /\ Change
  <2>1. ASSUME w.role \in RoleName, CreateRole(w.role, Trust(w.entry), air.spec.cluster)
        PROVE  FALSE
    BY <1>0, <2>1, CreateRoleFrame DEF RoleExists
  <2>2. ASSUME w.role \in RoleName, Trust(w.entry) \in TrustDoc, UpdateRole(w.role, Trust(w.entry))
        PROVE  FALSE
    BY <1>0, <2>2, UpdateRoleFrame DEF RoleExists
  <2>3. DeleteRole(w.role) => r = w.role BY <1>0, DeleteRoleFrame DEF RoleExists
  <2> QED BY <1>1, <1>2, <2>1, <2>2, <2>3, RoleChange
<1>3. ~Foreign BY <1>0, ForeignFrame DEF RoleExists
<1> QED BY <1>1, <1>2, <1>3, AnyChange DEF iamVars

----------------------------------------------------------------------------
(* The roles listed for deletion *)

(* Once the roles are dealt with a pass does not come back to them.        *)
Later == {"dropPolicies"} \cup PolicyPoints \cup SyncRolePoints
           \cup {"syncRoles", "final", "return", "idle", "requeue"}

LEMMA GoesLater ==
    ASSUME \/ DropPolicies \/ DropPolicy \/ DropEntities \/ DropEntityPolicy
           \/ Provide \/ ReplyLost \/ Final
    PROVE  At' \in Later
<1>1. /\ \A x : \A l \in Later : Goto(l, x) => At' \in Later
      /\ \A h, res, x : \A l \in Later : Report(h, res, l, x) => At' \in Later
      /\ \A b : Return(b) => At' \in Later
      /\ ReturnError => At' \in Later
  <2>1. "status" \notin Later /\ "idle" \in Later
    BY DEF Later, PolicyPoints, SyncRolePoints, SyncPolicyPoints
  <2> QED BY <2>1, EndsMove
<1>2. /\ {"dropPolicies", "dropPolicy", "dropEntities", "dropEntityPolicy"} \subseteq Later
      /\ {"syncRoles", "createRole", "updateRole", "policies", "createPolicy", "attachNew",
          "updDetach", "updDelete", "updCreate", "updAttach", "checkAttached", "attach",
          "final", "return", "idle", "requeue"} \subseteq Later
  BY DEF Later, PolicyPoints, SyncRolePoints, SyncPolicyPoints
<1> HIDE DEF Later
<1>3. /\ "dropPolicies" \in Later /\ "dropPolicy" \in Later /\ "dropEntities" \in Later
      /\ "dropEntityPolicy" \in Later /\ "syncRoles" \in Later /\ "createRole" \in Later
      /\ "updateRole" \in Later /\ "policies" \in Later /\ "createPolicy" \in Later
      /\ "attachNew" \in Later /\ "updDetach" \in Later /\ "updDelete" \in Later
      /\ "updCreate" \in Later /\ "updAttach" \in Later /\ "checkAttached" \in Later
      /\ "attach" \in Later /\ "final" \in Later /\ "return" \in Later /\ "requeue" \in Later
  BY <1>2
<1>4. \A l \in {"dropPolicies", "dropEntities"} : DropPolicyThen(l) => At' \in Later
  BY <1>1, <1>3, Zenon DEF DropPolicyThen
<1>5. \A res, x : \A l \in Later : AttachThen(res, l, x) => At' \in Later
  BY <1>1, Zenon DEF AttachThen
<1>6. DropPolicies => At' \in Later BY <1>1, <1>3, Zenon DEF DropPolicies
<1>7. DropEntities => At' \in Later BY <1>1, <1>3, Zenon DEF DropEntities
<1>8. DropPolicy \/ DropEntityPolicy => At' \in Later BY <1>4 DEF DropPolicy, DropEntityPolicy
<1>9. ASSUME NEW e, SyncRole(e) PROVE At' \in Later
  <2>1. \/ \E x : Goto("createRole", x) \/ Goto("policies", x) \/ Goto("updateRole", x)
        \/ Report("Failed", NoResult, "requeue", w)
    BY <1>9 DEF SyncRole
  <2> QED BY <1>1, <1>3, <2>1
<1>10. SyncRolesDone \/ CreateMissingRole \/ UpdateRoleTrust => At' \in Later
  BY <1>1, <1>3 DEF SyncRolesDone, CreateMissingRole, UpdateRoleTrust
<1>11. SyncPolicies => At' \in Later
  <2>1. SyncPolicies => \E x : \/ Goto("policies", x) \/ Goto("syncRoles", x)
                               \/ Goto("createPolicy", x) \/ Goto("updDetach", x)
                               \/ Goto("checkAttached", x)
    BY DEF SyncPolicies
  <2> QED BY <1>1, <1>3, <2>1
<1>12. CreateMissingPolicy \/ UpdDetach \/ UpdDelete \/ UpdCreate \/ CheckAttached => At' \in Later
  <2>1. UpdDelete => At' \in Later BY <1>1, <1>3, Zenon DEF UpdDelete
  <2>2. CheckAttached => At' \in Later BY <1>1, <1>3, Zenon DEF CheckAttached
  <2>3. CreateMissingPolicy \/ UpdDetach \/ UpdCreate => At' \in Later
    BY <1>1, <1>3, Zenon DEF CreateMissingPolicy, UpdDetach, UpdCreate
  <2> QED BY <2>1, <2>2, <2>3
<1>13. AttachNew \/ UpdAttach \/ Attach => At' \in Later
  BY <1>3, <1>5, Zenon DEF AttachNew, UpdAttach, Attach
<1>14. ReplyLost => At' \in Later BY <1>1, <1>3, Zenon DEF ReplyLost
<1>15. Final => At' \in Later BY <1>1, <1>3, Zenon DEF Final
<1> QED
  BY <1>6, <1>7, <1>8, <1>9, <1>10, <1>11, <1>12, <1>13, <1>14, <1>15 DEF Provide

(* A role on the list stays the cluster's while the pass prunes roles.     *)
LEMMA DroppableStays ==
    ASSUME TypeInv, WithinBounds, [Next]_vars, MaxDrift = 0 \/ MaxForeign = 0,
           pc # "createRole", ~Destroy, NEW r \in RoleName, NEW k, Droppable(r, k),
           ~(Pass /\ pc = "dropDetach" /\ r = w.role)
    PROVE  Droppable(r, k)'
<1>1. RoleExists(r)' => roles'[r].cluster = k
  <2>1. MaxForeign > 0 => RoleExists(r) BY DEF Droppable
  <2> QED BY <2>1, RolesFrom DEF Droppable
<1>2. MaxForeign > 0 => RoleExists(r)'
  <2>1. MaxForeign > 0 => RoleExists(r) BY DEF Droppable
  <2>2. MaxForeign > 0 => ~(MaxDrift > 0) BY BoundsAssumption
  <2> QED BY <2>1, <2>2, RolesGo
<1> QED BY <1>1, <1>2 DEF Droppable

LEMMA NextDrop ==
    ASSUME TypeInv, WithinBounds, PassInv, DropInv, [Next]_vars, MaxDrift = 0 \/ MaxForeign = 0
    PROVE  DropInv'
<1>a. w \in Locals /\ w.dropRoles \subseteq RoleName BY ScopeThere DEF Locals
<1>1. ASSUME air'.spec = air.spec,
             \A r \in w'.dropRoles : Droppable(r, air.spec.cluster)',
             At' = "dropDetach" =>
               Droppable(w.role, air.spec.cluster)' /\ w'.role \notin w'.dropRoles
      PROVE  DropInv'
  BY <1>1 DEF DropInv
<1>2. ASSUME At' \notin RolePrunePoints PROVE DropInv'
  BY <1>2 DEF DropInv, RolePrunePoints
<1>3. ASSUME At \in RolePrunePoints
      PROVE  /\ \A r \in w.dropRoles : Droppable(r, air.spec.cluster)
             /\ At = "dropDetach" => /\ w.role \in RoleName
                                    /\ Droppable(w.role, air.spec.cluster)
                                    /\ w.role \notin w.dropRoles
  <2>1. At = "dropDetach" => w.role \in RoleName
    <3>1. At = "dropDetach" => pc # "idle" BY DEF At
    <3> QED BY <3>1, ScopeThere DEF ScopeAt, RolePoints
  <2> QED BY <1>3, <2>1 DEF DropInv
<1>4. ASSUME pc \in {"status", "list"} \cup RolePrunePoints,
             NEW r \in RoleName, NEW k, Droppable(r, k), pc = "dropDetach" /\ Pass => r # w.role
      PROVE  Droppable(r, k)'
  <2>1. ~Destroy /\ pc # "createRole"
    BY <1>4 DEF RolePrunePoints, Destroy, DestroyRoles, DestroyDetach, DestroyPolicies,
                DestroyRole, Unfinalize
  <2> QED BY <1>4, <2>1, DroppableStays
<1>5. CASE List
  <2>0. pc = "list" BY <1>5 DEF List
  <2> DEFINE x == [w EXCEPT !.listed = PoliciesTagged(air.spec.cluster),
                            !.dropRoles = UnwantedRoles, !.todo = DOMAIN air.spec.roles]
  <2>1. x.dropRoles = UnwantedRoles BY <1>a DEF Locals
  <2>2. Goto("staleRefs", x) BY <1>5 DEF List
  <2> HIDE DEF x
  <2>3. At' = "staleRefs" /\ air' = air /\ w'.dropRoles = UnwantedRoles BY <2>1, <2>2, EndsMove
  <2>4. \A r \in UnwantedRoles : r \in RoleName /\ Droppable(r, air.spec.cluster)
    BY DEF UnwantedRoles, RolesTagged, Droppable
  <2>5. \A r \in w'.dropRoles : Droppable(r, air.spec.cluster)'
    <3>1. \A r \in UnwantedRoles : Droppable(r, air.spec.cluster)'
      BY <1>5, <2>4, <2>3 DEF List, iamVars, Droppable, RoleExists
    <3> QED BY <2>3, <3>1 DEF Droppable
  <2> QED BY <1>1, <2>3, <2>5
<1>6. ASSUME pc \in RolePrunePoints, At = pc, air' = air, w'.dropRoles \subseteq w.dropRoles,
             At' = "dropDetach" =>
               \/ w'.role \in w.dropRoles \ w'.dropRoles /\ pc = "dropRoles"
               \/ w'.role = w.role /\ pc = "dropDetach" /\ UNCHANGED roles
      PROVE  DropInv'
  <2>1. \A r \in w'.dropRoles : Droppable(r, air.spec.cluster)'
    <3>1. \A r \in w.dropRoles : pc = "dropDetach" => r # w.role BY <1>3, <1>6
    <3>2. \A r \in w.dropRoles : Droppable(r, air.spec.cluster)'
      BY <1>3, <1>4, <1>6, <1>a, <3>1 DEF Droppable
    <3> QED BY <1>6, <3>2
  <2>2. CASE At' = "dropDetach" /\ w'.role = w.role /\ pc = "dropDetach" /\ UNCHANGED roles
    <3>1. Droppable(w.role, air.spec.cluster)'
      BY <1>3, <1>6, <2>2 DEF Droppable, RoleExists
    <3> QED BY <1>1, <1>3, <1>6, <2>1, <2>2, <3>1
  <2>3. CASE At' = "dropDetach" /\ w'.role \in w.dropRoles \ w'.dropRoles /\ pc = "dropRoles"
    <3>1. Droppable(w'.role, air.spec.cluster) BY <1>3, <1>6, <2>3
    <3>2. Droppable(w.role, air.spec.cluster)' 
      BY <1>4, <1>6, <1>a, <2>3, <3>1 DEF Droppable, RoleExists
    <3> QED BY <1>1, <1>6, <2>1, <2>3, <3>2
  <2>4. CASE At' # "dropDetach" BY <1>1, <1>6, <2>1, <2>4
  <2> QED BY <1>6, <2>2, <2>3, <2>4
<1>7. CASE StaleRefs \/ StaleDetach
  <2>0. pc \in {"staleRefs", "staleDetach"} /\ pc \in RolePrunePoints /\ At = pc
    BY <1>7 DEF StaleRefs, StaleDetach, RolePrunePoints, At
  <2>1. ASSUME NEW x, x.dropRoles = w.dropRoles, NEW l \in {"dropRoles", "staleRefs", "staleDetach"},
               \/ Goto(l, x) \/ \E h, res : Report(h, res, l, x)
        PROVE  DropInv'
    <3>1. At' = l /\ air' = air /\ w' = x BY <2>1, EndsMove
    <3> QED BY <1>6, <2>0, <2>1, <3>1
  <2>2. CASE Return(TRUE)
    <3>1. At' = "idle" BY <2>2, EndsMove
    <3> QED BY <1>2, <3>1 DEF RolePrunePoints
  <2>3. CASE StaleRefs
    <3>1. \/ Return(TRUE) \/ Goto("dropRoles", w)
          \/ \E e \in w.todo : Goto("staleDetach",
               [w EXCEPT !.todo = @ \ {e}, !.role = air.spec.roles[e].name, !.pend = Stale(e)])
      BY <2>3, Zenon DEF StaleRefs
    <3>2. \A e : [w EXCEPT !.todo = @ \ {e}, !.role = air.spec.roles[e].name,
                            !.pend = Stale(e)].dropRoles = w.dropRoles
      BY <1>a DEF Locals
    <3> QED BY <2>1, <2>2, <3>1, <3>2
  <2>4. CASE StaleDetach
    <3>1. \/ Goto("staleRefs", [w EXCEPT !.role = None])
          \/ \E p \in w.pend : Report("Provisioned", Policy(p), "staleDetach",
                                     [w EXCEPT !.pend = @ \ {p}])
      BY <2>4, Zenon DEF StaleDetach
    <3>2. /\ [w EXCEPT !.role = None].dropRoles = w.dropRoles
          /\ \A p : [w EXCEPT !.pend = @ \ {p}].dropRoles = w.dropRoles
      BY <1>a DEF Locals
    <3> QED BY <2>1, <3>1, <3>2
  <2> QED BY <1>7, <2>3, <2>4
<1>8. CASE DropRoles
  <2>0. pc = "dropRoles" /\ pc \in RolePrunePoints /\ At = pc
    BY <1>8 DEF DropRoles, RolePrunePoints, At
  <2>1. CASE Goto("dropPolicies", [w EXCEPT !.listed = UnwantedPolicies])
    <3>1. At' = "dropPolicies" BY <2>1, EndsMove
    <3> QED BY <1>2, <3>1 DEF RolePrunePoints
  <2>2. ASSUME NEW r \in w.dropRoles, Goto("dropRoles", [w EXCEPT !.dropRoles = @ \ {r}])
        PROVE  DropInv'
    <3>1. At' = "dropRoles" /\ air' = air /\ w'.dropRoles \subseteq w.dropRoles
      BY <1>a, <2>2, EndsMove DEF Locals
    <3> QED BY <1>6, <2>0, <3>1
  <2>3. ASSUME NEW r \in w.dropRoles,
               Goto("dropDetach", [[w EXCEPT !.dropRoles = @ \ {r}]
                                     EXCEPT !.role = r, !.pend = PoliciesOf(r)])
        PROVE  DropInv'
    <3> DEFINE x == [[w EXCEPT !.dropRoles = @ \ {r}] EXCEPT !.role = r, !.pend = PoliciesOf(r)]
    <3>1. x.dropRoles = w.dropRoles \ {r} /\ x.role = r BY <1>a DEF Locals
    <3>2. Goto("dropDetach", x) BY <2>3
    <3> HIDE DEF x
    <3>3. At' = "dropDetach" /\ air' = air /\ w' = x BY <3>2, EndsMove
    <3> QED BY <1>6, <2>0, <2>3, <3>1, <3>3
  <2> QED BY <1>8, <2>1, <2>2, <2>3, Zenon DEF DropRoles
<1>9. CASE DropDetach
  <2>0. pc = "dropDetach" /\ pc \in RolePrunePoints /\ At = pc
    BY <1>9 DEF DropDetach, RolePrunePoints, At
  <2>1. ASSUME NEW p \in w.pend, DetachRolePolicy(p, w.role),
               Report("Provisioned", Policy(p), "dropDetach", [w EXCEPT !.pend = @ \ {p}])
        PROVE  DropInv'
    <3>1. At' = "dropDetach" /\ air' = air /\ w'.dropRoles = w.dropRoles /\ w'.role = w.role
      BY <1>a, <2>1, EndsMove DEF Locals
    <3>2. UNCHANGED roles BY <2>1 DEF DetachRolePolicy
    <3> QED BY <1>6, <2>0, <3>1, <3>2
  <2>2. CASE ReturnError
    <3>1. At' = "idle" BY <2>2, EndsMove
    <3> QED BY <1>2, <3>1 DEF RolePrunePoints
  <2>3. CASE Report("Provisioned", Role(w.role), "dropRoles", [w EXCEPT !.role = None])
    <3>1. At' = "dropRoles" /\ air' = air /\ w'.dropRoles = w.dropRoles
      BY <1>a, <2>3, EndsMove DEF Locals
    <3> QED BY <1>6, <2>0, <3>1
  <2> QED BY <1>9, <2>1, <2>2, <2>3, Zenon DEF DropDetach
<1>10. CASE DropPolicies \/ DropPolicy \/ DropEntities \/ DropEntityPolicy
              \/ Provide \/ ReplyLost \/ Final
  <2>1. At' \in Later BY <1>10, GoesLater
  <2>2. At' \notin RolePrunePoints
    BY <2>1 DEF Later, RolePrunePoints, PolicyPoints, SyncRolePoints, SyncPolicyPoints
  <2> QED BY <1>2, <2>2
<1>11. CASE ~Prune /\ ~Provide /\ ~ReplyLost /\ ~Final
  <2>1. CASE At' \notin BusyPoints
    BY <1>2, <2>1 DEF BusyPoints, PrunePoints
  <2>2. CASE Same /\ At \in RolePrunePoints
    <3>0. ~Pass BY <1>11 DEF Pass
    <3>1. pc \in {"status"} \cup RolePrunePoints BY <2>2 DEF At
    <3>2. At' = At /\ w' = w /\ air'.spec = air.spec BY <2>2 DEF Same
    <3>3. \A r \in RoleName : Droppable(r, air.spec.cluster) => Droppable(r, air.spec.cluster)'
      BY <1>4, <3>0, <3>1, <3>2 DEF Droppable
    <3>4. \A r \in w.dropRoles : Droppable(r, air.spec.cluster)'
      BY <1>3, <1>a, <2>2, <3>3
    <3>5. At = "dropDetach" => Droppable(w.role, air.spec.cluster)'
      BY <1>3, <2>2, <3>2, <3>3 DEF Droppable, RoleExists
    <3> QED BY <1>1, <1>3, <2>2, <3>2, <3>4, <3>5
  <2>3. CASE Same /\ At \notin RolePrunePoints BY <1>2, <2>3 DEF Same
  <2> QED BY <1>11, <2>1, <2>2, <2>3, StayOrEnd
<1> QED BY <1>5, <1>7, <1>8, <1>9, <1>10, <1>11 DEF Prune

(* As long as either nobody else removes or nobody else creates, the roles *)
(* a pruning has listed stay its cluster's until it comes to them.         *)
THEOREM DropInvariance == ASSUME MaxDrift = 0 \/ MaxForeign = 0 PROVE Spec => []DropInv
<1>1. Init => DropInv
  <2>1. Init => At = "idle" BY DEF Init, At
  <2> QED BY <2>1 DEF DropInv, RolePrunePoints
<1>2. TypeInv /\ WithinBounds /\ PassInv /\ DropInv /\ [Next]_vars => DropInv' BY NextDrop
<1> QED BY <1>1, <1>2, ScopeCorrect, LeftWithin, PassInvariance, PTL DEF Spec

----------------------------------------------------------------------------
(* Pruning deletes its own cluster's entities only *)

Spares ==
    /\ \A r \in RoleName :
         roles'[r] = None => roles[r] = None \/ roles[r].cluster = air.spec.cluster
    /\ \A p \in PolicyName :
         policies'[p] = None => policies[p] = None \/ policies[p].cluster = air.spec.cluster

LEMMA ChangeSpares ==
    ASSUME TypeInv, PassInv, DropInv, Change, pc \in {"dropDetach", "dropPolicy", "dropEntityPolicy"}
    PROVE  Spares
<1>1. pc \in SyncPoints BY DEF SyncPoints
<1>2. IAMTypeOK /\ At = pc /\ PruneLocals(pc, w, air.spec) BY <1>1, PassFacts DEF PassInv
<1>3. CASE UNCHANGED <<roles, policies>> BY <1>3 DEF Spares
<1>4. CASE pc = "dropDetach" /\ DeleteRole(w.role)
  <2>1. RoleExists(w.role) => roles[w.role].cluster = air.spec.cluster
    BY <1>2, <1>4 DEF DropInv, Droppable
  <2>2. /\ UNCHANGED policies
        /\ \A x \in RoleName : roles'[x] = IF x = w.role THEN None ELSE roles[x]
    BY <1>2, <1>4, DeleteRoleFrame
  <2> QED BY <2>1, <2>2 DEF Spares, RoleExists
<1>5. CASE pc \in {"dropPolicy", "dropEntityPolicy"} /\ DeletePolicy(w.pol)
  <2>1. TaggedIfThere(w.pol, air.spec.cluster) BY <1>2, <1>5 DEF PruneLocals, PolicyPoints
  <2>2. /\ UNCHANGED roles
        /\ \A q \in PolicyName :
             policies'[q] = IF q = w.pol /\ PolicyExists(w.pol) THEN None ELSE policies[q]
    BY <1>2, <1>5, DeletePolicyFrame
  <2> QED BY <2>1, <2>2 DEF Spares, TaggedIfThere
<1> QED BY <1>3, <1>4, <1>5 DEF Change, iamVars, DetachRolePolicy

(* Whatever faults, crashes and users do, and as long as others either     *)
(* remove or create but not both, pruning deletes nothing of another       *)
(* cluster or from outside the path.  Without the hypothesis it does: the   *)
(* role listed by its tags may be gone and another be there by that name.  *)
THEOREM PrunesOwnHolds == ASSUME MaxDrift = 0 \/ MaxForeign = 0 PROVE Spec => PrunesOwn
<1> DEFINE Pruning == pc \in {"dropDetach", "dropPolicy", "dropEntityPolicy"}
<1>1. TypeInv /\ PassInv /\ DropInv /\ [Next]_vars => [Pruning => Spares]_workerVars
  <2>1. Pruning => pc \in SyncPoints BY DEF SyncPoints
  <2> QED BY <2>1, PassChange, ChangeSpares
<1>2. Spec => [][Pruning => Spares]_workerVars
  BY <1>1, ScopeCorrect, PassInvariance, DropInvariance, PTL DEF Spec
<1> QED BY <1>2 DEF PrunesOwn, Spares

----------------------------------------------------------------------------
(* A synchronisation of an account in sync changes nothing *)

LEMMA ChangeNothing ==
    ASSUME TypeInv, PassInv, DropInv, pc \in SyncPoints, Change, InSync(air.spec, w.arn)
    PROVE  UNCHANGED iamVars
<1>0. /\ At = pc /\ IAMTypeOK /\ air.spec \in Spec_ /\ w.arn \in ARN
      /\ ScopeAt(pc, w, air) /\ EndsExist
      /\ PruneLocals(pc, w, air.spec) /\ ProvideLocals(pc, w, air.spec)
      /\ w \in Locals
  BY PassFacts DEF PassInv
<1>1. /\ \A p \in PolicyName : PolicyExists(p) /\ p \notin PoliciesNamed(air.spec)
                                 => policies[p].cluster # air.spec.cluster
      /\ \A r \in RoleName : RoleExists(r) /\ r \notin RolesNamed(air.spec)
                                 => roles[r].cluster # air.spec.cluster
  BY DEF InSync, Provided, RolesTagged, PoliciesTagged
<1>2. ASSUME NEW e \in DOMAIN air.spec.roles
      PROVE  /\ RoleExists(air.spec.roles[e].name)
             /\ roles[air.spec.roles[e].name].trust = Trust(e)
             /\ \A i \in Wanted(air.spec, e) :
                  /\ PolicyExists(air.spec.policies[i].name)
                  /\ <<air.spec.roles[e].name, air.spec.policies[i].name>> \in attached
                  /\ policies[air.spec.policies[i].name].doc = air.spec.policies[i].doc
             /\ \A p \in PoliciesOf(air.spec.roles[e].name) \cap PoliciesTagged(air.spec.cluster) :
                  p \in air.spec.roles[e].policies
  <2> DEFINE names == {air.spec.policies[i].name : i \in Wanted(air.spec, e)}
  <2>1. /\ RoleExists(air.spec.roles[e].name)
        /\ roles[air.spec.roles[e].name].trust = <<air.spec.roles[e].template, w.arn>>
        /\ names \subseteq PoliciesOf(air.spec.roles[e].name)
        /\ PoliciesOf(air.spec.roles[e].name) \cap PoliciesTagged(air.spec.cluster)
             \subseteq air.spec.roles[e].policies
        /\ \A i \in Wanted(air.spec, e) :
             policies[air.spec.policies[i].name].doc = air.spec.policies[i].doc
    BY DEF InSync, Provided
  <2>2. \A i \in Wanted(air.spec, e) : air.spec.policies[i].name \in names OBVIOUS
  <2> HIDE DEF names
  <2> QED BY <2>1, <2>2 DEF Trust, PoliciesOf, AttachedTo
<1>3. CASE pc = "staleDetach" /\ \E p \in w.pend : DetachRolePolicy(p, w.role)
  <2>1. PICK p \in w.pend : DetachRolePolicy(p, w.role) BY <1>3
  <2>2. PICK e \in DOMAIN air.spec.roles :
          air.spec.roles[e].name = w.role /\ w.pend \cap air.spec.roles[e].policies = {}
    BY <1>0, <1>3 DEF PruneLocals
  <2>3. p \in PolicyName /\ TaggedIfThere(p, air.spec.cluster)
    BY <1>0, <1>3 DEF PruneLocals, PrunePoints, RolePrunePoints, Locals
  <2>4. p \notin PoliciesOf(w.role) \cap PoliciesTagged(air.spec.cluster) BY <1>2, <2>2
  <2>5. <<w.role, p>> \notin attached \/ ~PolicyExists(p)
    BY <2>3, <2>4 DEF TaggedIfThere, PoliciesOf, AttachedTo, PoliciesTagged
  <2> QED BY <2>1, <2>5, DetachFrame
<1>4. CASE pc = "dropDetach"
  <2>1. w.role \in RoleName /\ w.role \notin RolesNamed(air.spec)
    BY <1>0, <1>4 DEF PruneLocals, ScopeAt, RolePoints
  <2>2. RoleExists(w.role) => roles[w.role].cluster = air.spec.cluster
    BY <1>0, <1>4 DEF DropInv, Droppable
  <2>3. ~RoleExists(w.role) BY <1>1, <2>1, <2>2
  <2>4. \A p \in w.pend : <<w.role, p>> \notin attached
    BY <1>0, <2>1, <2>3 DEF EndsExist, Locals
  <2>5. UNCHANGED iamVars \/ (\E p \in w.pend : DetachRolePolicy(p, w.role)) \/ DeleteRole(w.role)
    BY <1>4 DEF Change
  <2> QED BY <1>0, <2>3, <2>4, <2>5, DetachFrame, DeleteRoleFrame
<1>5. CASE pc \in PolicyPoints
  <2>1. /\ w.pol \in PolicyName /\ w.pol \notin PoliciesNamed(air.spec)
        /\ TaggedIfThere(w.pol, air.spec.cluster)
    BY <1>0, <1>5 DEF PruneLocals, ScopeAt
  <2>2. ~PolicyExists(w.pol) BY <1>1, <2>1 DEF TaggedIfThere
  <2>3. UNCHANGED iamVars \/ (\E e \in w.ents : DetachRolePolicy(w.pol, e)) \/ DeletePolicy(w.pol)
    BY <1>5 DEF Change, PolicyPoints
  <2> QED BY <1>0, <2>2, <2>3, DetachFrame, DeletePolicyFrame
<1>6. CASE pc \in {"createRole", "updateRole"}
  <2>1. /\ w.role \in RoleName /\ w.entry \in DOMAIN air.spec.roles
        /\ w.role = air.spec.roles[w.entry].name
    BY <1>0, <1>6 DEF ScopeAt, ProvideLocals, SyncRolePoints
  <2>2. RoleExists(w.role) /\ roles[w.role].trust = Trust(w.entry) BY <1>2, <2>1
  <2>3. Trust(w.entry) \in TrustDoc BY <1>0, <2>1, SpecFields DEF Trust, TrustDoc
  <2>4. \/ UNCHANGED iamVars
        \/ CreateRole(w.role, Trust(w.entry), air.spec.cluster)
        \/ UpdateRole(w.role, Trust(w.entry))
    BY <1>6 DEF Change
  <2> QED BY <1>0, <2>1, <2>2, <2>3, <2>4, CreateRoleFrame, UpdateRoleFrame
<1>7. CASE pc \in SyncPolicyPoints
  <2>1. /\ w.pol \in PolicyName /\ w.role \in RoleName /\ w.entry \in DOMAIN air.spec.roles
        /\ w.role = air.spec.roles[w.entry].name
        /\ w.item \in Wanted(air.spec, w.entry)
        /\ w.pol = air.spec.policies[w.item].name
    BY <1>0, <1>7 DEF ScopeAt, ProvideLocals, SyncRolePoints
  <2>2. /\ PolicyExists(w.pol) /\ <<w.role, w.pol>> \in attached
        /\ policies[w.pol].doc = air.spec.policies[w.item].doc
    BY <1>2, <2>1
  <2>3. pc \notin {"updDetach", "updDelete"} BY <1>0, <2>2 DEF ProvideLocals
  <2>4. UNCHANGED iamVars \/ CreateFromSpec \/ AttachRolePolicy(w.pol, w.role)
    BY <1>7, <2>3 DEF Change, SyncPolicyPoints
  <2>5. policies[w.pol] # None BY <2>2 DEF PolicyExists, InPath
  <2> QED BY <1>0, <2>1, <2>2, <2>4, <2>5, CreatePolicyFrame, AttachFrame DEF CreateFromSpec
<1> QED BY <1>3, <1>4, <1>5, <1>6, <1>7 DEF Change, PolicyPoints, SyncPolicyPoints

(* The README's idempotence.  The hypothesis is that of DropInvariance: a   *)
(* role that is listed, removed by others and created by others again      *)
(* outside the path is deleted though the account is in sync.              *)
THEOREM IdempotentHolds == ASSUME MaxDrift = 0 \/ MaxForeign = 0 PROVE Spec => Idempotent
<1> DEFINE Synced == pc \in SyncPoints /\ InSync(air.spec, w.arn)
<1>1. TypeInv /\ PassInv /\ DropInv /\ [Next]_vars
        => [Synced => UNCHANGED iamVars]_workerVars
  BY PassChange, ChangeNothing
<1>2. Spec => [][Synced => UNCHANGED iamVars]_workerVars
  BY <1>1, ScopeCorrect, PassInvariance, DropInvariance, PTL DEF Spec
<1> QED BY <1>2 DEF Idempotent

----------------------------------------------------------------------------
(* When nobody else removes anything: nothing strange is left              *)

(* A policy that carries the tags of cluster k, and where pruning leaves    *)
(* the ranges of PrunedAt.                                                 *)
Carries(p, k) == PolicyExists(p) /\ policies[p].cluster = k

(* PrunedAt, entity by entity.                                             *)
LEMMA PrunedFacts ==
    ASSUME NEW l \in BusyPoints, NEW x, NEW s, PrunedAt(l, x, s)
    PROVE  /\ \A r \in RoleName : RoleExists(r) /\ roles[r].cluster = s.cluster
                => r \in RolesNamed(s) \/ r \in RolesLeft(l, x)
           /\ \A p \in PolicyName : Carries(p, s.cluster)
                => /\ p \in PoliciesNamed(s) \/ p \in PoliciesLeft(l, x)
                   /\ l \in RolePrunePoints => p \in x.listed
           /\ \A e \in DOMAIN s.roles :
                \/ ~Ours(s.roles[e].name)
                \/ l \in {"staleRefs", "staleDetach"} /\ e \in x.todo
                \/ \A p \in PolicyName : <<s.roles[e].name, p>> \in attached /\ Carries(p, s.cluster)
                     => \/ p \in s.roles[e].policies
                        \/ l = "staleDetach" /\ s.roles[e].name = x.role /\ p \in x.pend
<1>1. /\ RolesTagged(s.cluster) \subseteq RolesNamed(s) \cup RolesLeft(l, x)
      /\ PoliciesTagged(s.cluster) \subseteq PoliciesNamed(s) \cup PoliciesLeft(l, x)
      /\ l \in RolePrunePoints => PoliciesTagged(s.cluster) \subseteq x.listed
      /\ \A e \in DOMAIN s.roles :
           LET r == s.roles[e].name IN
           \/ ~Ours(r)
           \/ l \in {"staleRefs", "staleDetach"} /\ e \in x.todo
           \/ PoliciesOf(r) \cap PoliciesTagged(s.cluster) \subseteq
                s.roles[e].policies \cup (IF l = "staleDetach" /\ r = x.role THEN x.pend ELSE {})
  BY DEF PrunedAt, BusyPoints
<1>2. \A r \in RoleName : RoleExists(r) /\ roles[r].cluster = s.cluster
        => r \in RolesNamed(s) \/ r \in RolesLeft(l, x)
  BY <1>1 DEF RolesTagged
<1>3. \A p \in PolicyName : Carries(p, s.cluster) => p \in PoliciesTagged(s.cluster)
  BY DEF PoliciesTagged, Carries
<1>4. ASSUME NEW e \in DOMAIN s.roles
      PROVE  \/ ~Ours(s.roles[e].name)
             \/ l \in {"staleRefs", "staleDetach"} /\ e \in x.todo
             \/ \A p \in PolicyName : <<s.roles[e].name, p>> \in attached /\ Carries(p, s.cluster)
                  => \/ p \in s.roles[e].policies
                     \/ l = "staleDetach" /\ s.roles[e].name = x.role /\ p \in x.pend
  <2>1. ASSUME NEW p \in PolicyName, <<s.roles[e].name, p>> \in attached, Carries(p, s.cluster)
        PROVE  p \in PoliciesOf(s.roles[e].name) \cap PoliciesTagged(s.cluster)
    BY <1>3, <2>1 DEF PoliciesOf, AttachedTo, Carries
  <2> QED BY <1>1, <2>1
<1> QED BY <1>1, <1>2, <1>3, <1>4

LEMMA PrunedNext ==
    ASSUME air'.spec = air.spec,
           At' \in BusyPoints =>
             /\ \A r \in RoleName : RoleExists(r)' /\ roles'[r].cluster = air.spec.cluster
                  => r \in RolesNamed(air.spec) \/ r \in RolesLeft(At', w')
             /\ \A p \in PolicyName : PolicyExists(p)' /\ policies'[p].cluster = air.spec.cluster
                  => /\ p \in PoliciesNamed(air.spec) \/ p \in PoliciesLeft(At', w')
                     /\ At' \in RolePrunePoints => p \in w'.listed
             /\ \A e \in DOMAIN air.spec.roles :
                  \/ ~InPath(roles'[air.spec.roles[e].name])
                  \/ At' \in {"staleRefs", "staleDetach"} /\ e \in w'.todo
                  \/ \A p \in PolicyName :
                       /\ <<air.spec.roles[e].name, p>> \in attached'
                       /\ PolicyExists(p)'
                       /\ policies'[p].cluster = air.spec.cluster
                       => \/ p \in air.spec.roles[e].policies
                          \/ At' = "staleDetach" /\ air.spec.roles[e].name = w'.role /\ p \in w'.pend
    PROVE  PrunedAt(At, w, air.spec)'
<1>1. CASE At' \notin BusyPoints BY <1>1 DEF PrunedAt, BusyPoints
<1>2. CASE At' \in BusyPoints
  <2>1. RolesTagged(air.spec.cluster)' \subseteq (RolesNamed(air.spec) \cup RolesLeft(At, w))'
    <3>1. \A r \in RolesTagged(air.spec.cluster)' :
            r \in RoleName /\ RoleExists(r)' /\ roles'[r].cluster = air.spec.cluster
      BY DEF RolesTagged, RoleExists
    <3>2. RolesNamed(air.spec)' = RolesNamed(air.spec) BY DEF RolesNamed
    <3>3. RolesLeft(At, w)' = RolesLeft(At', w') BY DEF RolesLeft
    <3> QED BY <1>2, <3>1, <3>2, <3>3
  <2>2. \A p \in PoliciesTagged(air.spec.cluster)' :
          p \in PolicyName /\ PolicyExists(p)' /\ policies'[p].cluster = air.spec.cluster
    BY DEF PoliciesTagged, PolicyExists
  <2>3. PoliciesTagged(air.spec.cluster)' \subseteq (PoliciesNamed(air.spec) \cup PoliciesLeft(At, w))'
    <3>1. PoliciesNamed(air.spec)' = PoliciesNamed(air.spec) BY DEF PoliciesNamed
    <3>2. PoliciesLeft(At, w)' = PoliciesLeft(At', w') BY DEF PoliciesLeft
    <3> QED BY <1>2, <2>2, <3>1, <3>2
  <2>4. At' \in RolePrunePoints => PoliciesTagged(air.spec.cluster)' \subseteq w'.listed
    BY <1>2, <2>2
  <2>5. ASSUME NEW e \in DOMAIN air.spec.roles
        PROVE  \/ ~Ours(air.spec.roles[e].name)'
               \/ At' \in {"staleRefs", "staleDetach"} /\ e \in w'.todo
               \/ (PoliciesOf(air.spec.roles[e].name) \cap PoliciesTagged(air.spec.cluster))' \subseteq
                    air.spec.roles[e].policies
                      \cup (IF At' = "staleDetach" /\ air.spec.roles[e].name = w'.role THEN w'.pend ELSE {})
    <3>1. ASSUME NEW p \in (PoliciesOf(air.spec.roles[e].name) \cap PoliciesTagged(air.spec.cluster))'
          PROVE  /\ p \in PolicyName /\ <<air.spec.roles[e].name, p>> \in attached'
                 /\ PolicyExists(p)' /\ policies'[p].cluster = air.spec.cluster
      BY <2>2, <3>1 DEF PoliciesOf, AttachedTo
    <3> QED BY <1>2, <3>1 DEF Ours, InPath
  <2> QED BY <2>1, <2>3, <2>4, <2>5 DEF PrunedAt
<1> QED BY <1>1, <1>2

(* Where a policy comes from.                                              *)
LEMMA PoliciesFrom ==
    ASSUME TypeInv, WithinBounds, [Next]_vars,
           NEW p \in PolicyName, policies'[p] # None
    PROVE  \/ policies[p] # None /\ policies'[p] = policies[p]
           \/ /\ pc \in {"createPolicy", "updCreate"} /\ p = w.pol /\ policies[p] = None
              /\ policies'[p].cluster \in Cluster
           \/ Foreign /\ MaxForeign > 0 /\ policies[p] = None /\ ~PolicyExists(p)'
<1>0. IAMTypeOK BY DEF TypeInv
<1>1. CASE UNCHANGED policies BY <1>1
<1>2. ASSUME NEW q, DeletePolicy(q) PROVE policies[p] # None /\ policies'[p] = policies[p]
  BY <1>0, <1>2, DeletePolicyFrame
<1>3. CASE pc \in SyncPoints /\ Change
  <2>1. CASE pc \in {"createPolicy", "updCreate"} /\ CreateFromSpec
    <3>1. w.pol \in PolicyName /\ air.spec.cluster \in Cluster
      BY <1>3, <2>1, PassFacts, SpecFields DEF ScopeAt, SyncPolicyPoints
    <3>2. /\ \A q \in PolicyName : q # w.pol => policies'[q] = policies[q]
          /\ policies'[w.pol] = IF policies[w.pol] # None THEN policies[w.pol]
                                ELSE [doc |-> air.spec.policies[w.item].doc,
                                      cluster |-> air.spec.cluster]
      BY <1>0, <2>1, <3>1, CreatePolicyFrame DEF CreateFromSpec
    <3> QED BY <2>1, <3>1, <3>2
  <2> QED
    BY <1>1, <1>2, <1>3, <2>1
    DEF Change, iamVars, DetachRolePolicy, DeleteRole, CreateRole, UpdateRole, AttachRolePolicy
<1>4. CASE Destroy
  BY <1>1, <1>2, <1>4
  DEF Destroy, DestroyRoles, DestroyDetach, DestroyPolicies, DestroyRole, DestroyFails,
      Unfinalize, DetachRolePolicy, DeleteRole, iamVars
<1>5. CASE OutOfBand BY <1>1, <1>2, <1>5 DEF OutOfBand, DetachRolePolicy, DeleteRole
<1>6. CASE Foreign /\ MaxForeign > 0
  <2>1. Grown BY <1>0, <1>6, ForeignGrows
  <2> QED BY <1>6, <2>1 DEF Grown, PolicyExists
<1> QED BY <1>1, <1>3, <1>4, <1>5, <1>6, AnyChange DEF iamVars

LEMMA OnlyOursStep ==
    ASSUME TypeInv, WithinBounds, [Next]_vars, MaxForeign = 0, OnlyOurs PROVE OnlyOurs'
<1>1. ASSUME NEW r \in RoleName, RoleExists(r)' PROVE Ours(r)'
  <2>1. roles'[r].cluster # None
    BY <1>1, RolesFrom, NoneAssumption DEF OnlyOurs, Ours, InPath
  <2> QED BY <1>1, <2>1 DEF Ours, InPath, RoleExists
<1>2. ASSUME NEW p \in PolicyName, policies'[p] # None PROVE PolicyExists(p)'
  <2>1. policies'[p].cluster # None
    BY <1>2, PoliciesFrom, NoneAssumption DEF OnlyOurs, PolicyExists, InPath
  <2> QED BY <1>2, <2>1 DEF PolicyExists, InPath
<1> QED BY <1>1, <1>2 DEF OnlyOurs

(* Pruning only takes away.                                                *)
Fewer == /\ \A r \in RoleName : RoleExists(r)' => RoleExists(r) /\ roles'[r] = roles[r]
         /\ PoliciesFade
         /\ attached' \subseteq attached

LEMMA PruneTakes == ASSUME TypeInv, Prune PROVE Fewer /\ At = pc /\ pc \in SyncPoints
<1>0. IAMTypeOK BY DEF TypeInv
<1>1. pc \in PrunePoints \cup {"list"}
  BY DEF Prune, List, StaleRefs, StaleDetach, DropRoles, DropDetach, DropPolicies, DropPolicy,
         DropEntities, DropEntityPolicy, PrunePoints, RolePrunePoints, PolicyPoints
<1>2. pc \in SyncPoints /\ At = pc
  BY <1>1 DEF PrunePoints, RolePrunePoints, PolicyPoints, SyncPoints, At
<1>3. \/ UNCHANGED iamVars
      \/ \E p, r : DetachRolePolicy(p, r)
      \/ \E r : DeleteRole(r)
      \/ \E p : DeletePolicy(p)
  BY <1>1, PruneChange DEF Change, PrunePoints, RolePrunePoints, PolicyPoints
<1>4. CASE UNCHANGED iamVars
  BY <1>2, <1>4 DEF Fewer, PoliciesFade, iamVars, RoleExists, PolicyExists
<1>5. ASSUME NEW p, NEW r, DetachRolePolicy(p, r) PROVE Fewer
  <2>1. UNCHANGED <<roles, policies>> /\ attached' \subseteq attached BY <1>5, DetachFrame
  <2> QED BY <2>1 DEF Fewer, PoliciesFade, RoleExists, PolicyExists
<1>6. ASSUME NEW r, DeleteRole(r) PROVE Fewer
  BY <1>0, <1>6, DeleteRoleFrame DEF Fewer, PoliciesFade, RoleExists, PolicyExists
<1>7. ASSUME NEW p, DeletePolicy(p) PROVE Fewer
  <2>1. /\ UNCHANGED <<roles, attached>>
        /\ \A q \in PolicyName : policies'[q] = IF q = p /\ PolicyExists(p) THEN None
                                                ELSE policies[q]
    BY <1>0, <1>7, DeletePolicyFrame
  <2>2. PoliciesFade BY <2>1 DEF PoliciesFade, PolicyExists, InPath
  <2> QED BY <2>1, <2>2 DEF Fewer, RoleExists
<1> QED BY <1>2, <1>3, <1>4, <1>5, <1>6, <1>7

LEMMA NothingProvided ==
    ASSUME At' \notin SyncRolePoints \cup {"syncRoles", "final", "return"}
    PROVE  ProvidedAt(At, w, air.spec)'
BY DEF ProvidedAt, SyncRolePoints, SyncPolicyPoints

(* From one point of a pruning to another: nothing that is left is         *)
(* forgotten.                                                              *)
LEMMA PruneGoesOn ==
    ASSUME Fewer, NEW l \in PrunePoints, PrunedAt(l, w, air.spec), air'.spec = air.spec,
           \A e \in DOMAIN air.spec.roles : air.spec.roles[e].name \in RoleName,
           l \in {"staleRefs", "staleDetach"} => l = "staleRefs" /\ w.todo = {},
           \A r \in RolesLeft(l, w) : r \in RolesLeft(At', w') \/ ~RoleExists(r)',
           \A p \in PoliciesLeft(l, w) : \/ p \in PoliciesLeft(At', w')
                                         \/ p \in PoliciesNamed(air.spec)
                                         \/ ~PolicyExists(p)',
           At' \in RolePrunePoints => l \in RolePrunePoints /\ w'.listed = w.listed
    PROVE  PrunedAt(At, w, air.spec)'
<1>1. l \in BusyPoints BY DEF BusyPoints
<1>2. \A p \in PolicyName : PolicyExists(p)' => PolicyExists(p) /\ policies'[p] = policies[p]
  BY DEF Fewer, PoliciesFade
<1>3. ASSUME NEW r \in RoleName, RoleExists(r)', roles'[r].cluster = air.spec.cluster
      PROVE  r \in RolesNamed(air.spec) \/ r \in RolesLeft(At', w')
  BY <1>1, <1>3, PrunedFacts DEF Fewer
<1>4. ASSUME NEW p \in PolicyName, PolicyExists(p)', policies'[p].cluster = air.spec.cluster
      PROVE  /\ p \in PoliciesNamed(air.spec) \/ p \in PoliciesLeft(At', w')
             /\ At' \in RolePrunePoints => p \in w'.listed
             /\ Carries(p, air.spec.cluster)
  <2>1. Carries(p, air.spec.cluster) BY <1>2, <1>4 DEF Carries
  <2> QED BY <1>1, <1>4, <2>1, PrunedFacts
<1>5. ASSUME NEW e \in DOMAIN air.spec.roles, NEW p \in PolicyName,
             air.spec.roles[e].name \in RoleName, InPath(roles'[air.spec.roles[e].name]),
             <<air.spec.roles[e].name, p>> \in attached', PolicyExists(p)',
             policies'[p].cluster = air.spec.cluster
      PROVE  p \in air.spec.roles[e].policies
  <2>1. Carries(p, air.spec.cluster) /\ <<air.spec.roles[e].name, p>> \in attached
    BY <1>4, <1>5 DEF Fewer
  <2>2. Ours(air.spec.roles[e].name) BY <1>5 DEF Fewer, Ours, InPath, RoleExists
  <2> QED BY <1>1, <2>1, <2>2, PrunedFacts
<1> QED BY <1>3, <1>4, <1>5, PrunedNext

(* The listing, and what it finds attached to the roles.                   *)
LEMMA StaleSync ==
    ASSUME TypeInv, PassInv, SyncInv, List \/ StaleRefs \/ StaleDetach
    PROVE  PrunedAt(At, w, air.spec)' /\ ProvidedAt(At, w, air.spec)'
<1>0. /\ At = pc /\ pc \in SyncPoints /\ Fewer /\ w \in Locals
      /\ w.listed \subseteq PolicyName /\ w.pend \subseteq PolicyName
      /\ air.spec \in Spec_ /\ ScopeAt(pc, w, air)
      /\ EndsExist /\ PruneLocals(pc, w, air.spec)
      /\ PrunedAt(pc, w, air.spec)
  BY PruneTakes, PassFacts DEF Prune, PassInv, SyncInv, Locals
<1>1. \A p \in PolicyName : PolicyExists(p)' => PolicyExists(p) /\ policies'[p] = policies[p]
  BY <1>0 DEF Fewer, PoliciesFade
<1>a. /\ \A e \in DOMAIN air.spec.roles : air.spec.roles[e].name \in RoleName
      /\ \A r \in RoleName : InPath(roles'[r]) => Ours(r)
  BY <1>0, SpecFields DEF Fewer, Ours, InPath, RoleExists
<1>2. ASSUME At' \in PrunePoints, PrunedAt(At, w, air.spec)'
      PROVE  PrunedAt(At, w, air.spec)' /\ ProvidedAt(At, w, air.spec)'
  <2>1. At' \notin SyncRolePoints \cup {"syncRoles", "final", "return"}
    BY <1>2 DEF PrunePoints, RolePrunePoints, PolicyPoints, SyncRolePoints, SyncPolicyPoints
  <2> QED BY <1>2, <2>1, NothingProvided
<1>3. CASE List
  <2> DEFINE x == [w EXCEPT !.listed = PoliciesTagged(air.spec.cluster),
                            !.dropRoles = UnwantedRoles, !.todo = DOMAIN air.spec.roles]
  <2>1. /\ x.listed = PoliciesTagged(air.spec.cluster) /\ x.dropRoles = UnwantedRoles
        /\ x.todo = DOMAIN air.spec.roles
    BY <1>0 DEF Locals
  <2>2. Goto("staleRefs", x) BY <1>3 DEF List
  <2> HIDE DEF x
  <2>3. At' = "staleRefs" /\ air' = air /\ w' = x BY <2>2, EndsMove
  <2>4. ASSUME NEW r \in RoleName, RoleExists(r)', roles'[r].cluster = air.spec.cluster
        PROVE  r \in RolesNamed(air.spec) \/ r \in RolesLeft(At', w')
    <3>1. r \in RolesTagged(air.spec.cluster) BY <1>0, <2>4 DEF Fewer, RolesTagged
    <3> QED BY <2>1, <2>3, <3>1 DEF RolesLeft, RolePrunePoints, UnwantedRoles, WantedRoles
  <2>5. ASSUME NEW p \in PolicyName, PolicyExists(p)', policies'[p].cluster = air.spec.cluster
        PROVE  p \in PoliciesLeft(At', w') /\ p \in w'.listed
    <3>1. p \in PoliciesTagged(air.spec.cluster) BY <1>1, <2>5 DEF PoliciesTagged
    <3> QED BY <2>1, <2>3, <3>1 DEF PoliciesLeft, PrunePoints, RolePrunePoints
  <2>6. PrunedAt(At, w, air.spec)' BY <2>1, <2>3, <2>4, <2>5, PrunedNext
  <2> QED BY <1>2, <2>3, <2>6 DEF PrunePoints, RolePrunePoints
<1>4. CASE StaleRefs
  <2>0. pc = "staleRefs" /\ pc \in PrunePoints /\ pc \in BusyPoints /\ pc \in RolePrunePoints
    BY <1>4 DEF StaleRefs, PrunePoints, RolePrunePoints, BusyPoints
  <2>1. CASE w.todo = {} /\ Goto("dropRoles", w)
    <3>1. At' = "dropRoles" /\ w' = w /\ air' = air BY <2>1, EndsMove
    <3>2. RolesLeft(pc, w) = RolesLeft(At', w') /\ PoliciesLeft(pc, w) = PoliciesLeft(At', w')
      BY <2>0, <3>1 DEF RolesLeft, PoliciesLeft, PrunePoints, RolePrunePoints
    <3>3. PrunedAt(At, w, air.spec)' BY <1>0, <1>a, <2>0, <2>1, <3>1, <3>2, PruneGoesOn
    <3> QED BY <1>2, <3>1, <3>3 DEF PrunePoints, RolePrunePoints
  <2>2. CASE Return(TRUE)
    <3>1. At' = "idle" BY <2>2, EndsMove
    <3> QED BY <3>1, NothingProvided
        DEF PrunedAt, PrunePoints, RolePrunePoints, PolicyPoints, SyncRolePoints, SyncPolicyPoints
  <2>3. ASSUME NEW e \in w.todo,
               Goto("staleDetach", [w EXCEPT !.todo = @ \ {e}, !.role = air.spec.roles[e].name,
                                             !.pend = Stale(e)])
        PROVE  PrunedAt(At, w, air.spec)' /\ ProvidedAt(At, w, air.spec)'
    <3> DEFINE x == [w EXCEPT !.todo = @ \ {e}, !.role = air.spec.roles[e].name, !.pend = Stale(e)]
    <3>1. /\ x.listed = w.listed /\ x.dropRoles = w.dropRoles /\ x.todo = w.todo \ {e}
          /\ x.role = air.spec.roles[e].name /\ x.pend = Stale(e)
      BY <1>0 DEF Locals
    <3>2. Goto("staleDetach", x) BY <2>3
    <3> HIDE DEF x
    <3>3. At' = "staleDetach" /\ air' = air /\ w' = x BY <3>2, EndsMove
    <3>4. RolesLeft(pc, w) = RolesLeft(At', w') /\ PoliciesLeft(pc, w) = PoliciesLeft(At', w')
      BY <2>0, <3>1, <3>3 DEF RolesLeft, PoliciesLeft, PrunePoints, RolePrunePoints
    <3>5. ASSUME NEW r \in RoleName, RoleExists(r)', roles'[r].cluster = air.spec.cluster
          PROVE  r \in RolesNamed(air.spec) \/ r \in RolesLeft(At', w')
      BY <1>0, <2>0, <3>4, <3>5, PrunedFacts DEF Fewer
    <3>6. ASSUME NEW p \in PolicyName, PolicyExists(p)', policies'[p].cluster = air.spec.cluster
          PROVE  /\ Carries(p, air.spec.cluster)
                 /\ p \in PoliciesNamed(air.spec) \/ p \in PoliciesLeft(At', w')
                 /\ p \in w'.listed
      <4>1. Carries(p, air.spec.cluster) BY <1>1, <3>6 DEF Carries
      <4> QED BY <1>0, <2>0, <3>1, <3>3, <3>4, <4>1, PrunedFacts
    <3>7. ASSUME NEW f \in DOMAIN air.spec.roles, f \notin w'.todo,
                 InPath(roles'[air.spec.roles[f].name]),
                 NEW p \in PolicyName, <<air.spec.roles[f].name, p>> \in attached',
                 PolicyExists(p)', policies'[p].cluster = air.spec.cluster
          PROVE  \/ p \in air.spec.roles[f].policies
                 \/ At' = "staleDetach" /\ air.spec.roles[f].name = w'.role /\ p \in w'.pend
      <4>1. Carries(p, air.spec.cluster) /\ p \in w.listed /\ <<air.spec.roles[f].name, p>> \in attached
        BY <1>0, <3>1, <3>3, <3>6, <3>7 DEF Fewer
      <4>2. CASE f = e
        <5>1. air.spec.roles[e].name \in RoleName BY <1>0, <3>7, <4>2, SpecFields
        <5>2. air.spec.roles[e].name \in EntitiesOf(p)
          BY <1>a, <3>7, <4>1, <4>2, <5>1 DEF EntitiesOf, HoldersOf, Ours
        <5> QED BY <3>1, <3>3, <4>1, <4>2, <5>2 DEF Stale, ListedOf
      <4>3. CASE f # e
        <5>1. f \notin w.todo BY <3>1, <3>3, <3>7, <4>3
        <5> QED BY <1>0, <1>a, <2>0, <3>7, <4>1, <5>1, PrunedFacts
      <4> QED BY <4>2, <4>3
    <3>8. PrunedAt(At, w, air.spec)' BY <3>3, <3>5, <3>6, <3>7, PrunedNext
    <3> QED BY <1>2, <3>3, <3>8 DEF PrunePoints, RolePrunePoints
  <2> QED BY <1>4, <2>1, <2>2, <2>3, Zenon DEF StaleRefs
<1>5. CASE StaleDetach
  <2>0. pc = "staleDetach" /\ pc \in PrunePoints /\ pc \in BusyPoints /\ pc \in RolePrunePoints
    BY <1>5 DEF StaleDetach, PrunePoints, RolePrunePoints, BusyPoints
  <2>1. ASSUME At' \in {"staleRefs", "staleDetach"}, air' = air,
               w'.listed = w.listed, w'.dropRoles = w.dropRoles, w'.todo = w.todo,
               \A p \in w.pend : \/ At' = "staleDetach" /\ w'.role = w.role /\ p \in w'.pend
                                 \/ PolicyExists(p) => <<w.role, p>> \notin attached'
        PROVE  PrunedAt(At, w, air.spec)' /\ ProvidedAt(At, w, air.spec)'
    <3>4. RolesLeft(pc, w) = RolesLeft(At', w') /\ PoliciesLeft(pc, w) = PoliciesLeft(At', w')
      BY <2>0, <2>1 DEF RolesLeft, PoliciesLeft, PrunePoints, RolePrunePoints
    <3>5. ASSUME NEW r \in RoleName, RoleExists(r)', roles'[r].cluster = air.spec.cluster
          PROVE  r \in RolesNamed(air.spec) \/ r \in RolesLeft(At', w')
      BY <1>0, <2>0, <3>4, <3>5, PrunedFacts DEF Fewer
    <3>6. ASSUME NEW p \in PolicyName, PolicyExists(p)', policies'[p].cluster = air.spec.cluster
          PROVE  /\ Carries(p, air.spec.cluster)
                 /\ p \in PoliciesNamed(air.spec) \/ p \in PoliciesLeft(At', w')
                 /\ p \in w'.listed
      <4>1. Carries(p, air.spec.cluster) BY <1>1, <3>6 DEF Carries
      <4> QED BY <1>0, <2>0, <2>1, <3>4, <4>1, PrunedFacts
    <3>7. ASSUME NEW f \in DOMAIN air.spec.roles, f \notin w'.todo,
                 InPath(roles'[air.spec.roles[f].name]),
                 NEW p \in PolicyName, <<air.spec.roles[f].name, p>> \in attached',
                 PolicyExists(p)', policies'[p].cluster = air.spec.cluster
          PROVE  \/ p \in air.spec.roles[f].policies
                 \/ At' = "staleDetach" /\ air.spec.roles[f].name = w'.role /\ p \in w'.pend
      <4>1. Carries(p, air.spec.cluster) /\ <<air.spec.roles[f].name, p>> \in attached
        BY <1>0, <3>6, <3>7 DEF Fewer
      <4>2. \/ p \in air.spec.roles[f].policies
            \/ air.spec.roles[f].name = w.role /\ p \in w.pend
        BY <1>0, <1>a, <2>0, <2>1, <3>7, <4>1, PrunedFacts
      <4> QED BY <2>1, <3>7, <4>1, <4>2 DEF Carries
    <3>8. PrunedAt(At, w, air.spec)' BY <2>1, <3>5, <3>6, <3>7, PrunedNext
    <3> QED BY <1>2, <2>1, <3>8 DEF PrunePoints, RolePrunePoints
  <2>2. CASE w.pend = {} /\ Goto("staleRefs", [w EXCEPT !.role = None])
    <3>1. /\ At' = "staleRefs" /\ air' = air /\ w'.listed = w.listed
          /\ w'.dropRoles = w.dropRoles /\ w'.todo = w.todo
      BY <1>0, <2>2, EndsMove DEF Locals
    <3> QED BY <2>1, <2>2, <3>1
  <2>3. ASSUME NEW p \in w.pend, DetachRolePolicy(p, w.role),
               Report("Provisioned", Policy(p), "staleDetach", [w EXCEPT !.pend = @ \ {p}])
        PROVE  PrunedAt(At, w, air.spec)' /\ ProvidedAt(At, w, air.spec)'
    <3>1. /\ At' = "staleDetach" /\ air' = air /\ w'.listed = w.listed
          /\ w'.dropRoles = w.dropRoles /\ w'.todo = w.todo
          /\ w'.role = w.role /\ w'.pend = w.pend \ {p}
      BY <1>0, <2>3, EndsMove DEF Locals
    <3>2. PolicyExists(p) => <<w.role, p>> \notin attached' BY <2>3, DetachFrame
    <3> QED BY <2>1, <3>1, <3>2
  <2> QED BY <1>5, <2>2, <2>3, Zenon DEF StaleDetach
<1> QED BY <1>3, <1>4, <1>5

(* The deletion of roles and of policies, and the way on to syncRole.      *)
LEMMA DropSync ==
    ASSUME TypeInv, SyncInv,
           DropRoles \/ DropDetach \/ DropPolicies \/ DropPolicy \/ DropEntities \/ DropEntityPolicy
    PROVE  PrunedAt(At, w, air.spec)' /\ ProvidedAt(At, w, air.spec)'
<1>0. /\ At = pc /\ Fewer /\ w \in Locals /\ IAMTypeOK
      /\ PrunedAt(pc, w, air.spec)
      /\ w.dropRoles \subseteq RoleName /\ w.listed \subseteq PolicyName
      /\ ScopeAt(pc, w, air)
      /\ \A e \in DOMAIN air.spec.roles : air.spec.roles[e].name \in RoleName
  BY PruneTakes, PassFacts, SpecFields DEF Prune, SyncInv, Locals
<1>1. pc \in PrunePoints /\ pc \notin {"staleRefs", "staleDetach"}
  BY DEF DropRoles, DropDetach, DropPolicies, DropPolicy, DropEntities, DropEntityPolicy,
         PrunePoints, RolePrunePoints, PolicyPoints
<1>2. ASSUME At' \in PrunePoints, PrunedAt(At, w, air.spec)'
      PROVE  PrunedAt(At, w, air.spec)' /\ ProvidedAt(At, w, air.spec)'
  <2>1. At' \notin SyncRolePoints \cup {"syncRoles", "final", "return"}
    BY <1>2 DEF PrunePoints, RolePrunePoints, PolicyPoints, SyncRolePoints, SyncPolicyPoints
  <2> QED BY <1>2, <2>1, NothingProvided
<1>3. ASSUME At' = "idle" PROVE PrunedAt(At, w, air.spec)' /\ ProvidedAt(At, w, air.spec)'
  <2>1. At' \notin BusyPoints /\ At' \notin SyncRolePoints \cup {"syncRoles", "final", "return"}
    BY <1>3 DEF BusyPoints, PrunePoints, RolePrunePoints, PolicyPoints, SyncRolePoints,
                SyncPolicyPoints
  <2> QED BY <2>1, NothingProvided DEF PrunedAt, BusyPoints
<1>4. ASSUME At' \in PrunePoints, air' = air,
             \A r \in RolesLeft(pc, w) : r \in RolesLeft(At', w') \/ ~RoleExists(r)',
             \A p \in PoliciesLeft(pc, w) : \/ p \in PoliciesLeft(At', w')
                                            \/ p \in PoliciesNamed(air.spec)
                                            \/ ~PolicyExists(p)',
             At' \in RolePrunePoints => pc \in RolePrunePoints /\ w'.listed = w.listed
      PROVE  PrunedAt(At, w, air.spec)' /\ ProvidedAt(At, w, air.spec)'
  <2>1. PrunedAt(At, w, air.spec)' BY <1>0, <1>1, <1>4, PruneGoesOn
  <2> QED BY <1>2, <1>4, <2>1
<1>5. /\ \A x : RolesLeft("dropRoles", x) = x.dropRoles
      /\ \A x : RolesLeft("dropDetach", x) = x.dropRoles \cup {x.role}
      /\ \A x : \A l \in PolicyPoints \cup {"dropPolicies", "syncRoles"} : RolesLeft(l, x) = {}
      /\ \A x : \A l \in {"dropRoles", "dropDetach", "dropPolicies"} : PoliciesLeft(l, x) = x.listed
      /\ \A x : \A l \in {"dropPolicy", "dropEntityPolicy"} : PoliciesLeft(l, x) = x.listed \cup {x.pol}
      /\ \A x : PoliciesLeft("dropEntities", x) = IF x.ents = {} THEN x.listed ELSE x.listed \cup {x.pol}
      /\ \A x : PoliciesLeft("syncRoles", x) = {}
  BY DEF RolesLeft, PoliciesLeft, PrunePoints, RolePrunePoints, PolicyPoints
<1>6. CASE DropRoles
  <2>0. pc = "dropRoles" /\ pc \in RolePrunePoints /\ UNCHANGED iamVars
    BY <1>6 DEF DropRoles, RolePrunePoints
  <2>1. CASE w.dropRoles = {} /\ Goto("dropPolicies", [w EXCEPT !.listed = UnwantedPolicies])
    <3>1. At' = "dropPolicies" /\ air' = air /\ w'.listed = w.listed \ PoliciesNamed(air.spec)
      BY <1>0, <2>1, EndsMove DEF Locals, UnwantedPolicies, WantedPolicies
    <3>2. At' \in PrunePoints /\ At' \notin RolePrunePoints
      BY <3>1 DEF PrunePoints, RolePrunePoints
    <3> QED BY <1>4, <1>5, <2>0, <2>1, <3>1, <3>2
  <2>2. ASSUME NEW r \in w.dropRoles, ~RoleExists(r),
               Goto("dropRoles", [w EXCEPT !.dropRoles = @ \ {r}])
        PROVE  PrunedAt(At, w, air.spec)' /\ ProvidedAt(At, w, air.spec)'
    <3>1. /\ At' = "dropRoles" /\ air' = air /\ w'.listed = w.listed
          /\ w'.dropRoles = w.dropRoles \ {r}
      BY <1>0, <2>2, EndsMove DEF Locals
    <3>2. ~RoleExists(r)' BY <2>0, <2>2 DEF RoleExists, iamVars
    <3>3. At' \in PrunePoints BY <3>1 DEF PrunePoints, RolePrunePoints
    <3>4. \A q \in RolesLeft(pc, w) : q \in RolesLeft(At', w') \/ ~RoleExists(q)'
      BY <1>5, <2>0, <3>1, <3>2 DEF RoleExists
    <3> QED BY <1>4, <1>5, <2>0, <3>1, <3>3, <3>4
  <2>3. ASSUME NEW r \in w.dropRoles,
               Goto("dropDetach", [[w EXCEPT !.dropRoles = @ \ {r}]
                                     EXCEPT !.role = r, !.pend = PoliciesOf(r)])
        PROVE  PrunedAt(At, w, air.spec)' /\ ProvidedAt(At, w, air.spec)'
    <3> DEFINE x == [[w EXCEPT !.dropRoles = @ \ {r}] EXCEPT !.role = r, !.pend = PoliciesOf(r)]
    <3>1. x.dropRoles = w.dropRoles \ {r} /\ x.role = r /\ x.listed = w.listed
      BY <1>0 DEF Locals
    <3>2. Goto("dropDetach", x) BY <2>3
    <3> HIDE DEF x
    <3>3. At' = "dropDetach" /\ air' = air /\ w' = x BY <3>2, EndsMove
    <3>4. At' \in PrunePoints BY <3>3 DEF PrunePoints, RolePrunePoints
    <3>5. RolesLeft(pc, w) \subseteq RolesLeft(At', w') BY <1>5, <2>0, <3>1, <3>3
    <3>6. PoliciesLeft(pc, w) = PoliciesLeft(At', w') BY <1>5, <2>0, <3>1, <3>3
    <3> QED BY <1>4, <2>0, <3>1, <3>3, <3>4, <3>5, <3>6
  <2> QED BY <1>6, <2>1, <2>2, <2>3, Zenon DEF DropRoles
<1>7. CASE DropDetach
  <2>0. pc = "dropDetach" /\ pc \in RolePrunePoints BY <1>7 DEF DropDetach, RolePrunePoints
  <2>1. ASSUME NEW p \in w.pend,
               Report("Provisioned", Policy(p), "dropDetach", [w EXCEPT !.pend = @ \ {p}])
        PROVE  PrunedAt(At, w, air.spec)' /\ ProvidedAt(At, w, air.spec)'
    <3>1. /\ At' = "dropDetach" /\ air' = air /\ w'.listed = w.listed
          /\ w'.dropRoles = w.dropRoles /\ w'.role = w.role
      BY <1>0, <2>1, EndsMove DEF Locals
    <3>2. At' \in PrunePoints BY <3>1 DEF PrunePoints, RolePrunePoints
    <3>3. RolesLeft(pc, w) = RolesLeft(At', w') /\ PoliciesLeft(pc, w) = PoliciesLeft(At', w')
      BY <1>5, <2>0, <3>1
    <3> QED BY <1>4, <2>0, <3>1, <3>2, <3>3
  <2>2. CASE ReturnError BY <1>3, <2>2, EndsMove
  <2>3. CASE DeleteRole(w.role) /\ Report("Provisioned", Role(w.role), "dropRoles", [w EXCEPT !.role = None])
    <3>1. At' = "dropRoles" /\ air' = air /\ w'.listed = w.listed /\ w'.dropRoles = w.dropRoles
      BY <1>0, <2>3, EndsMove DEF Locals
    <3>2. At' \in PrunePoints BY <3>1 DEF PrunePoints, RolePrunePoints
    <3>3. w.role \in RoleName BY <1>0, <2>0 DEF ScopeAt, RolePoints
    <3>4. roles'[w.role] = None BY <1>0, <2>3, <3>3, DeleteRoleFrame
    <3>5. \A q \in RolesLeft(pc, w) : q \in RolesLeft(At', w') \/ ~RoleExists(q)'
      BY <1>5, <2>0, <3>1, <3>4 DEF RoleExists
    <3>6. PoliciesLeft(pc, w) = PoliciesLeft(At', w') BY <1>5, <2>0, <3>1
    <3> QED BY <1>4, <2>0, <3>1, <3>2, <3>5, <3>6
  <2> QED BY <1>7, <2>1, <2>2, <2>3, Zenon DEF DropDetach
<1>8. CASE DropPolicies
  <2>0. pc = "dropPolicies" /\ UNCHANGED iamVars BY <1>8 DEF DropPolicies
  <2>1. CASE w.listed = {} /\ Goto("syncRoles", [w EXCEPT !.todo = DOMAIN air.spec.roles])
    <3>1. At' = "syncRoles" /\ air' = air /\ w'.todo = DOMAIN air.spec.roles
      BY <1>0, <2>1, EndsMove DEF Locals
    <3>2. At' \notin RolePrunePoints /\ At' \notin SyncRolePoints /\ At' \notin SyncPolicyPoints
      BY <3>1 DEF RolePrunePoints, SyncRolePoints, SyncPolicyPoints
    <3>3. RolesLeft(pc, w) = {} /\ PoliciesLeft(pc, w) = {} BY <1>5, <2>0, <2>1
    <3>4. PrunedAt(At, w, air.spec)' BY <1>0, <1>1, <3>1, <3>2, <3>3, PruneGoesOn
    <3>5. ProvidedAt(At, w, air.spec)' BY <3>1, <3>2 DEF ProvidedAt
    <3> QED BY <3>4, <3>5
  <2>2. ASSUME NEW p \in w.listed, ~PolicyExists(p),
               Goto("dropPolicies", [w EXCEPT !.listed = @ \ {p}])
        PROVE  PrunedAt(At, w, air.spec)' /\ ProvidedAt(At, w, air.spec)'
    <3>1. At' = "dropPolicies" /\ air' = air /\ w'.listed = w.listed \ {p}
      BY <1>0, <2>2, EndsMove DEF Locals
    <3>2. At' \in PrunePoints /\ At' \notin RolePrunePoints BY <3>1 DEF PrunePoints, RolePrunePoints
    <3>3. ~PolicyExists(p)' BY <2>0, <2>2 DEF PolicyExists, iamVars
    <3>4. \A q \in PoliciesLeft(pc, w) : q \in PoliciesLeft(At', w') \/ ~PolicyExists(q)'
      BY <1>5, <2>0, <3>1, <3>3 DEF PolicyExists
    <3> QED BY <1>4, <1>5, <2>0, <3>1, <3>2, <3>4
  <2>3. ASSUME NEW p \in w.listed, NEW l \in {"dropPolicy", "dropEntities"},
               l = "dropEntities" => EntitiesOf(p) # {},
               Goto(l, [[w EXCEPT !.listed = @ \ {p}] EXCEPT !.pol = p, !.ents = EntitiesOf(p)])
        PROVE  PrunedAt(At, w, air.spec)' /\ ProvidedAt(At, w, air.spec)'
    <3> DEFINE x == [[w EXCEPT !.listed = @ \ {p}] EXCEPT !.pol = p, !.ents = EntitiesOf(p)]
    <3>1. x.listed = w.listed \ {p} /\ x.pol = p /\ x.ents = EntitiesOf(p) BY <1>0 DEF Locals
    <3>2. Goto(l, x) BY <2>3
    <3> HIDE DEF x
    <3>3. At' = l /\ air' = air /\ w' = x BY <3>2, EndsMove
    <3>4. At' \in PrunePoints /\ At' \notin RolePrunePoints
      BY <3>3 DEF PrunePoints, RolePrunePoints, PolicyPoints
    <3>5. PoliciesLeft(l, x) = x.listed \cup {x.pol} BY <1>5, <2>3, <3>1
    <3>6. PoliciesLeft(pc, w) \subseteq PoliciesLeft(At', w') BY <1>5, <2>0, <3>1, <3>3, <3>5
    <3>7. RolesLeft(pc, w) = {} BY <1>5, <2>0
    <3> QED BY <1>4, <3>3, <3>4, <3>6, <3>7
  <2>4. \/ w.listed = {} /\ Goto("syncRoles", [w EXCEPT !.todo = DOMAIN air.spec.roles])
        \/ \E p \in w.listed :
             LET rest == [w EXCEPT !.listed = @ \ {p}]
                 at   == [rest EXCEPT !.pol = p, !.ents = EntitiesOf(p)]
             IN \/ ~PolicyExists(p) /\ Goto("dropPolicies", rest)
                \/ \E l \in {"dropPolicy", "dropEntities"} :
                     (l = "dropEntities" => EntitiesOf(p) # {}) /\ Goto(l, at)
    <3>1. \A p : [[w EXCEPT !.listed = @ \ {p}] EXCEPT !.pol = p, !.ents = EntitiesOf(p)].ents
                   = EntitiesOf(p)
      BY <1>0 DEF Locals
    <3> QED BY <1>8, <3>1 DEF DropPolicies
  <2> QED BY <2>1, <2>2, <2>3, <2>4, Zenon
<1>9. ASSUME pc \in {"dropPolicy", "dropEntityPolicy"}, NEW l \in {"dropPolicies", "dropEntities"},
             DropPolicyThen(l)
      PROVE  PrunedAt(At, w, air.spec)' /\ ProvidedAt(At, w, air.spec)'
  <2>1. CASE ReturnError BY <1>3, <2>1, EndsMove
  <2>2. CASE /\ DeletePolicy(w.pol)
             /\ Report("Provisioned", Policy(w.pol), l,
                       IF l = "dropPolicies" THEN [w EXCEPT !.pol = None] ELSE w)
    <3>1. At' = l /\ air' = air
          /\ w' = IF l = "dropPolicies" THEN [w EXCEPT !.pol = None] ELSE w
      BY <2>2, EndsMove
    <3>2. w'.listed = w.listed BY <1>0, <3>1 DEF Locals
    <3>3. At' \in PrunePoints /\ At' \notin RolePrunePoints
      BY <3>1 DEF PrunePoints, RolePrunePoints, PolicyPoints
    <3>4. w.pol \in PolicyName BY <1>0, <1>9 DEF ScopeAt, PolicyPoints
    <3>5. \A q : q = w.pol => ~PolicyExists(q)'
      <4>1. policies'[w.pol] = IF PolicyExists(w.pol) THEN None ELSE policies[w.pol]
        BY <1>0, <2>2, <3>4, DeletePolicyFrame
      <4>2. ~InPath(policies'[w.pol]) BY <4>1 DEF PolicyExists, InPath
      <4> QED BY <4>2 DEF PolicyExists, InPath
    <3>6. w.listed \subseteq PoliciesLeft(At', w') BY <1>5, <3>1, <3>2
    <3>7. PoliciesLeft(pc, w) = w.listed \cup {w.pol} /\ RolesLeft(pc, w) = {}
      BY <1>5, <1>9 DEF PolicyPoints
    <3> QED BY <1>4, <3>1, <3>3, <3>5, <3>6, <3>7
  <2> QED BY <1>9, <2>1, <2>2, Zenon DEF DropPolicyThen
<1>10. CASE DropPolicy \/ DropEntityPolicy BY <1>9, <1>10 DEF DropPolicy, DropEntityPolicy
<1>11. CASE DropEntities
  <2>0. pc = "dropEntities" /\ RolesLeft(pc, w) = {} BY <1>5, <1>11 DEF DropEntities, PolicyPoints
  <2>1. CASE w.ents = {} /\ Goto("dropPolicies", [w EXCEPT !.pol = None])
    <3>1. At' = "dropPolicies" /\ air' = air /\ w'.listed = w.listed
      BY <1>0, <2>1, EndsMove DEF Locals
    <3>2. At' \in PrunePoints /\ At' \notin RolePrunePoints BY <3>1 DEF PrunePoints, RolePrunePoints
    <3>3. PoliciesLeft(pc, w) = PoliciesLeft(At', w') BY <1>5, <2>0, <2>1, <3>1
    <3> QED BY <1>4, <2>0, <3>1, <3>2, <3>3
  <2>2. ASSUME NEW e \in w.ents, Goto("dropEntityPolicy", [w EXCEPT !.ents = @ \ {e}])
        PROVE  PrunedAt(At, w, air.spec)' /\ ProvidedAt(At, w, air.spec)'
    <3>1. /\ At' = "dropEntityPolicy" /\ air' = air
          /\ w'.listed = w.listed /\ w'.pol = w.pol
      BY <1>0, <2>2, EndsMove DEF Locals
    <3>2. At' \in PrunePoints /\ At' \notin RolePrunePoints
      BY <3>1 DEF PrunePoints, RolePrunePoints, PolicyPoints
    <3>3. PoliciesLeft(pc, w) = PoliciesLeft(At', w') BY <1>5, <2>0, <2>2, <3>1
    <3> QED BY <1>4, <2>0, <3>1, <3>2, <3>3
  <2> QED BY <1>11, <2>1, <2>2, Zenon DEF DropEntities
<1> QED BY <1>6, <1>7, <1>8, <1>10, <1>11

----------------------------------------------------------------------------
(* While the roles and policies are provided: pruning stays done           *)

(* Where an attachment comes from.                                         *)
LEMMA AttachedFrom ==
    ASSUME TypeInv, WithinBounds, [Next]_vars,
           NEW r, NEW p, <<r, p>> \in attached', <<r, p>> \notin attached, PolicyExists(p)'
    PROVE  pc \in {"attachNew", "updAttach", "attach"} /\ r = w.role /\ p = w.pol
<1>1. ~UNCHANGED attached OBVIOUS
<1>2. \A q, x : ~DetachRolePolicy(q, x) BY DEF DetachRolePolicy
<1>3. CASE pc \in SyncPoints /\ Change
  <2>1. pc \in {"attachNew", "updAttach", "attach"} /\ AttachRolePolicy(w.pol, w.role)
    BY <1>1, <1>2, <1>3
    DEF Change, iamVars, DeleteRole, DeletePolicy, CreateRole, UpdateRole, CreateFromSpec,
        CreatePolicy
  <2>2. <<r, p>> = <<w.role, w.pol>> BY <2>1 DEF AttachRolePolicy
  <2> QED BY <2>1, <2>2
<1>4. ~Destroy
  BY <1>1, <1>2
  DEF Destroy, DestroyRoles, DestroyDetach, DestroyPolicies, DestroyRole, DestroyFails,
      Unfinalize, DeleteRole, DeletePolicy, iamVars
<1>5. ~OutOfBand BY <1>1, <1>2 DEF OutOfBand, DeleteRole, DeletePolicy
<1>6. ~Foreign
  <2>1. IAMTypeOK BY DEF TypeInv
  <2>2. Foreign => Grown BY <2>1, ForeignGrows
  <2> QED BY <2>2 DEF Grown, PolicyExists
<1> QED BY <1>1, <1>3, <1>4, <1>5, <1>6, AnyChange DEF iamVars

LEMMA ProvidePruned ==
    ASSUME DistinctNames, TypeInv, WithinBounds, PassInv, ProtocolInv, SyncInv,
           [Next]_vars, pc \in SyncRolePoints \cup {"syncRoles", "final"}, air'.spec = air.spec
    PROVE  At' \notin PrunePoints => PrunedAt(At, w, air.spec)'
<1>0. /\ At = pc /\ pc \in BusyPoints
      /\ pc \notin PrunePoints /\ pc \notin {"staleRefs", "staleDetach"}
      /\ pc \notin {"dropDetach", "dropPolicy", "dropEntityPolicy", "dropEntities"}
  BY DEF At, BusyPoints, PrunePoints, RolePrunePoints, PolicyPoints, SyncRolePoints,
         SyncPolicyPoints
<1>1. /\ PrunedAt(pc, w, air.spec) /\ EndsExist BY <1>0 DEF SyncInv, PassInv
<1>2. RolesLeft(pc, w) = {} /\ PoliciesLeft(pc, w) = {}
  BY <1>0 DEF RolesLeft, PoliciesLeft, PrunePoints
<1>3. pc \in SyncRolePoints =>
        /\ pc \in SyncPoints
        /\ w.entry \in DOMAIN air.spec.roles /\ w.role = air.spec.roles[w.entry].name
        /\ pc \in SyncPolicyPoints => /\ w.item \in Wanted(air.spec, w.entry)
                                      /\ w.pol = air.spec.policies[w.item].name
  <2>1. pc \in SyncRolePoints => pc \in SyncPoints
    BY DEF SyncRolePoints, SyncPolicyPoints, SyncPoints
  <2> QED BY <1>0, <2>1, PassFacts DEF ScopeAt, PassInv, ProvideLocals
<1>a. air.spec \in Spec_
  <2>1. air \in Object BY <1>0, ScopeThere DEF ScopeAt, SyncRolePoints, SyncPolicyPoints
  <2> QED BY <2>1, ObjectSpec
<1>4. ASSUME NEW r \in RoleName, RoleExists(r)', roles'[r].cluster = air.spec.cluster
      PROVE  r \in RolesNamed(air.spec)
  <2>1. CASE RoleExists(r) /\ roles'[r].cluster = roles[r].cluster
    BY <1>0, <1>1, <1>2, <1>4, <2>1, PrunedFacts
  <2>2. CASE pc = "createRole" /\ r = w.role
    BY <1>3, <2>2 DEF SyncRolePoints, RolesNamed
  <2> QED BY <1>4, <1>a, <2>1, <2>2, RolesFrom, SpecFields, NoneAssumption
<1>5. ASSUME NEW p \in PolicyName, PolicyExists(p)', policies'[p].cluster = air.spec.cluster
      PROVE  p \in PoliciesNamed(air.spec)
  <2>1. CASE policies[p] # None /\ policies'[p] = policies[p]
    <3>1. Carries(p, air.spec.cluster) BY <1>5, <2>1 DEF Carries, PolicyExists
    <3> QED BY <1>0, <1>1, <1>2, <3>1, PrunedFacts
  <2>2. CASE pc \in {"createPolicy", "updCreate"} /\ p = w.pol
    BY <1>3, <2>2 DEF SyncRolePoints, SyncPolicyPoints, PoliciesNamed, Wanted
  <2>3. policies'[p] # None BY <1>5 DEF PolicyExists, InPath
  <2> QED BY <1>5, <2>1, <2>2, <2>3, PoliciesFrom
<1>6. ASSUME NEW e \in DOMAIN air.spec.roles, NEW p \in PolicyName,
             InPath(roles'[air.spec.roles[e].name]),
             <<air.spec.roles[e].name, p>> \in attached', PolicyExists(p)',
             policies'[p].cluster = air.spec.cluster
      PROVE  p \in air.spec.roles[e].policies
  <2>1. CASE <<air.spec.roles[e].name, p>> \in attached
    <3>1. air.spec.roles[e].name \in RoleName BY <1>a, SpecFields
    <3>2. policies[p] # None /\ RoleExists(air.spec.roles[e].name)
      BY <1>1, <2>1, <3>1 DEF EndsExist
    <3>3. policies'[p] # None BY <1>6 DEF PolicyExists, InPath
    <3>4. policies'[p] = policies[p] BY <3>2, <3>3, PoliciesFrom
    <3>5. Carries(p, air.spec.cluster) BY <1>6, <3>4 DEF Carries, PolicyExists
    <3>6. Ours(air.spec.roles[e].name)
      BY <1>6, <3>1, <3>2, RolesFrom DEF Ours, InPath, RoleExists
    <3> QED BY <1>0, <1>1, <2>1, <3>5, <3>6, PrunedFacts
  <2>2. CASE <<air.spec.roles[e].name, p>> \notin attached
    <3>1. pc \in {"attachNew", "updAttach", "attach"} /\ air.spec.roles[e].name = w.role /\ p = w.pol
      BY <1>6, <2>2, AttachedFrom
    <3>2. pc \in SyncRolePoints /\ pc \in SyncPolicyPoints
      BY <3>1 DEF SyncRolePoints, SyncPolicyPoints
    <3>3. e = w.entry BY <1>3, <3>1, <3>2, DistinctAtHand
    <3> QED BY <1>3, <3>1, <3>2, <3>3 DEF Wanted
  <2> QED BY <2>1, <2>2
<1>7. ASSUME At' \notin PrunePoints PROVE PrunedAt(At, w, air.spec)'
  <2>1. At' \notin RolePrunePoints BY <1>7 DEF PrunePoints
  <2> QED BY <1>4, <1>5, <1>6, <2>1, PrunedNext
<1> QED BY <1>7
----------------------------------------------------------------------------
(* While the roles and policies are provided: what has been provided stays *)

(* RoleProvided, PolicyProvided, PairProvided and EntryProvided after the  *)
(* step.                                                                   *)
RoleNext(e) == /\ roles'[air.spec.roles[e].name] # None
               /\ roles'[air.spec.roles[e].name].trust = Trust(e)
PolicyNext(i) == /\ InPath(policies'[air.spec.policies[i].name])
                 /\ policies'[air.spec.policies[i].name].doc = air.spec.policies[i].doc
PairNext(e, i) == /\ PolicyNext(i)
                  /\ <<air.spec.roles[e].name, air.spec.policies[i].name>> \in attached'
EntryNext(e) == RoleNext(e) /\ \A i \in Wanted(air.spec, e) : PairNext(e, i)

LEMMA NextMeans ==
    ASSUME air'.spec = air.spec, w'.arn = w.arn
    PROVE  /\ \A e : RoleNext(e) => RoleProvided(air.spec, e, w.arn)'
           /\ \A i : PolicyNext(i) => PolicyProvided(air.spec, i)'
           /\ \A e, i : PairNext(e, i) => PairProvided(air.spec, e, i)'
           /\ \A e : EntryNext(e) => EntryProvided(air.spec, e, w.arn)'
<1>1. \A e : RoleNext(e) => RoleProvided(air.spec, e, w.arn)'
  BY DEF RoleNext, RoleProvided, RoleExists, Trust
<1>2. \A i : PolicyNext(i) => PolicyProvided(air.spec, i)'
  BY DEF PolicyNext, PolicyProvided, PolicyExists, InPath
<1>3. \A e, i : PairNext(e, i) => PairProvided(air.spec, e, i)'
  BY <1>2 DEF PairNext, PairProvided
<1>4. ASSUME NEW e, EntryNext(e) PROVE EntryProvided(air.spec, e, w.arn)'
  <2>1. Wanted(air.spec, e)' = Wanted(air.spec, e) BY DEF Wanted
  <2> QED BY <1>1, <1>3, <1>4, <2>1 DEF EntryNext, EntryProvided
<1> QED BY <1>1, <1>2, <1>3, <1>4

LEMMA ProvideKeeps ==
    ASSUME DistinctNames, TypeInv, PassInv, ProtocolInv, pc \in SyncRolePoints, Change
    PROVE  /\ \A e \in DOMAIN air.spec.roles : RoleProvided(air.spec, e, w.arn) => RoleNext(e)
           /\ \A i \in DOMAIN air.spec.policies : PolicyProvided(air.spec, i) => PolicyNext(i)
           /\ \A e \in DOMAIN air.spec.roles, i \in DOMAIN air.spec.policies :
                PairProvided(air.spec, e, i) => PairNext(e, i)
           /\ \A e \in DOMAIN air.spec.roles : EntryProvided(air.spec, e, w.arn) => EntryNext(e)
<1>0. pc \in SyncPoints BY DEF SyncRolePoints, SyncPolicyPoints, SyncPoints
<1>1. /\ At = pc /\ IAMTypeOK /\ air.spec \in Spec_ /\ ScopeAt(pc, w, air)
      /\ ProvideLocals(pc, w, air.spec)
  BY <1>0, PassFacts DEF PassInv
<1>2. /\ \A e, f \in DOMAIN air.spec.roles :
           air.spec.roles[e].name = air.spec.roles[f].name => e = f
      /\ \A i, j \in DOMAIN air.spec.policies :
           air.spec.policies[i].name = air.spec.policies[j].name => i = j
  BY <1>0, DistinctAtHand
<1>3. /\ w.role \in RoleName /\ w.entry \in DOMAIN air.spec.roles
      /\ w.role = air.spec.roles[w.entry].name
      /\ pc \in SyncPolicyPoints => /\ w.pol \in PolicyName /\ w.item \in DOMAIN air.spec.policies
                                    /\ w.pol = air.spec.policies[w.item].name
  BY <1>1 DEF ScopeAt, ProvideLocals
<1>4. pc \in {"updDetach", "updDelete"} => ~PolicyProvided(air.spec, w.item)
  BY <1>1, <1>3 DEF ProvideLocals, PolicyProvided, SyncPolicyPoints
<1>5. /\ \A e \in DOMAIN air.spec.roles : air.spec.roles[e].name \in RoleName
      /\ \A i \in DOMAIN air.spec.policies : air.spec.policies[i].name \in PolicyName
  BY <1>1, SpecFields
<1>6. ASSUME NEW e \in DOMAIN air.spec.roles, RoleProvided(air.spec, e, w.arn)
      PROVE  RoleNext(e)
  <2>1. CASE UNCHANGED roles BY <1>6, <2>1 DEF RoleProvided, RoleNext, RoleExists, Trust
  <2>2. CASE pc = "createRole" /\ CreateRole(w.role, Trust(w.entry), air.spec.cluster)
    <3>1. \A x \in RoleName : RoleExists(x) => roles'[x] = roles[x]
      BY <1>1, <1>3, <2>2, CreateRoleFrame
    <3> QED BY <1>5, <1>6, <3>1 DEF RoleProvided, RoleNext, RoleExists, Trust
  <2>3. CASE pc = "updateRole" /\ Trust(w.entry) \in TrustDoc /\ UpdateRole(w.role, Trust(w.entry))
    <3>1. CASE air.spec.roles[e].name = w.role
      <4>1. e = w.entry BY <1>2, <1>3, <3>1
      <4>2. roles'[w.role] # None /\ roles'[w.role].trust = Trust(w.entry)
        BY <1>1, <1>3, <1>6, <2>3, <3>1, UpdateRoleFrame DEF RoleProvided
      <4> QED BY <3>1, <4>1, <4>2 DEF RoleNext
    <3>2. CASE air.spec.roles[e].name # w.role
      <4>1. roles'[air.spec.roles[e].name] = roles[air.spec.roles[e].name]
        BY <1>1, <1>3, <1>5, <2>3, <3>2, UpdateRoleFrame
      <4> QED BY <1>6, <4>1 DEF RoleProvided, RoleNext, RoleExists, Trust
    <3> QED BY <3>1, <3>2
  <2>4. pc # "dropDetach" BY DEF SyncRolePoints, SyncPolicyPoints
  <2> QED BY <1>0, <2>1, <2>2, <2>3, <2>4, RoleChange
<1>7. ASSUME NEW i \in DOMAIN air.spec.policies, PolicyProvided(air.spec, i)
      PROVE  PolicyNext(i)
  <2>1. CASE UNCHANGED policies BY <1>7, <2>1 DEF PolicyProvided, PolicyNext, PolicyExists
  <2>2. CASE pc = "updDelete" /\ DeletePolicy(w.pol)
    <3>1. air.spec.policies[i].name # w.pol
      BY <1>2, <1>3, <1>4, <1>7, <2>2 DEF SyncPolicyPoints
    <3>2. policies'[air.spec.policies[i].name] = policies[air.spec.policies[i].name]
      BY <1>1, <1>5, <2>2, <3>1, DeletePolicyFrame
    <3> QED BY <1>7, <3>2 DEF PolicyProvided, PolicyNext, PolicyExists
  <2>3. CASE pc \in {"createPolicy", "updCreate"} /\ CreateFromSpec
    <3>1. \A q \in PolicyName : policies[q] # None => policies'[q] = policies[q]
      BY <1>1, <1>3, <2>3, CreatePolicyFrame DEF CreateFromSpec, SyncPolicyPoints
    <3> QED BY <1>5, <1>7, <3>1 DEF PolicyProvided, PolicyNext, PolicyExists, InPath
  <2>4. pc \notin {"dropPolicy", "dropEntityPolicy"} BY DEF SyncRolePoints, SyncPolicyPoints
  <2> QED
    BY <2>1, <2>2, <2>3, <2>4
    DEF Change, iamVars, DetachRolePolicy, DeleteRole, CreateRole, UpdateRole, AttachRolePolicy
<1>8. ASSUME NEW e \in DOMAIN air.spec.roles, NEW i \in DOMAIN air.spec.policies,
             PairProvided(air.spec, e, i)
      PROVE  PairNext(e, i)
  <2>1. PolicyProvided(air.spec, i) /\ PolicyNext(i) BY <1>7, <1>8 DEF PairProvided
  <2>2. CASE attached \subseteq attached' BY <1>8, <2>1, <2>2 DEF PairProvided, PairNext
  <2>3. CASE pc = "updDetach" /\ DetachRolePolicy(w.pol, w.role)
    <3>1. air.spec.policies[i].name # w.pol
      BY <1>2, <1>3, <1>4, <2>1, <2>3 DEF SyncPolicyPoints
    <3>2. \A x, y : <<x, y>> \in attached => <<x, y>> \in attached' \/ (x = w.role /\ y = w.pol)
      BY <2>3, DetachFrame
    <3> QED BY <1>8, <2>1, <3>1, <3>2 DEF PairProvided, PairNext
  <2>4. pc \notin {"staleDetach", "dropDetach", "dropEntities"}
    BY DEF SyncRolePoints, SyncPolicyPoints
  <2> QED
    BY <2>2, <2>3, <2>4
    DEF Change, iamVars, DeletePolicy, DeleteRole, CreateRole, UpdateRole, AttachRolePolicy,
        CreateFromSpec, CreatePolicy
<1> QED BY <1>6, <1>7, <1>8 DEF EntryProvided, EntryNext, Wanted
(* ProvidedAt, entry by entry.                                             *)
LEMMA ProvidedNext ==
    ASSUME air'.spec = air.spec, w'.arn = w.arn,
           At' \in {"syncRoles", "final", "return"} =>
             \A e \in DOMAIN air.spec.roles : \/ At' = "syncRoles" /\ e \in w'.todo
                                              \/ EntryNext(e),
           At' \in SyncRolePoints =>
             /\ \A e \in DOMAIN air.spec.roles \ {w'.entry} : e \in w'.todo \/ EntryNext(e)
             /\ \A i \in Wanted(air.spec, w'.entry) :
                  \/ i \in w'.refs
                  \/ At' \in SyncPolicyPoints /\ i = w'.item
                  \/ PairNext(w'.entry, i),
           At' = "updateRole" => roles'[w'.role] # None,
           At' \in {"policies"} \cup SyncPolicyPoints => RoleNext(w'.entry),
           At' \in {"createPolicy", "updCreate"} => ~InPath(policies'[w'.pol]),
           At' \in {"checkAttached", "attach"} => PolicyNext(w'.item),
           At' \in {"attachNew", "updAttach"} /\ InPath(policies'[w'.pol]) => PolicyNext(w'.item)
    PROVE  ProvidedAt(At, w, air.spec)'
<1>1. /\ \A e : RoleNext(e) => RoleProvided(air.spec, e, w.arn)'
      /\ \A i : PolicyNext(i) => PolicyProvided(air.spec, i)'
      /\ \A e, i : PairNext(e, i) => PairProvided(air.spec, e, i)'
      /\ \A e : EntryNext(e) => EntryProvided(air.spec, e, w.arn)'
  BY NextMeans
<1>2. At' \in {"syncRoles", "final", "return"} =>
        \A e \in DOMAIN air'.spec.roles : \/ At' = "syncRoles" /\ e \in w'.todo
                                          \/ EntryProvided(air.spec, e, w.arn)'
  BY <1>1
<1>3. At' \in SyncRolePoints =>
        \A e \in DOMAIN air'.spec.roles \ {w'.entry} :
          e \in w'.todo \/ EntryProvided(air.spec, e, w.arn)'
  BY <1>1
<1>4. ASSUME NEW e, e = w'.entry
      PROVE  /\ RoleNext(e) => RoleProvided(air.spec, w.entry, w.arn)'
             /\ \A i : PairNext(e, i) => PairProvided(air.spec, w.entry, i)'
             /\ Wanted(air.spec, w.entry)' = Wanted(air.spec, e)
  <2>1. RoleProvided(air.spec, e, w.arn)' <=> RoleProvided(air.spec, w.entry, w.arn)'
    BY <1>4 DEF RoleProvided, RoleExists
  <2>2. \A i : PairProvided(air.spec, e, i)' <=> PairProvided(air.spec, w.entry, i)'
    BY <1>4 DEF PairProvided, PolicyProvided, PolicyExists
  <2>3. Wanted(air.spec, w.entry)' = Wanted(air.spec, e) BY <1>4 DEF Wanted
  <2> QED BY <1>1, <2>1, <2>2, <2>3
<1>5. At' \in {"policies"} \cup SyncPolicyPoints => RoleProvided(air.spec, w.entry, w.arn)'
  BY <1>4
<1>6. At' \in SyncRolePoints =>
        \A i \in Wanted(air.spec, w.entry)' : \/ i \in w'.refs
                                              \/ At' \in SyncPolicyPoints /\ i = w'.item
                                              \/ PairProvided(air.spec, w.entry, i)'
  BY <1>4
<1>7. ASSUME NEW i, i = w'.item, PolicyNext(i) PROVE PolicyProvided(air.spec, w.item)'
  <2>1. PolicyProvided(air.spec, i)' <=> PolicyProvided(air.spec, w.item)'
    BY <1>7 DEF PolicyProvided, PolicyExists
  <2> QED BY <1>1, <1>7, <2>1
<1>8. /\ At' \in {"checkAttached", "attach"} => PolicyProvided(air.spec, w.item)'
      /\ At' \in {"attachNew", "updAttach"} /\ PolicyExists(w.pol)' =>
           PolicyProvided(air.spec, w.item)'
  BY <1>7 DEF PolicyExists
<1>9. /\ At' \in {"createPolicy", "updCreate"} => ~PolicyExists(w.pol)'
      /\ At' = "updateRole" => RoleExists(w.role)'
  BY DEF PolicyExists, RoleExists
<1> QED BY <1>2, <1>3, <1>5, <1>6, <1>8, <1>9 DEF ProvidedAt

(* A synchronisation that is not about to end with a nil result.           *)
LEMMA StillGood == ASSUME SyncInv, pc \in SyncPoints \cup {"final", "return"}
                   PROVE  ~Doomed /\ At = pc /\ ProvidedAt(pc, w, air.spec)
BY DEF SyncInv, Doomed, SyncPoints, At

(* From one handler to the next within an entry of spec.roles.             *)
LEMMA EntryGoesOn ==
    ASSUME DistinctNames, TypeInv, PassInv, ProtocolInv, SyncInv, Change,
           pc \in SyncRolePoints, At' \in SyncRolePoints \ {"createRole", "updateRole"},
           air' = air,
           w'.arn = w.arn, w'.entry = w.entry, w'.refs = w.refs, w'.todo = w.todo,
           pc \in {"createRole", "updateRole"} => At' = "policies" /\ RoleNext(w.entry),
           At' \in SyncPolicyPoints => pc \in SyncPolicyPoints /\ w'.item = w.item,
           pc \in SyncPolicyPoints /\ At' = "policies" => PairNext(w.entry, w.item),
           At' \in {"createPolicy", "updCreate"} => ~InPath(policies'[w'.pol]),
           At' \in {"checkAttached", "attach"} => PolicyNext(w.item),
           At' \in {"attachNew", "updAttach"} /\ InPath(policies'[w'.pol]) => PolicyNext(w.item)
    PROVE  ProvidedAt(At, w, air.spec)'
<1>0. pc \in SyncPoints BY DEF SyncRolePoints, SyncPolicyPoints, SyncPoints
<1>1. /\ At = pc /\ ScopeAt(pc, w, air) /\ ProvidedAt(pc, w, air.spec)
  BY <1>0, PassFacts, StillGood
<1>2. /\ \A e \in DOMAIN air.spec.roles : RoleProvided(air.spec, e, w.arn) => RoleNext(e)
      /\ \A e \in DOMAIN air.spec.roles, i \in DOMAIN air.spec.policies :
           PairProvided(air.spec, e, i) => PairNext(e, i)
      /\ \A e \in DOMAIN air.spec.roles : EntryProvided(air.spec, e, w.arn) => EntryNext(e)
  BY ProvideKeeps
<1>3. w.entry \in DOMAIN air.spec.roles BY <1>1 DEF ScopeAt
<1>4. \A e \in DOMAIN air.spec.roles \ {w'.entry} : e \in w'.todo \/ EntryNext(e)
  BY <1>1, <1>2 DEF ProvidedAt
<1>5. RoleNext(w'.entry)
  <2>1. pc \notin {"createRole", "updateRole"} => pc \in {"policies"} \cup SyncPolicyPoints
    BY DEF SyncRolePoints
  <2>2. pc \notin {"createRole", "updateRole"} => RoleProvided(air.spec, w.entry, w.arn)
    BY <1>1, <2>1 DEF ProvidedAt
  <2> QED BY <1>2, <1>3, <2>2
<1>6. ASSUME NEW i \in Wanted(air.spec, w.entry)
      PROVE  \/ i \in w'.refs
             \/ At' \in SyncPolicyPoints /\ i = w'.item
             \/ PairNext(w'.entry, i)
  <2>1. \/ i \in w.refs
        \/ pc \in SyncPolicyPoints /\ i = w.item
        \/ PairProvided(air.spec, w.entry, i)
    BY <1>1 DEF ProvidedAt
  <2>2. i \in DOMAIN air.spec.policies BY DEF Wanted
  <2>3. At' \in SyncPolicyPoints \/ At' = "policies" BY DEF SyncRolePoints
  <2> QED BY <1>2, <1>3, <2>1, <2>2, <2>3
<1>7. At' \notin {"syncRoles", "final", "return", "createRole", "updateRole"}
  BY DEF SyncRolePoints, SyncPolicyPoints
<1>8. /\ At' \in {"checkAttached", "attach"} => PolicyNext(w'.item)
      /\ At' \in {"attachNew", "updAttach"} /\ InPath(policies'[w'.pol]) => PolicyNext(w'.item)
  BY DEF SyncPolicyPoints
<1> QED BY <1>4, <1>5, <1>6, <1>7, <1>8, ProvidedNext
(* What is to be shown of each handler.                                    *)
ProvidedThen == At' \notin PrunePoints /\ (Doomed' \/ ProvidedAt(At, w, air.spec)')

LEMMA ErrorProvided ==
    ASSUME At' \in {"idle", "requeue"} PROVE ProvidedThen
BY NothingProvided
DEF ProvidedThen, PrunePoints, RolePrunePoints, PolicyPoints, SyncRolePoints, SyncPolicyPoints

(* The start of an entry of spec.roles, and the end of them.               *)
LEMMA SyncRoleSync ==
    ASSUME TypeInv, SyncInv, (\E e \in RoleKey : SyncRole(e)) \/ SyncRolesDone
    PROVE  ProvidedThen
<1>0. pc = "syncRoles" /\ UNCHANGED iamVars BY DEF SyncRole, SyncRolesDone
<1>1. pc \in SyncPoints /\ At = pc /\ w \in Locals /\ ProvidedAt(pc, w, air.spec)
  BY <1>0, PassFacts, StillGood DEF SyncPoints
<1>2. \A e \in DOMAIN air.spec.roles : e \in w.todo \/ EntryProvided(air.spec, e, w.arn)
  BY <1>0, <1>1 DEF ProvidedAt
<1>3. \A e : EntryProvided(air.spec, e, w.arn) => EntryNext(e)
  BY <1>0
  DEF EntryProvided, EntryNext, RoleProvided, RoleNext, PairProvided, PairNext, PolicyProvided,
      PolicyNext, RoleExists, PolicyExists, Trust, iamVars
<1>4. CASE SyncRolesDone
  <2>1. At' = "final" /\ w' = w /\ air' = air /\ w.todo = {}
    BY <1>4, EndsMove DEF SyncRolesDone
  <2>2. At' \notin SyncRolePoints /\ At' \notin PrunePoints
    BY <2>1 DEF SyncRolePoints, SyncPolicyPoints, PrunePoints, RolePrunePoints, PolicyPoints
  <2>3. \A e \in DOMAIN air.spec.roles : EntryNext(e) BY <1>2, <1>3, <2>1
  <2>4. ProvidedAt(At, w, air.spec)'
    BY <2>1, <2>2, <2>3, ProvidedNext DEF SyncRolePoints, SyncPolicyPoints
  <2> QED BY <2>2, <2>4 DEF ProvidedThen
<1>5. ASSUME NEW e \in RoleKey, SyncRole(e) PROVE ProvidedThen
  <2> DEFINE x == [w EXCEPT !.todo = @ \ {e}, !.entry = e, !.role = air.spec.roles[e].name,
                            !.refs = RefsOf(e), !.again = TRUE]
  <2>1. /\ x.entry = e /\ x.role = air.spec.roles[e].name /\ x.refs = RefsOf(e)
        /\ x.arn = w.arn /\ x.todo = w.todo \ {e}
    BY <1>1 DEF Locals
  <2>2. RefsOf(e) = Wanted(air.spec, e) BY DEF RefsOf, Wanted
  <2>3. \/ Report("Failed", NoResult, "requeue", w)
        \/ \E l \in {"createRole", "policies", "updateRole"} :
             /\ l = "createRole" => ~RoleExists(air.spec.roles[e].name)
             /\ l # "createRole" => RoleExists(air.spec.roles[e].name)
             /\ l = "policies" => roles[air.spec.roles[e].name].trust = Trust(e)
             /\ Goto(l, x)
    BY <1>5 DEF SyncRole
  <2> HIDE DEF x
  <2>4. CASE Report("Failed", NoResult, "requeue", w) BY <2>4, EndsMove, ErrorProvided
  <2>5. ASSUME NEW l \in {"createRole", "policies", "updateRole"},
               l = "createRole" => ~RoleExists(air.spec.roles[e].name),
               l # "createRole" => RoleExists(air.spec.roles[e].name),
               l = "policies" => roles[air.spec.roles[e].name].trust = Trust(e),
               Goto(l, x)
        PROVE  ProvidedThen
    <3>1. At' = l /\ w' = x /\ air' = air BY <2>5, EndsMove
    <3>2. At' \notin PrunePoints /\ At' \notin SyncPolicyPoints
      BY <3>1 DEF SyncPolicyPoints, PrunePoints, RolePrunePoints, PolicyPoints
    <3>3. \A f \in DOMAIN air.spec.roles \ {w'.entry} : f \in w'.todo \/ EntryNext(f)
      BY <1>2, <1>3, <2>1, <3>1
    <3>4. \A i \in Wanted(air.spec, w'.entry) : i \in w'.refs BY <2>1, <2>2, <3>1
    <3>5. /\ At' = "updateRole" => roles'[w'.role] # None
          /\ At' = "policies" => RoleNext(w'.entry)
      BY <1>0, <2>1, <2>5, <3>1 DEF RoleNext, RoleExists, iamVars
    <3>6. ProvidedAt(At, w, air.spec)'
      BY <2>1, <3>1, <3>2, <3>3, <3>4, <3>5, ProvidedNext
    <3> QED BY <3>2, <3>6 DEF ProvidedThen
  <2> QED BY <2>3, <2>4, <2>5
<1> QED BY <1>4, <1>5

(* The role of an entry.                                                   *)
LEMMA RoleSync ==
    ASSUME DistinctNames, TypeInv, PassInv, ProtocolInv, SyncInv,
           \/ CreateMissingRole \/ UpdateRoleTrust
           \/ pc = "createRole" /\ ReplyLost
    PROVE  ProvidedThen
<1>0. /\ pc \in {"createRole", "updateRole"}
      /\ pc \in SyncPoints /\ pc \in SyncRolePoints /\ pc \notin SyncPolicyPoints
  BY DEF CreateMissingRole, UpdateRoleTrust, SyncPoints, SyncRolePoints, SyncPolicyPoints
<1>1. /\ At = pc /\ IAMTypeOK /\ ScopeAt(pc, w, air) /\ air.spec \in Spec_ /\ w.arn \in ARN
      /\ ProvideLocals(pc, w, air.spec) /\ ProvidedAt(pc, w, air.spec)
  BY <1>0, PassFacts, StillGood DEF PassInv
<1>2. /\ w.role \in RoleName /\ w.entry \in DOMAIN air.spec.roles
      /\ w.role = air.spec.roles[w.entry].name
  BY <1>0, <1>1 DEF ScopeAt, ProvideLocals
<1>3. Trust(w.entry) \in TrustDoc BY <1>1, <1>2, SpecFields DEF Trust, TrustDoc
<1>a. At' = "policies" /\ w' = w /\ air' = air
  BY EndsMove DEF CreateMissingRole, UpdateRoleTrust, ReplyLost
<1>b. At' \notin PrunePoints /\ At' \in SyncRolePoints /\ At' \notin SyncPolicyPoints
  BY <1>a DEF SyncRolePoints, SyncPolicyPoints, PrunePoints, RolePrunePoints, PolicyPoints
<1>c. CASE pc = "createRole" /\ RoleExists(w.role)
  <2>1. Report("Provisioned", NilResult, "policies", w)
    BY <1>c DEF CreateMissingRole, UpdateRoleTrust, ReplyLost
  <2>2. Doomed' BY <2>1 DEF Report, Doomed
  <2> QED BY <1>b, <2>2 DEF ProvidedThen
<1> SUFFICES ASSUME ~(pc = "createRole" /\ RoleExists(w.role)) PROVE ProvidedThen BY <1>c
<1>4. RoleNext(w.entry)
  <2>1. CASE pc = "createRole" /\ CreateRole(w.role, Trust(w.entry), air.spec.cluster)
    <3>2. roles'[w.role] = [trust |-> Trust(w.entry), cluster |-> air.spec.cluster]
      BY <1>1, <1>2, <2>1, CreateRoleFrame
    <3>3. air.spec.cluster \in Cluster BY <1>1, SpecFields
    <3>4. roles'[w.role] \in RoleEntry BY <1>3, <3>2, <3>3 DEF RoleEntry, Owner
    <3> QED BY <1>2, <3>2, <3>4, EntryAssumption DEF RoleNext
  <2>2. CASE pc = "updateRole" /\ UpdateRole(w.role, Trust(w.entry))
    <3>1. RoleExists(w.role) BY <1>1, <2>2 DEF ProvidedAt
    <3> QED BY <1>1, <1>2, <1>3, <2>2, <3>1, UpdateRoleFrame DEF RoleNext
  <2> QED BY <2>1, <2>2 DEF CreateMissingRole, UpdateRoleTrust, ReplyLost
<1>5. Change BY ProvideChange DEF Provide
<1>6. ProvidedAt(At, w, air.spec)' BY <1>0, <1>4, <1>5, <1>a, <1>b, EntryGoesOn
<1> QED BY <1>b, <1>6 DEF ProvidedThen
(* The choice of the next policy, the second round, and the end of an entry. *)
LEMMA SyncPoliciesSync ==
    ASSUME TypeInv, SyncInv, SyncPolicies PROVE ProvidedThen
<1>0. pc = "policies" /\ UNCHANGED iamVars BY DEF SyncPolicies
<1>1. /\ pc \in SyncPoints /\ pc \in SyncRolePoints /\ pc \notin SyncPolicyPoints
      /\ At = pc /\ w \in Locals /\ ProvidedAt(pc, w, air.spec)
  BY <1>0, PassFacts, StillGood DEF SyncPoints, SyncRolePoints, SyncPolicyPoints
<1>2. /\ \A e \in DOMAIN air.spec.roles \ {w.entry} : e \in w.todo \/ EntryProvided(air.spec, e, w.arn)
      /\ RoleProvided(air.spec, w.entry, w.arn)
      /\ \A i \in Wanted(air.spec, w.entry) : i \in w.refs \/ PairProvided(air.spec, w.entry, i)
  BY <1>0, <1>1 DEF ProvidedAt
<1>3. /\ \A e : EntryProvided(air.spec, e, w.arn) => EntryNext(e)
      /\ \A e : RoleProvided(air.spec, e, w.arn) => RoleNext(e)
      /\ \A e, i : PairProvided(air.spec, e, i) => PairNext(e, i)
      /\ \A i : PolicyProvided(air.spec, i) => PolicyNext(i)
  BY <1>0
  DEF EntryProvided, EntryNext, RoleProvided, RoleNext, PairProvided, PairNext, PolicyProvided,
      PolicyNext, RoleExists, PolicyExists, Trust, iamVars
<1>4. RefsOf(w.entry) = Wanted(air.spec, w.entry) BY DEF RefsOf, Wanted
<1>5. CASE Goto("policies", [w EXCEPT !.refs = RefsOf(w.entry), !.again = FALSE])
  <2> DEFINE x == [w EXCEPT !.refs = RefsOf(w.entry), !.again = FALSE]
  <2>1. /\ x.entry = w.entry /\ x.refs = RefsOf(w.entry) /\ x.arn = w.arn /\ x.todo = w.todo
        /\ Goto("policies", x)
    BY <1>1, <1>5 DEF Locals
  <2> HIDE DEF x
  <2>2. At' = "policies" /\ w' = x /\ air' = air BY <2>1, EndsMove
  <2>3. At' \notin PrunePoints /\ At' \notin SyncPolicyPoints
    BY <2>2 DEF SyncPolicyPoints, PrunePoints, RolePrunePoints, PolicyPoints
  <2>4. ProvidedAt(At, w, air.spec)' BY <1>2, <1>3, <1>4, <2>1, <2>2, <2>3, ProvidedNext
  <2> QED BY <2>3, <2>4 DEF ProvidedThen
<1>6. CASE w.refs = {} /\ Goto("syncRoles", [w EXCEPT !.entry = None, !.role = None])
  <2> DEFINE x == [w EXCEPT !.entry = None, !.role = None]
  <2>1. x.arn = w.arn /\ x.todo = w.todo /\ Goto("syncRoles", x) BY <1>1, <1>6 DEF Locals
  <2> HIDE DEF x
  <2>2. At' = "syncRoles" /\ w' = x /\ air' = air BY <2>1, EndsMove
  <2>3. At' \notin PrunePoints /\ At' \notin SyncRolePoints /\ At' \notin SyncPolicyPoints
    BY <2>2 DEF SyncRolePoints, SyncPolicyPoints, PrunePoints, RolePrunePoints, PolicyPoints
  <2>4. EntryProvided(air.spec, w.entry, w.arn) BY <1>2, <1>6 DEF EntryProvided
  <2>5. \A e \in DOMAIN air.spec.roles : e \in w'.todo \/ EntryNext(e)
    BY <1>2, <1>3, <2>1, <2>2, <2>4
  <2>6. ProvidedAt(At, w, air.spec)' BY <2>1, <2>2, <2>3, <2>5, ProvidedNext
  <2> QED BY <2>3, <2>6 DEF ProvidedThen
<1>7. ASSUME NEW i \in w.refs, NEW l \in {"createPolicy", "updDetach", "checkAttached"},
             l = "createPolicy" => ~PolicyExists(air.spec.policies[i].name),
             l = "checkAttached" => PolicyProvided(air.spec, i),
             Goto(l, [w EXCEPT !.refs = @ \ {i}, !.item = i, !.pol = air.spec.policies[i].name])
      PROVE  ProvidedThen
  <2> DEFINE x == [w EXCEPT !.refs = @ \ {i}, !.item = i, !.pol = air.spec.policies[i].name]
  <2>1. /\ x.entry = w.entry /\ x.refs = w.refs \ {i} /\ x.arn = w.arn /\ x.todo = w.todo
        /\ x.item = i /\ x.pol = air.spec.policies[i].name
    BY <1>1 DEF Locals
  <2>2. Goto(l, x) BY <1>7
  <2> HIDE DEF x
  <2>3. At' = l /\ w' = x /\ air' = air BY <2>2, EndsMove
  <2>4. At' \notin PrunePoints /\ At' \in SyncPolicyPoints
    BY <2>3 DEF SyncPolicyPoints, PrunePoints, RolePrunePoints, PolicyPoints
  <2>5. /\ At' = "createPolicy" => ~InPath(policies'[w'.pol])
        /\ At' = "checkAttached" => PolicyNext(w'.item)
    BY <1>0, <1>3, <1>7, <2>1, <2>3 DEF PolicyExists, iamVars
  <2>6. \A j \in Wanted(air.spec, w'.entry) :
          j \in w'.refs \/ j = w'.item \/ PairNext(w'.entry, j)
    BY <1>2, <1>3, <2>1, <2>3
  <2>7. At' \notin {"syncRoles", "final", "return", "createRole", "updateRole", "updCreate",
                    "attachNew", "updAttach", "attach"}
    BY <2>3
  <2>8. ProvidedAt(At, w, air.spec)'
    BY <1>2, <1>3, <2>1, <2>3, <2>4, <2>5, <2>6, <2>7, ProvidedNext
  <2> QED BY <2>4, <2>8 DEF ProvidedThen
<1>8. \/ Goto("policies", [w EXCEPT !.refs = RefsOf(w.entry), !.again = FALSE])
      \/ w.refs = {} /\ Goto("syncRoles", [w EXCEPT !.entry = None, !.role = None])
      \/ \E i \in w.refs : \E l \in {"createPolicy", "updDetach", "checkAttached"} :
           /\ l = "createPolicy" => ~PolicyExists(air.spec.policies[i].name)
           /\ l = "checkAttached" => PolicyProvided(air.spec, i)
           /\ Goto(l, [w EXCEPT !.refs = @ \ {i}, !.item = i, !.pol = air.spec.policies[i].name])
  BY DEF SyncPolicies, PolicyProvided, Outdated
<1> QED BY <1>5, <1>6, <1>7, <1>8
(* One policy of an entry.                                                 *)
LEMMA PolicySync ==
    ASSUME DistinctNames, TypeInv, PassInv, ProtocolInv, SyncInv,
           \/ CreateMissingPolicy \/ AttachNew \/ UpdDetach \/ UpdDelete
           \/ UpdCreate \/ UpdAttach \/ CheckAttached \/ Attach
           \/ pc = "createPolicy" /\ ReplyLost
    PROVE  ProvidedThen
<1>0. pc \in SyncPolicyPoints
  BY DEF SyncPolicyPoints, CreateMissingPolicy, AttachNew, UpdDetach, UpdDelete, UpdCreate,
         UpdAttach, CheckAttached, Attach
<1>1. /\ pc \in SyncPoints /\ pc \in SyncRolePoints
      /\ pc \notin {"createRole", "updateRole", "policies"}
  BY <1>0 DEF SyncPoints, SyncRolePoints, SyncPolicyPoints
<1>2. /\ At = pc /\ w \in Locals /\ IAMTypeOK /\ air.spec \in Spec_
      /\ ProvideLocals(pc, w, air.spec) /\ ProvidedAt(pc, w, air.spec)
      /\ w.pol \in PolicyName /\ w.role \in RoleName
  BY <1>0, <1>1, PassFacts, StillGood DEF PassInv, ScopeAt
<1>3. /\ w.item \in DOMAIN air.spec.policies
      /\ w.pol = air.spec.policies[w.item].name
      /\ w.role = air.spec.roles[w.entry].name
  BY <1>0, <1>1, <1>2 DEF ProvideLocals, Wanted
<1>4. /\ pc \in {"checkAttached", "attach"} => PolicyProvided(air.spec, w.item)
      /\ pc \in {"attachNew", "updAttach"} /\ PolicyExists(w.pol) => PolicyProvided(air.spec, w.item)
  BY <1>2 DEF ProvidedAt
<1>5. Change BY ProvideChange DEF Provide
<1>6. ASSUME air' = air, At' \in SyncRolePoints \ {"createRole", "updateRole"},
             w'.arn = w.arn, w'.entry = w.entry, w'.refs = w.refs, w'.todo = w.todo,
             At' = "policies" => PairNext(w.entry, w.item),
             At' # "policies" => w'.item = w.item /\ w'.pol = w.pol,
             At' = "updCreate" => ~InPath(policies'[w.pol]),
             At' # "createPolicy",
             At' \in {"checkAttached", "attach"} => PolicyNext(w.item),
             At' \in {"attachNew", "updAttach"} /\ InPath(policies'[w.pol]) => PolicyNext(w.item)
      PROVE  ProvidedThen
  <2>1. At' \in SyncPolicyPoints => At' # "policies" BY DEF SyncPolicyPoints
  <2>2. At' \notin PrunePoints
    BY <1>6 DEF SyncRolePoints, SyncPolicyPoints, PrunePoints, RolePrunePoints, PolicyPoints
  <2>3. ProvidedAt(At, w, air.spec)' BY <1>0, <1>1, <1>5, <1>6, <2>1, EntryGoesOn
  <2> QED BY <2>2, <2>3 DEF ProvidedThen
<1>7. /\ NextItem.entry = w.entry /\ NextItem.refs = w.refs /\ NextItem.todo = w.todo
      /\ NextItem.arn = w.arn /\ NextItem \in Locals
  BY <1>2 DEF NextItem, Locals
<1>8. ReturnError \/ Return(TRUE) => ProvidedThen BY EndsMove, ErrorProvided
<1>9. ASSUME pc \in {"createPolicy", "updCreate"}, CreateFromSpec, InPath(policies'[w.pol])
      PROVE  PolicyNext(w.item)
  <2>1. ~PolicyExists(w.pol) BY <1>2, <1>9 DEF ProvidedAt
  <2>2. policies[w.pol] = None
    BY <1>2, <1>9, <2>1, CreatePolicyFrame DEF CreateFromSpec, PolicyExists
  <2>3. policies'[w.pol] = [doc |-> air.spec.policies[w.item].doc, cluster |-> air.spec.cluster]
    BY <1>2, <1>9, <2>2, CreatePolicyFrame DEF CreateFromSpec
  <2>4. air.spec.cluster \in Cluster /\ air.spec.policies[w.item].doc \in Doc
    BY <1>2, <1>3, SpecFields
  <2>5. policies'[w.pol] \in PolicyEntry BY <2>3, <2>4 DEF PolicyEntry, Owner
  <2>6. InPath(policies'[w.pol])
    BY <2>3, <2>4, <2>5, EntryAssumption, NoneAssumption DEF InPath
  <2> QED BY <1>3, <2>3, <2>6 DEF PolicyNext
<1>10. ASSUME PolicyProvided(air.spec, w.item), AttachRolePolicy(w.pol, w.role)
       PROVE  PairNext(w.entry, w.item)
  BY <1>3, <1>10 DEF AttachRolePolicy, PolicyProvided, PolicyNext, PairNext, PolicyExists
<1>a. {"policies", "attachNew", "updDelete", "updCreate", "updAttach", "checkAttached", "attach"}
        \subseteq SyncRolePoints \ {"createRole", "updateRole"}
  BY DEF SyncRolePoints, SyncPolicyPoints
<1>11. ASSUME PolicyExists(w.pol) => PolicyProvided(air.spec, w.item),
              NEW res, NEW l \in {"policies", "checkAttached"}, NEW x,
              x.arn = w.arn, x.entry = w.entry, x.refs = w.refs, x.todo = w.todo,
              l # "policies" => x = w,
              AttachThen(res, l, x)
       PROVE  ProvidedThen
  <2>1. CASE /\ CanAttach(w.pol, w.role)
             /\ AttachRolePolicy(w.pol, w.role)
             /\ Report("Provisioned", res, l, x)
    <3>1. PairNext(w.entry, w.item) /\ PolicyNext(w.item)
      BY <1>10, <1>11, <2>1 DEF PairNext, CanAttach
    <3>2. At' = l /\ w' = x /\ air' = air BY <2>1, EndsMove
    <3> QED BY <1>6, <1>11, <1>a, <3>1, <3>2
  <2> QED BY <1>8, <1>11, <2>1, Zenon DEF AttachThen
<1>12. CASE CreateMissingPolicy
  <2>1. At' = "attachNew" /\ air' = air /\ w' = [w EXCEPT !.made = (policies[w.pol] = None)]
    BY <1>12, EndsMove DEF CreateMissingPolicy
  <2>2. /\ w'.arn = w.arn /\ w'.entry = w.entry /\ w'.refs = w.refs /\ w'.todo = w.todo
        /\ w'.item = w.item /\ w'.pol = w.pol
    BY <1>2, <2>1 DEF Locals
  <2>3. InPath(policies'[w.pol]) => PolicyNext(w.item) BY <1>9, <1>12 DEF CreateMissingPolicy
  <2> QED BY <1>6, <1>a, <2>1, <2>2, <2>3
<1>13. CASE pc = "createPolicy" /\ ReplyLost
  <2>1. CreateFromSpec /\ Goto("attachNew", w) BY <1>13 DEF ReplyLost
  <2>2. At' = "attachNew" /\ w' = w /\ air' = air BY <2>1, EndsMove
  <2>3. InPath(policies'[w.pol]) => PolicyNext(w.item) BY <1>9, <1>13, <2>1
  <2> QED BY <1>6, <1>a, <2>2, <2>3
<1>14. CASE AttachNew
  <2> DEFINE x == [NextItem EXCEPT !.made = FALSE]
  <2>1. x.arn = w.arn /\ x.entry = w.entry /\ x.refs = w.refs /\ x.todo = w.todo
    BY <1>7 DEF Locals
  <2>2. \E res : AttachThen(res, "policies", x) BY <1>14 DEF AttachNew
  <2>3. PolicyExists(w.pol) => PolicyProvided(air.spec, w.item) BY <1>4, <1>14 DEF AttachNew
  <2> HIDE DEF x
  <2> QED BY <1>11, <2>1, <2>2, <2>3
<1>15. CASE UpdAttach BY <1>4, <1>11, <1>15 DEF UpdAttach
<1>16. CASE Attach
  <2>1. AttachThen(Policy(w.pol), "policies", NextItem) /\ PolicyProvided(air.spec, w.item)
    BY <1>4, <1>16 DEF Attach
  <2> QED BY <1>7, <1>11, <2>1
<1>17. CASE UpdDetach
  <2>1. At' = "updDelete" /\ w' = w /\ air' = air BY <1>17, EndsMove DEF UpdDetach
  <2> QED BY <1>6, <1>a, <2>1
<1>18. CASE UpdDelete
  <2>1. CASE CanDeletePolicy(w.pol) /\ DeletePolicy(w.pol) /\ Goto("updCreate", w)
    <3>1. At' = "updCreate" /\ w' = w /\ air' = air BY <2>1, EndsMove
    <3>2. policies'[w.pol] = IF PolicyExists(w.pol) THEN None ELSE policies[w.pol]
      BY <1>2, <2>1, DeletePolicyFrame
    <3>3. ~InPath(policies'[w.pol]) BY <3>2 DEF PolicyExists, InPath
    <3> QED BY <1>6, <1>a, <3>1, <3>3
  <2> QED BY <1>8, <1>18, <2>1, Zenon DEF UpdDelete
<1>19. CASE UpdCreate
  <2>1. At' = "updAttach" /\ w' = w /\ air' = air BY <1>19, EndsMove DEF UpdCreate
  <2>2. InPath(policies'[w.pol]) => PolicyNext(w.item) BY <1>9, <1>19 DEF UpdCreate
  <2> QED BY <1>6, <1>a, <2>1, <2>2
<1>20. CASE CheckAttached
  <2>0. UNCHANGED iamVars /\ PolicyProvided(air.spec, w.item) BY <1>4, <1>20 DEF CheckAttached
  <2>1. PolicyNext(w.item) BY <2>0 DEF PolicyProvided, PolicyNext, PolicyExists, iamVars
  <2>2. CASE w.pol \in PoliciesOf(w.role) /\ Goto("policies", NextItem)
    <3>1. At' = "policies" /\ w' = NextItem /\ air' = air BY <2>2, EndsMove
    <3>2. <<w.role, w.pol>> \in attached' BY <2>0, <2>2 DEF PoliciesOf, AttachedTo, iamVars
    <3>3. PairNext(w.entry, w.item) BY <1>3, <2>1, <3>2 DEF PairNext
    <3> QED BY <1>6, <1>7, <1>a, <3>1, <3>3
  <2>3. CASE Goto("attach", w)
    <3>1. At' = "attach" /\ w' = w /\ air' = air BY <2>3, EndsMove
    <3> QED BY <1>6, <1>a, <2>1, <3>1
  <2>4. \/ Return(TRUE) \/ Goto("attach", w)
        \/ w.pol \in PoliciesOf(w.role) /\ Goto("policies", NextItem)
    BY <1>20 DEF CheckAttached
  <2> QED BY <1>8, <2>2, <2>3, <2>4
<1> QED BY <1>12, <1>13, <1>14, <1>15, <1>16, <1>17, <1>18, <1>19, <1>20
----------------------------------------------------------------------------
(* The whole synchronisation, as long as nobody else removes anything      *)

LEMMA ProvideStart ==
    ASSUME Provide \/ ReplyLost
    PROVE  /\ pc \in SyncRolePoints \cup {"syncRoles"}
           /\ air' = air \/ At' = "idle"
<1>1. pc \in SyncRolePoints \cup {"syncRoles"}
  BY DEF Provide, SyncRole, SyncRolesDone, CreateMissingRole, UpdateRoleTrust, SyncPolicies,
         CreateMissingPolicy, AttachNew, UpdDetach, UpdDelete, UpdCreate, UpdAttach,
         CheckAttached, Attach, ReplyLost, SyncRolePoints, SyncPolicyPoints
<1>2. /\ \A l, x : Goto(l, x) => air' = air
      /\ \A h, res, l, x : Report(h, res, l, x) => air' = air
      /\ Return(TRUE) \/ ReturnError => At' = "idle"
  BY EndsMove DEF Goto, Report
<1>3. \A res, l, x : AttachThen(res, l, x) => air' = air \/ At' = "idle"
  BY <1>2 DEF AttachThen
<1>4. ASSUME NEW e, SyncRole(e) PROVE air' = air
  BY <1>2, <1>4 DEF SyncRole
<1>5. SyncPolicies => air' = air BY <1>2 DEF SyncPolicies
<1>6. CheckAttached \/ UpdDelete => air' = air \/ At' = "idle"
  BY <1>2 DEF CheckAttached, UpdDelete
<1>7. AttachNew \/ UpdAttach \/ Attach => air' = air \/ At' = "idle"
  BY <1>3 DEF AttachNew, UpdAttach, Attach
<1>8. SyncRolesDone \/ CreateMissingRole \/ UpdateRoleTrust \/ CreateMissingPolicy \/ UpdDetach
        \/ UpdCreate \/ ReplyLost => air' = air
  BY <1>2 DEF SyncRolesDone, CreateMissingRole, UpdateRoleTrust, CreateMissingPolicy, UpdDetach,
              UpdCreate, ReplyLost
<1> QED BY <1>1, <1>4, <1>5, <1>6, <1>7, <1>8 DEF Provide

(* A step that leaves the worker and what it has as they are, and takes    *)
(* nothing away from the account.                                          *)
LEMMA SameSync ==
    ASSUME TypeInv, PrunedAt(At, w, air.spec), Same, Grown, At \in BusyPoints
    PROVE  /\ PrunedAt(At, w, air.spec)'
           /\ ProvidedAt(At, w, air.spec) => ProvidedAt(At, w, air.spec)'
<1>1. At' = At /\ w' = w /\ air'.spec = air.spec BY DEF Same
<1>2. ScopeAt(At, w, air) /\ air.spec \in Spec_
  <2>1. pc # "idle"
    BY DEF At, BusyPoints, PrunePoints, RolePrunePoints, PolicyPoints, SyncRolePoints,
           SyncPolicyPoints
  <2>2. ScopeAt(At, w, air) BY <2>1, ScopeThere
  <2>3. At \notin {"idle", "getClusterResources"}
    BY DEF BusyPoints, PrunePoints, RolePrunePoints, PolicyPoints, SyncRolePoints, SyncPolicyPoints
  <2>4. air \in Object BY <2>2, <2>3 DEF ScopeAt
  <2> QED BY <2>2, <2>4, ObjectSpec
<1>3. /\ \A e \in DOMAIN air.spec.roles : air.spec.roles[e].name \in RoleName
      /\ \A i \in DOMAIN air.spec.policies : air.spec.policies[i].name \in PolicyName
      /\ air.spec.cluster \in Cluster
  BY <1>2, SpecFields
<1>4. \A p \in PolicyName : PolicyExists(p)' => PolicyExists(p) /\ policies'[p] = policies[p]
  BY DEF Grown, PolicyExists, InPath
<1>5. PrunedAt(At, w, air.spec)'
  <2>1. ASSUME NEW r \in RoleName, RoleExists(r)', roles'[r].cluster = air.spec.cluster
        PROVE  r \in RolesNamed(air.spec) \/ r \in RolesLeft(At', w')
    <3>1. RoleExists(r) /\ roles[r].cluster = air.spec.cluster
      BY <1>3, <2>1, NoneAssumption DEF Grown, RoleExists
    <3> QED BY <1>1, <3>1, PrunedFacts
  <2>2. ASSUME NEW p \in PolicyName, PolicyExists(p)', policies'[p].cluster = air.spec.cluster
        PROVE  /\ p \in PoliciesNamed(air.spec) \/ p \in PoliciesLeft(At', w')
               /\ At' \in RolePrunePoints => p \in w'.listed
               /\ Carries(p, air.spec.cluster)
    <3>1. Carries(p, air.spec.cluster) BY <1>4, <2>2 DEF Carries
    <3> QED BY <1>1, <3>1, PrunedFacts
  <2>3. ASSUME NEW e \in DOMAIN air.spec.roles, NEW p \in PolicyName,
               InPath(roles'[air.spec.roles[e].name]),
               ~(At' \in {"staleRefs", "staleDetach"} /\ e \in w'.todo),
               <<air.spec.roles[e].name, p>> \in attached', PolicyExists(p)',
               policies'[p].cluster = air.spec.cluster
        PROVE  \/ p \in air.spec.roles[e].policies
               \/ At' = "staleDetach" /\ air.spec.roles[e].name = w'.role /\ p \in w'.pend
    <3>1. Carries(p, air.spec.cluster) BY <2>2, <2>3
    <3>2. Ours(air.spec.roles[e].name)
      BY <1>3, <2>3 DEF Grown, Ours, InPath, RoleExists
    <3>3. <<air.spec.roles[e].name, p>> \in attached
      BY <1>4, <2>3 DEF Grown, PolicyExists, InPath
    <3> QED BY <1>1, <2>3, <3>1, <3>2, <3>3, PrunedFacts
  <2> QED BY <1>1, <2>1, <2>2, <2>3, PrunedNext
<1>6. ASSUME ProvidedAt(At, w, air.spec) PROVE ProvidedAt(At, w, air.spec)'
  <2>1. /\ \A e \in DOMAIN air.spec.roles : RoleProvided(air.spec, e, w.arn) => RoleNext(e)
        /\ \A i \in DOMAIN air.spec.policies : PolicyProvided(air.spec, i) => PolicyNext(i)
    BY <1>3 DEF Grown, RoleProvided, RoleNext, PolicyProvided, PolicyNext, RoleExists,
                PolicyExists, InPath, Trust
  <2>2. \A e, i : i \in DOMAIN air.spec.policies /\ PairProvided(air.spec, e, i) => PairNext(e, i)
    BY <2>1 DEF Grown, PairProvided, PairNext
  <2>3. \A e \in DOMAIN air.spec.roles : EntryProvided(air.spec, e, w.arn) => EntryNext(e)
    BY <2>1, <2>2 DEF EntryProvided, EntryNext, Wanted
  <2>4. /\ At \in SyncRolePoints => /\ w.entry \in DOMAIN air.spec.roles
                                    /\ w.role \in RoleName
        /\ At \in SyncPolicyPoints => /\ w.item \in DOMAIN air.spec.policies
                                      /\ w.pol \in PolicyName
    BY <1>2, ScopeThere DEF ScopeAt
  <2>5. /\ At' = "updateRole" => roles'[w'.role] # None
        /\ At' \in {"createPolicy", "updCreate"} => ~InPath(policies'[w'.pol])
    BY <1>1, <1>4, <1>6, <2>4
    DEF ProvidedAt, Grown, RoleExists, PolicyExists, SyncRolePoints, SyncPolicyPoints
  <2>6. /\ At' \in {"policies"} \cup SyncPolicyPoints => RoleNext(w'.entry)
        /\ At' \in {"checkAttached", "attach"} => PolicyNext(w'.item)
    BY <1>1, <1>6, <2>1, <2>4 DEF ProvidedAt, SyncRolePoints, SyncPolicyPoints
  <2>7. At' \in {"attachNew", "updAttach"} /\ InPath(policies'[w'.pol]) => PolicyNext(w'.item)
    BY <1>1, <1>4, <1>6, <2>1, <2>4 DEF ProvidedAt, PolicyExists, SyncPolicyPoints
  <2>8. At' \in {"syncRoles", "final", "return"} =>
          \A e \in DOMAIN air.spec.roles : \/ At' = "syncRoles" /\ e \in w'.todo
                                           \/ EntryNext(e)
    BY <1>1, <1>6, <2>3 DEF ProvidedAt
  <2>9. At' \in SyncRolePoints =>
          /\ \A e \in DOMAIN air.spec.roles \ {w'.entry} : e \in w'.todo \/ EntryNext(e)
          /\ \A i \in Wanted(air.spec, w'.entry) :
               \/ i \in w'.refs
               \/ At' \in SyncPolicyPoints /\ i = w'.item
               \/ PairNext(w'.entry, i)
    BY <1>1, <1>6, <2>2, <2>3 DEF ProvidedAt, Wanted
  <2> QED BY <1>1, <2>5, <2>6, <2>7, <2>8, <2>9, ProvidedNext
<1> QED BY <1>5, <1>6

(* A nil result stays on its way until it ends the Reconcile.              *)
LEMMA DoomedStays ==
    ASSUME Doomed, [Next]_vars PROVE Doomed' \/ At' = "idle"
<1>0. pc = "status" /\ call.result.kind = "nil" BY DEF Doomed, NilResult
<1>1. CASE UNCHANGED <<pc, call>> BY <1>1 DEF Doomed
<1>2. CASE Environment BY <1>1, <1>2 DEF Environment, workerVars
<1>3. Return(TRUE) => At' = "idle" BY EndsMove
<1>4. CASE UpdateCRDStatus BY <1>0, <1>3, <1>4 DEF UpdateCRDStatus
<1>5. CASE Faults
  <2>1. Crash => At' = "idle" BY EndsMove DEF Crash
  <2> QED BY <1>0, <1>3, <1>5, <2>1 DEF Faults, CallFails, ReplyLost, DestroyPoints
<1>6. ~Begin /\ ~End
  BY <1>0 DEF Begin, Pick, GetClusterResources, NewIAMClient, AddFinalizer, End, Final, Finish,
              Requeue
<1>7. ~Destroy
  BY <1>0 DEF Destroy, DestroyRoles, DestroyDetach, DestroyPolicies, DestroyRole, Unfinalize
<1>8. ~Prune
  BY <1>0 DEF Prune, List, StaleRefs, StaleDetach, DropRoles, DropDetach, DropPolicies,
              DropPolicy, DropEntities, DropEntityPolicy
<1>9. ~Provide
  BY <1>0 DEF Provide, SyncRole, SyncRolesDone, CreateMissingRole, UpdateRoleTrust, SyncPolicies,
              CreateMissingPolicy, AttachNew, UpdDetach, UpdDelete, UpdCreate, UpdAttach,
              CheckAttached, Attach
<1>10. UNCHANGED vars => UNCHANGED <<pc, call>> BY DEF vars, workerVars
<1> QED BY <1>1, <1>2, <1>4, <1>5, <1>6, <1>7, <1>8, <1>9, <1>10 DEF Next, Worker

LEMMA InitSync == Init => SyncInv
<1> SUFFICES ASSUME Init PROVE SyncInv OBVIOUS
<1>1. OnlyOurs BY DEF Init, IAMInit, OnlyOurs, RoleExists
<1>2. At = "idle" BY DEF Init, At
<1>3. PrunedAt(At, w, air.spec)
  BY <1>2 DEF PrunedAt, PrunePoints, RolePrunePoints, PolicyPoints, SyncRolePoints, SyncPolicyPoints
<1>4. ProvidedAt(At, w, air.spec) BY <1>2 DEF ProvidedAt, SyncRolePoints, SyncPolicyPoints
<1> QED BY <1>1, <1>3, <1>4 DEF SyncInv

LEMMA NextSync ==
    ASSUME DistinctNames, MaxDrift = 0,
           TypeInv, WithinBounds, PassInv, ProtocolInv, SyncInv, [Next]_vars
    PROVE  SyncInv'
<1>1. MaxForeign = 0 => OnlyOurs' BY OnlyOursStep DEF SyncInv
<1> SUFFICES PrunedAt(At, w, air.spec)' /\ (Doomed' \/ ProvidedAt(At, w, air.spec)')
  BY <1>1 DEF SyncInv
<1>2. ASSUME At' \notin BusyPoints PROVE PrunedAt(At, w, air.spec)' /\ ProvidedAt(At, w, air.spec)'
  <2>1. At' \notin PrunePoints \cup SyncRolePoints \cup {"syncRoles", "final", "return"}
    BY <1>2 DEF BusyPoints
  <2> QED BY <2>1, NothingProvided DEF PrunedAt
<1>3. CASE Prune BY <1>3, StaleSync, DropSync DEF Prune
<1>4. CASE Provide \/ ReplyLost
  <2>1. pc \in SyncRolePoints \cup {"syncRoles"} /\ (air' = air \/ At' = "idle")
    BY <1>4, ProvideStart
  <2>2. ProvidedThen
    BY <1>4, SyncRoleSync, RoleSync, SyncPoliciesSync, PolicySync DEF Provide, ReplyLost
  <2>3. CASE air' = air
    <3>1. air'.spec = air.spec BY <2>3
    <3>2. PrunedAt(At, w, air.spec)' BY <2>1, <2>2, <3>1, ProvidePruned DEF ProvidedThen
    <3> QED BY <2>2, <3>2 DEF ProvidedThen
  <2>4. CASE At' = "idle"
    BY <1>2, <2>4
    DEF BusyPoints, PrunePoints, RolePrunePoints, PolicyPoints, SyncRolePoints, SyncPolicyPoints
  <2> QED BY <2>1, <2>3, <2>4
<1>5. CASE Final
  <2>1. /\ pc = "final" /\ At = pc /\ UNCHANGED iamVars
        /\ At' = "return" /\ w' = w /\ air' = air
    BY <1>5, EndsMove DEF Final, At
  <2>2. At' \notin PrunePoints /\ At' \notin SyncRolePoints /\ At' \notin SyncPolicyPoints
    BY <2>1 DEF PrunePoints, RolePrunePoints, PolicyPoints, SyncRolePoints, SyncPolicyPoints
  <2>3. PrunedAt(At, w, air.spec)' BY <2>1, <2>2, ProvidePruned
  <2>4. \A e \in DOMAIN air.spec.roles : EntryProvided(air.spec, e, w.arn)
    BY <2>1, StillGood DEF ProvidedAt
  <2>5. \A e : EntryProvided(air.spec, e, w.arn) => EntryNext(e)
    BY <2>1 DEF EntryProvided, EntryNext, RoleProvided, RoleNext, PairProvided, PairNext,
                PolicyProvided, PolicyNext, RoleExists, PolicyExists, Trust, iamVars
  <2>6. ProvidedAt(At, w, air.spec)'
    BY <2>1, <2>2, <2>4, <2>5, ProvidedNext DEF SyncRolePoints, SyncPolicyPoints
  <2> QED BY <2>3, <2>6
<1>6. CASE ~Prune /\ ~Provide /\ ~ReplyLost /\ ~Final
  <2>1. CASE Same /\ At \in BusyPoints
    <3>1. ~Destroy
      <4>1. pc \notin DestroyPoints \cup {"unfinalize"}
        BY <2>1 DEF At, BusyPoints, PrunePoints, RolePrunePoints, PolicyPoints, SyncRolePoints,
                    SyncPolicyPoints, DestroyPoints
      <4> QED
        BY <4>1 DEF Destroy, DestroyRoles, DestroyDetach, DestroyPolicies, DestroyRole,
                    Unfinalize, DestroyPoints
    <3>2. UNCHANGED iamVars \/ Foreign BY <1>6, <3>1, AnyChange, BoundsAssumption DEF Pass
    <3>3. UNCHANGED iamVars => Grown BY DEF Grown, iamVars, InPath
    <3>4. Grown
      <4>1. IAMTypeOK BY DEF TypeInv
      <4> QED BY <3>2, <3>3, <4>1, ForeignGrows
    <3>5. PrunedAt(At, w, air.spec)' /\ (ProvidedAt(At, w, air.spec) => ProvidedAt(At, w, air.spec)')
      BY <2>1, <3>4, SameSync DEF SyncInv
    <3>6. Doomed => Doomed' \/ At' \notin BusyPoints
      BY DoomedStays
      DEF BusyPoints, PrunePoints, RolePrunePoints, PolicyPoints, SyncRolePoints, SyncPolicyPoints
    <3> QED BY <1>2, <3>5, <3>6 DEF SyncInv
  <2>2. CASE At' \notin BusyPoints BY <1>2, <2>2
  <2>3. Same => At' = At BY DEF Same
  <2> QED BY <1>6, <2>1, <2>2, <2>3, StayOrEnd
<1> QED BY <1>3, <1>4, <1>5, <1>6

(* As long as nobody else removes anything, and no map of a specification  *)
(* uses one name twice: from the listing on, what carries the tags is      *)
(* wanted or still to be looked at; and of the entries ranged over, those  *)
(* behind the worker stay as their specification says, or the nil result   *)
(* of a creation that came too late is about to end the Reconcile.         *)
THEOREM SyncInvariance == ASSUME DistinctNames, MaxDrift = 0 PROVE Spec => []SyncInv
<1>1. TypeInv /\ WithinBounds /\ PassInv /\ ProtocolInv /\ SyncInv /\ [Next]_vars => SyncInv'
  BY NextSync
<1> QED BY <1>1, InitSync, ScopeCorrect, LeftWithin, PassInvariance, ProtocolInvariance, PTL DEF Spec

----------------------------------------------------------------------------
(* A Reconcile without an error ends in sync *)

LEMMA EndProvided ==
    ASSUME TypeInv, SyncInv, pc \in {"final", "return"} PROVE Provided(air.spec, w.arn)
<1> DEFINE s == air.spec
<1>1. At = pc /\ pc \in BusyPoints /\ pc \notin PrunePoints
      /\ pc \notin {"staleRefs", "staleDetach", "dropDetach", "dropPolicy", "dropEntityPolicy",
                    "dropEntities", "syncRoles"}
  BY DEF At, BusyPoints, PrunePoints, RolePrunePoints, PolicyPoints
<1>2. PrunedAt(pc, w, s) /\ ProvidedAt(pc, w, s) BY <1>1, StillGood DEF SyncInv
<1>3. RolesLeft(pc, w) = {} /\ PoliciesLeft(pc, w) = {}
  BY <1>1 DEF RolesLeft, PoliciesLeft, PrunePoints
<1>4. \A e \in DOMAIN s.roles : EntryProvided(s, e, w.arn) BY <1>1, <1>2 DEF ProvidedAt
<1>5. air \in Object
  <2>1. ScopeAt(pc, w, air) BY <1>1, ScopeThere
  <2> QED BY <2>1 DEF ScopeAt
<1>6. s \in Spec_ BY <1>5, ObjectSpec
<1> HIDE DEF s
<1>7. /\ \A r \in RoleName : RoleExists(r) /\ roles[r].cluster = s.cluster => r \in RolesNamed(s)
      /\ \A p \in PolicyName : Carries(p, s.cluster) => p \in PoliciesNamed(s)
      /\ \A e \in DOMAIN s.roles, p \in PolicyName :
           Ours(s.roles[e].name) /\ <<s.roles[e].name, p>> \in attached /\ Carries(p, s.cluster)
             => p \in s.roles[e].policies
  BY <1>1, <1>2, <1>3, PrunedFacts
<1>8. RolesTagged(s.cluster) \subseteq RolesNamed(s) BY <1>7 DEF RolesTagged
<1>9. PoliciesTagged(s.cluster) \subseteq PoliciesNamed(s) BY <1>7 DEF PoliciesTagged, Carries
<1>10. ASSUME NEW e \in DOMAIN s.roles
       PROVE  LET r     == s.roles[e].name
                  names == {s.policies[i].name : i \in Wanted(s, e)}
              IN /\ RoleExists(r)
                 /\ roles[r].trust = <<s.roles[e].template, w.arn>>
                 /\ names \subseteq PoliciesOf(r)
                 /\ Ours(r) => PoliciesOf(r) \cap PoliciesTagged(s.cluster) \subseteq names
                 /\ \A i \in Wanted(s, e) : policies[s.policies[i].name].doc = s.policies[i].doc
  <2>1. RoleProvided(s, e, w.arn) /\ \A i \in Wanted(s, e) : PairProvided(s, e, i)
    BY <1>4 DEF EntryProvided
  <2>2. \A i \in Wanted(s, e) : s.policies[i].name \in PoliciesOf(s.roles[e].name)
    BY <1>6, <2>1, SpecFields DEF PairProvided, PolicyProvided, PoliciesOf, AttachedTo, Wanted
  <2>3. ASSUME Ours(s.roles[e].name),
               NEW p \in PoliciesOf(s.roles[e].name) \cap PoliciesTagged(s.cluster)
        PROVE  p \in {s.policies[i].name : i \in Wanted(s, e)}
    <3>1. p \in PolicyName /\ Carries(p, s.cluster) /\ <<s.roles[e].name, p>> \in attached
      BY DEF PoliciesOf, AttachedTo, PoliciesTagged, Carries
    <3>2. p \in PoliciesNamed(s) /\ p \in s.roles[e].policies BY <1>7, <2>3, <3>1
    <3> QED BY <3>2 DEF PoliciesNamed, Wanted
  <2> QED BY <2>1, <2>2, <2>3 DEF RoleProvided, PairProvided, PolicyProvided
<1>11. Provided(s, w.arn) BY <1>8, <1>9, <1>10 DEF Provided
<1> QED BY <1>11 DEF s

(* In an account where every role is the operator's nothing is adopted.    *)
LEMMA NothingAdopted ==
    ASSUME NEW s \in Spec_, NEW a, Provided(s, a), \A r \in RoleName : RoleExists(r) => Ours(r)
    PROVE  InSync(s, a)
<1>1. ASSUME NEW e \in DOMAIN s.roles,
             NEW p \in PoliciesOf(s.roles[e].name) \cap PoliciesTagged(s.cluster)
      PROVE  p \in s.roles[e].policies
  <2> DEFINE r == s.roles[e].name
             names == {s.policies[i].name : i \in Wanted(s, e)}
  <2>1. RoleExists(r) /\ (Ours(r) => PoliciesOf(r) \cap PoliciesTagged(s.cluster) \subseteq names)
    BY DEF Provided
  <2>2. Ours(r) BY <2>1, SpecFields
  <2>3. names \subseteq s.roles[e].policies BY DEF Wanted
  <2> QED BY <1>1, <2>1, <2>2, <2>3
<1> QED BY <1>1 DEF InSync

(* A Reconcile that gets to its end without an error has brought into      *)
(* being what its specification asks for, whatever state the account was   *)
(* in and in whatever order the maps were ranged over, across any number   *)
(* of faults, crashes and earlier passes, and whatever other tools create  *)
(* meanwhile, also under the names of the specification, as long as nobody *)
(* else removes anything and no map of a specification uses one name       *)
(* twice.  Others that remove undo what the pass has just provided.        *)
THEOREM ProvidedAtEndHolds ==
    ASSUME DistinctNames, MaxDrift = 0 PROVE Spec => []ProvidedAtEnd
<1>1. TypeInv /\ SyncInv => ProvidedAtEnd BY EndProvided DEF ProvidedAtEnd
<1> QED BY <1>1, ScopeCorrect, SyncInvariance, PTL

(* When nobody else changes the account at all, it is then exactly what    *)
(* the specification asks for.  A role that others make under a name of    *)
(* the specification is adopted, but what is attached to it is listed      *)
(* through the path, so that what an edit dropped stays attached to it.    *)
THEOREM SyncedAtEndHolds ==
    ASSUME DistinctNames, MaxDrift = 0, MaxForeign = 0 PROVE Spec => []SyncedAtEnd
<1>1. ASSUME TypeInv, SyncInv, pc \in {"final", "return"} PROVE InSync(air.spec, w.arn)
  <2>1. ScopeAt(pc, w, air)
    BY <1>1, ScopeThere DEF At
  <2>2. air.spec \in Spec_ BY <1>1, <2>1, ObjectSpec DEF ScopeAt
  <2> QED BY <1>1, <2>2, EndProvided, NothingAdopted DEF SyncInv, OnlyOurs
<1>2. TypeInv /\ SyncInv => SyncedAtEnd BY <1>1 DEF SyncedAtEnd
<1> QED BY <1>2, ScopeCorrect, SyncInvariance, PTL
=============================================================================
