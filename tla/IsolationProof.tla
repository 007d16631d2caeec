--------------------------- MODULE IsolationProof ---------------------------
(***************************************************************************)
(* Isolation for every value of the constants: objects of different        *)
(* clusters that use different names never disturb each other, for any     *)
(* number of objects, under faults, crashes, drift and entities of others. *)
(*                                                                         *)
(* The worker finds entities in three ways: by the names of the            *)
(* specification at hand, by tags, and by what is attached to what it has  *)
(* found.  The invariant says that each of them leads only to what is the  *)
(* object's own: every entity under the path has a name and a cluster of   *)
(* one and the same object, and so have the two ends of an attachment.     *)
(***************************************************************************)
EXTENDS ProtocolProof

(* The clusters an object's versions are for.                              *)
Clusters(c) == {s.cluster : s \in SpecsOf[c]}

(* The objects share no cluster and no name.                               *)
Disjoint == \A c, d \in CR : c # d => /\ Clusters(c) \cap Clusters(d) = {}
                                      /\ OwnRoles(c) \cap OwnRoles(d) = {}
                                      /\ OwnPolicies(c) \cap OwnPolicies(d) = {}

(* Every entity under the path is of one object, and an attached policy    *)
(* exists.                                                                 *)
RoleOwned(r)   == \E c \in CR : r \in OwnRoles(c) /\ roles[r].cluster \in Clusters(c)
PolicyOwned(p) == \E c \in CR : p \in OwnPolicies(c) /\ policies[p].cluster \in Clusters(c)
PairOwned(r, p) == \E c \in CR : r \in OwnRoles(c) /\ p \in OwnPolicies(c)

IAMOwned ==
    /\ \A r \in RoleName : Ours(r) => RoleOwned(r)
    /\ \A p \in PolicyName : PolicyExists(p) => PolicyOwned(p)
    /\ \A r \in RoleName, p \in PolicyName : <<r, p>> \in attached =>
         policies[p] # None /\ (PolicyExists(p) => PairOwned(r, p))

(* What the local variables name is the object's.                          *)
Within(x, c) == /\ x.role \in OwnRoles(c) \cup {None}
                /\ x.pol \in OwnPolicies(c) \cup {None}
                /\ x.pend \subseteq OwnPolicies(c)
                /\ x.listed \subseteq OwnPolicies(c)
                /\ x.kill \subseteq OwnPolicies(c)
                /\ x.dropRoles \subseteq OwnRoles(c)
                /\ x.ents \subseteq OwnRoles(c)

LocalsOwned == IF pc = "idle" THEN w = NoLocals ELSE Within(w, cur)

IsolationInv == IAMOwned /\ LocalsOwned

----------------------------------------------------------------------------
(* The operations of IAM *)

(* What is not the object's stays as it is.                                *)
Spares(c) == /\ \A r \in RoleName \ OwnRoles(c) :
                  roles'[r] = roles[r] /\ AttachedTo(r)' = AttachedTo(r)
             /\ \A p \in PolicyName \ OwnPolicies(c) : policies'[p] = policies[p]

(* Nothing happens to the account.                                         *)
LEMMA SameOwned == ASSUME IAMOwned, UNCHANGED iamVars PROVE IAMOwned' /\ \A c : Spares(c)
BY DEF IAMOwned, iamVars, Spares, RoleOwned, PolicyOwned, PairOwned, Ours, PolicyExists,
       InPath, AttachedTo

(* An attachment goes.                                                     *)
LEMMA DetachOwned ==
    ASSUME IAMOwned, NEW p, NEW r, DetachRolePolicy(p, r)
    PROVE  IAMOwned' /\ \A c : r \in OwnRoles(c) => Spares(c)
<1>1. UNCHANGED <<roles, policies>> /\ attached' \subseteq attached
      /\ \A x, y : <<x, y>> \in attached' \/ x = r \/ <<x, y>> \notin attached
  BY DEF DetachRolePolicy
<1>2. IAMOwned'
  BY <1>1 DEF IAMOwned, RoleOwned, PolicyOwned, PairOwned, Ours, PolicyExists, InPath
<1>3. ASSUME NEW c, r \in OwnRoles(c) PROVE Spares(c)
  <2>1. ASSUME NEW x \in RoleName \ OwnRoles(c) PROVE AttachedTo(x)' = AttachedTo(x)
    BY <1>1, <1>3, <2>1 DEF AttachedTo
  <2> QED BY <1>1, <2>1 DEF Spares
<1> QED BY <1>2, <1>3

(* An attachment of the object's role and policy comes.                    *)
LEMMA AttachOwned ==
    ASSUME IAMOwned, NEW c \in CR, NEW r \in OwnRoles(c), NEW p \in OwnPolicies(c),
           CanAttach(p, r), AttachRolePolicy(p, r)
    PROVE  IAMOwned' /\ Spares(c)
<1>1. UNCHANGED <<roles, policies>> /\ attached' = attached \cup {<<r, p>>}
  BY DEF AttachRolePolicy
<1>2. policies[p] # None /\ PairOwned(r, p) BY DEF CanAttach, PolicyExists, InPath, PairOwned
<1>3. IAMOwned'
  <2>1. ASSUME NEW x \in RoleName, NEW y \in PolicyName, <<x, y>> \in attached'
        PROVE  policies[y] # None /\ (PolicyExists(y) => PairOwned(x, y))
    BY <1>1, <1>2, <2>1 DEF IAMOwned
  <2> QED
    BY <1>1, <2>1 DEF IAMOwned, RoleOwned, PolicyOwned, PairOwned, Ours, PolicyExists, InPath
<1>4. ASSUME NEW x \in RoleName \ OwnRoles(c) PROVE AttachedTo(x)' = AttachedTo(x)
  BY <1>1, <1>4 DEF AttachedTo
<1> QED BY <1>1, <1>3, <1>4 DEF Spares

(* A policy that is attached to nothing goes.                              *)
LEMMA DeletePolicyOwned ==
    ASSUME IAMTypeOK, IAMOwned, NEW p, CanDeletePolicy(p), DeletePolicy(p)
    PROVE  IAMOwned' /\ \A c : p \in OwnPolicies(c) => Spares(c)
<1>1. /\ UNCHANGED <<roles, attached>>
      /\ \A q \in PolicyName : policies'[q] = policies[q] \/ (q = p /\ policies'[q] = None)
      /\ \A q \in PolicyName : q # p => policies'[q] = policies[q]
      /\ \A q \in PolicyName : q = p /\ policies'[q] # policies[q] => PolicyExists(p)
  BY DEF DeletePolicy, IAMTypeOK
<1>2. \A q \in PolicyName : policies'[q] # policies[q] => HoldersOf(q) = {}
  BY <1>1 DEF CanDeletePolicy
<1>3. \A r \in RoleName, q \in PolicyName : <<r, q>> \in attached => policies'[q] = policies[q]
  BY <1>2 DEF HoldersOf
<1>4. \A q \in PolicyName : PolicyExists(q)' => policies'[q] = policies[q] /\ PolicyExists(q)
  BY <1>1 DEF PolicyExists, InPath
<1>5. IAMOwned'
  <2>1. \A r \in RoleName : Ours(r)' => RoleOwned(r)'
    BY <1>1 DEF IAMOwned, Ours, InPath, RoleOwned
  <2>2. \A q \in PolicyName : PolicyExists(q)' => PolicyOwned(q)'
    BY <1>4 DEF IAMOwned, PolicyOwned
  <2>3. ASSUME NEW r \in RoleName, NEW q \in PolicyName, <<r, q>> \in attached'
        PROVE  policies'[q] # None /\ (PolicyExists(q)' => PairOwned(r, q))
    BY <1>1, <1>3, <1>4, <2>3 DEF IAMOwned
  <2> QED BY <2>1, <2>2, <2>3 DEF IAMOwned, PairOwned
<1> QED BY <1>1, <1>5 DEF Spares, AttachedTo

(* A role goes.                                                            *)
LEMMA DeleteRoleOwned ==
    ASSUME IAMTypeOK, IAMOwned, NEW r, DeleteRole(r)
    PROVE  IAMOwned' /\ \A c : r \in OwnRoles(c) => Spares(c)
<1>1. /\ UNCHANGED <<policies, attached>>
      /\ \A x \in RoleName : roles'[x] = IF x = r THEN None ELSE roles[x]
  BY DEF DeleteRole, IAMTypeOK
<1>2. \A x \in RoleName : Ours(x)' => roles'[x] = roles[x] /\ Ours(x)
  BY <1>1 DEF Ours, InPath
<1>3. IAMOwned'
  <2>1. \A x \in RoleName : Ours(x)' => RoleOwned(x)' BY <1>2 DEF IAMOwned, RoleOwned
  <2> QED BY <1>1, <2>1 DEF IAMOwned, PolicyOwned, PairOwned, PolicyExists, InPath
<1> QED BY <1>1, <1>3 DEF Spares, AttachedTo

(* A role gets another trust document.                                     *)
LEMMA UpdateRoleOwned ==
    ASSUME IAMTypeOK, IAMOwned, NEW r, NEW t, UpdateRole(r, t)
    PROVE  IAMOwned' /\ \A c : r \in OwnRoles(c) => Spares(c)
<1>1. /\ UNCHANGED <<policies, attached>>
      /\ \A x \in RoleName : x # r => roles'[x] = roles[x]
      /\ r \in RoleName => roles'[r] = IF RoleExists(r) THEN [roles[r] EXCEPT !.trust = t]
                                                        ELSE roles[r]
  BY DEF UpdateRole, IAMTypeOK
<1>2. ASSUME NEW x \in RoleName, Ours(x)' PROVE Ours(x) /\ roles'[x].cluster = roles[x].cluster
  <2>1. CASE x = r /\ RoleExists(r)
    <3>1. roles[r] \in RoleEntry BY <2>1 DEF RoleExists, IAMTypeOK
    <3>2. roles'[r].cluster = roles[r].cluster BY <1>1, <2>1, <3>1 DEF RoleEntry
    <3> QED BY <1>2, <2>1, <3>2 DEF Ours, InPath, RoleExists
  <2>2. CASE ~(x = r /\ RoleExists(r)) BY <1>1, <1>2, <2>2 DEF Ours, InPath
  <2> QED BY <2>1, <2>2
<1>3. IAMOwned'
  <2>1. \A x \in RoleName : Ours(x)' => RoleOwned(x)' BY <1>2 DEF IAMOwned, RoleOwned
  <2> QED BY <1>1, <2>1 DEF IAMOwned, PolicyOwned, PairOwned, PolicyExists, InPath
<1> QED BY <1>1, <1>3 DEF Spares, AttachedTo

(* A role, or a policy, of the object comes.                               *)
LEMMA CreateRoleOwned ==
    ASSUME IAMTypeOK, IAMOwned, NEW c \in CR, NEW r \in OwnRoles(c), NEW k \in Clusters(c),
           NEW t, CreateRole(r, t, k)
    PROVE  IAMOwned' /\ Spares(c)
<1>1. /\ UNCHANGED <<policies, attached>>
      /\ \A x \in RoleName : x # r => roles'[x] = roles[x]
      /\ r \in RoleName => roles'[r] = IF RoleExists(r) THEN roles[r]
                                                        ELSE [trust |-> t, cluster |-> k]
  BY DEF CreateRole, IAMTypeOK
<1>2. ASSUME NEW x \in RoleName, Ours(x)' PROVE RoleOwned(x)'
  <2>1. CASE x = r /\ ~RoleExists(r) BY <1>1, <2>1 DEF RoleOwned
  <2>2. CASE ~(x = r /\ ~RoleExists(r))
    BY <1>1, <1>2, <2>2 DEF IAMOwned, RoleOwned, Ours, InPath
  <2> QED BY <2>1, <2>2
<1>3. IAMOwned' BY <1>1, <1>2 DEF IAMOwned, PolicyOwned, PairOwned, PolicyExists, InPath
<1> QED BY <1>1, <1>3 DEF Spares, AttachedTo

LEMMA CreatePolicyOwned ==
    ASSUME IAMTypeOK, IAMOwned, NEW c \in CR, NEW p \in OwnPolicies(c), NEW k \in Clusters(c),
           NEW d, CreatePolicy(p, d, k)
    PROVE  IAMOwned' /\ Spares(c)
<1>1. /\ UNCHANGED <<roles, attached>>
      /\ \A q \in PolicyName : q # p => policies'[q] = policies[q]
      /\ p \in PolicyName => policies'[p] = IF policies[p] # None THEN policies[p]
                                            ELSE [doc |-> d, cluster |-> k]
  BY DEF CreatePolicy, IAMTypeOK
<1>2. ASSUME NEW q \in PolicyName, PolicyExists(q)' PROVE PolicyOwned(q)'
  <2>1. CASE q = p /\ policies[p] = None BY <1>1, <2>1 DEF PolicyOwned
  <2>2. CASE ~(q = p /\ policies[p] = None)
    BY <1>1, <1>2, <2>2 DEF IAMOwned, PolicyOwned, PolicyExists, InPath
  <2> QED BY <2>1, <2>2
<1>3. \A r \in RoleName, q \in PolicyName : <<r, q>> \in attached => policies'[q] = policies[q]
  BY <1>1 DEF IAMOwned
<1>4. IAMOwned'
  <2>1. \A r \in RoleName : Ours(r)' => RoleOwned(r)'
    BY <1>1 DEF IAMOwned, Ours, InPath, RoleOwned
  <2>2. ASSUME NEW r \in RoleName, NEW q \in PolicyName, <<r, q>> \in attached'
        PROVE  policies'[q] # None /\ (PolicyExists(q)' => PairOwned(r, q))
    BY <1>1, <1>3, <2>2 DEF IAMOwned, PolicyExists, InPath
  <2> QED BY <1>2, <2>1, <2>2 DEF IAMOwned, PairOwned
<1> QED BY <1>1, <1>4 DEF Spares, AttachedTo

(* What others do: they remove, or create outside the path.                *)
LEMMA OthersOwned == ASSUME IAMTypeOK, IAMOwned, OutOfBand \/ Foreign PROVE IAMOwned'
<1>1. CASE OutOfBand
  BY <1>1, DetachOwned, DeletePolicyOwned, DeleteRoleOwned DEF OutOfBand
<1>2. ASSUME NEW r \in RoleName, NEW t \in TrustDoc, ~RoleExists(r), CreateRole(r, t, None)
      PROVE  IAMOwned'
  <2>1. /\ UNCHANGED <<policies, attached>>
        /\ \A x \in RoleName : x # r => roles'[x] = roles[x]
        /\ roles'[r] = [trust |-> t, cluster |-> None]
    BY <1>2 DEF CreateRole, IAMTypeOK
  <2>2. ASSUME NEW x \in RoleName, Ours(x)' PROVE RoleOwned(x)'
    BY <2>1, <2>2 DEF IAMOwned, RoleOwned, Ours, InPath
  <2> QED BY <2>1, <2>2 DEF IAMOwned, PolicyOwned, PairOwned, PolicyExists, InPath
<1>3. ASSUME NEW p \in PolicyName, NEW d \in Doc, NEW R \in SUBSET RoleName, policies[p] = None,
             policies' = [policies EXCEPT ![p] = [doc |-> d, cluster |-> None]],
             attached' = attached \cup (R \X {p}), UNCHANGED roles
      PROVE  IAMOwned'
  <2>1. /\ \A q \in PolicyName : q # p => policies'[q] = policies[q]
        /\ policies'[p] = [doc |-> d, cluster |-> None]
    BY <1>3 DEF IAMTypeOK
  <2>2. \A q \in PolicyName : PolicyExists(q)' => q # p /\ policies'[q] = policies[q]
    BY <2>1 DEF PolicyExists, InPath
  <2>3. \A r \in RoleName : Ours(r)' => RoleOwned(r)'
    BY <1>3 DEF IAMOwned, Ours, InPath, RoleOwned
  <2>4. \A q \in PolicyName : PolicyExists(q)' => PolicyOwned(q)'
    BY <2>2 DEF IAMOwned, PolicyOwned, PolicyExists
  <2>5. policies'[p] # None BY <2>1, EntryAssumption DEF PolicyEntry, Owner
  <2>6. ASSUME NEW r \in RoleName, NEW q \in PolicyName, <<r, q>> \in attached'
        PROVE  policies'[q] # None /\ (PolicyExists(q)' => PairOwned(r, q))
    <3>1. CASE q = p BY <2>2, <2>5, <3>1
    <3>2. CASE q # p
      <4>1. <<r, q>> \in attached BY <1>3, <2>6, <3>2
      <4> QED BY <2>1, <3>2, <4>1 DEF IAMOwned, PolicyExists
    <3> QED BY <3>1, <3>2
  <2> QED BY <2>3, <2>4, <2>6 DEF IAMOwned, PairOwned
<1> QED BY <1>1, <1>2, <1>3 DEF Foreign

----------------------------------------------------------------------------
(* What the worker finds *)

(* The specification at hand is one of the object's.                       *)
LEMMA SpecOwned ==
    ASSUME TypeInv, SpecsKnown, pc # "idle", air \in Object
    PROVE  /\ cur \in CR
           /\ air.spec \in Spec_
           /\ air.spec.cluster \in Clusters(cur)
           /\ WantedRoles \subseteq OwnRoles(cur)
           /\ WantedPolicies \subseteq OwnPolicies(cur)
           /\ \A e \in DOMAIN air.spec.roles : air.spec.roles[e].name \in OwnRoles(cur)
           /\ \A i \in DOMAIN air.spec.policies : air.spec.policies[i].name \in OwnPolicies(cur)
<1>1. cur \in CR /\ air # None BY NoneAssumption DEF TypeInv, Scoped
<1>2. air.spec \in SpecsOf[cur] BY <1>1 DEF SpecsKnown, Known
<1>3. air.spec \in Spec_ BY DEF Object
<1>4. RolesNamed(air.spec) \subseteq OwnRoles(cur) BY <1>2 DEF OwnRoles
<1>5. PoliciesNamed(air.spec) \subseteq OwnPolicies(cur) BY <1>2 DEF OwnPolicies
<1> QED
  BY <1>1, <1>2, <1>3, <1>4, <1>5
  DEF Clusters, WantedRoles, WantedPolicies, RolesNamed, PoliciesNamed

(* What carries the tags of one of its clusters, and what is attached to   *)
(* what is its own, is its own.                                            *)
LEMMA FoundOwned ==
    ASSUME Disjoint, IAMOwned, NEW c \in CR
    PROVE  /\ \A k \in Clusters(c) : /\ RolesTagged(k) \subseteq OwnRoles(c)
                                     /\ PoliciesTagged(k) \subseteq OwnPolicies(c)
           /\ \A r \in RoleName : r \in OwnRoles(c) => PoliciesOf(r) \subseteq OwnPolicies(c)
           /\ \A p \in PolicyName : p \in OwnPolicies(c) /\ PolicyExists(p)
                => EntitiesOf(p) \subseteq OwnRoles(c)
<1>1. ASSUME NEW k \in Clusters(c)
      PROVE  RolesTagged(k) \subseteq OwnRoles(c) /\ PoliciesTagged(k) \subseteq OwnPolicies(c)
  <2>1. k \in Cluster /\ k # None
    BY KubeAssumption, NoneAssumption DEF Clusters, Spec_
  <2>2. ASSUME NEW r \in RolesTagged(k) PROVE r \in OwnRoles(c)
    <3>1. r \in RoleName /\ Ours(r) /\ roles[r].cluster = k
      BY <2>1 DEF RolesTagged, RoleExists, Ours, InPath
    <3>2. PICK d \in CR : r \in OwnRoles(d) /\ k \in Clusters(d)
      BY <3>1 DEF IAMOwned, RoleOwned
    <3> QED BY <3>2 DEF Disjoint
  <2>3. ASSUME NEW p \in PoliciesTagged(k) PROVE p \in OwnPolicies(c)
    <3>1. p \in PolicyName /\ PolicyExists(p) /\ policies[p].cluster = k BY DEF PoliciesTagged
    <3>2. PICK d \in CR : p \in OwnPolicies(d) /\ k \in Clusters(d)
      BY <3>1 DEF IAMOwned, PolicyOwned
    <3> QED BY <3>2 DEF Disjoint
  <2> QED BY <2>2, <2>3
<1>2. ASSUME NEW r \in RoleName, r \in OwnRoles(c), NEW p \in PoliciesOf(r)
      PROVE  p \in OwnPolicies(c)
  <2>1. PairOwned(r, p) BY DEF PoliciesOf, AttachedTo, IAMOwned
  <2> QED BY <1>2, <2>1 DEF PairOwned, Disjoint
<1>3. ASSUME NEW p \in PolicyName, p \in OwnPolicies(c), PolicyExists(p), NEW r \in EntitiesOf(p)
      PROVE  r \in OwnRoles(c)
  <2>1. PairOwned(r, p) BY <1>3 DEF EntitiesOf, HoldersOf, IAMOwned
  <2> QED BY <1>3, <2>1 DEF PairOwned, Disjoint
<1> QED BY <1>1, <1>2, <1>3

----------------------------------------------------------------------------
(* The steps of the worker *)

(* What is known before each of them, and what holds after it.             *)
Before == /\ TypeInv
          /\ SpecsKnown
          /\ Disjoint
          /\ IAMOwned
          /\ pc # "idle"
          /\ Within(w, cur)

After == IAMOwned' /\ LocalsOwned' /\ Spares(cur)

(* The ends of an action.                                                  *)
LEMMA EndsOwned ==
    /\ \A l, x : Goto(l, x) /\ l # "idle" /\ Within(x, cur) => LocalsOwned'
    /\ \A h, res, l, x : Report(h, res, l, x) /\ Within(x, cur) => LocalsOwned'
    /\ \A b : Return(b) => LocalsOwned'
    /\ ReturnError => LocalsOwned'
    /\ Within(w, cur) /\ DestroyFails => LocalsOwned'
    /\ Leave => LocalsOwned'
    /\ \A o, l : l # "idle" /\ Within(w, cur) /\ Update(o, l) => LocalsOwned'
<1>1. \A l, x : Goto(l, x) /\ l # "idle" /\ Within(x, cur) => LocalsOwned'
  BY DEF Goto, LocalsOwned, Within
<1>2. \A h, res, l, x : Report(h, res, l, x) /\ Within(x, cur) => LocalsOwned'
  BY DEF Report, LocalsOwned, Within
<1>3. Leave => LocalsOwned' BY DEF Leave, LocalsOwned, NoLocals
<1>4. \A b : Return(b) => LocalsOwned' BY <1>3 DEF Return
<1>5. \A o, l : l # "idle" /\ Within(w, cur) /\ Update(o, l) => LocalsOwned'
  BY <1>4 DEF Update, LocalsOwned, Within
<1> QED BY <1>1, <1>2, <1>3, <1>4, <1>5 DEF ReturnError, DestroyFails

(* A step that leaves IAM alone.                                           *)
LEMMA ReadsAfter ==
    ASSUME Before, UNCHANGED iamVars, LocalsOwned' PROVE After
BY SameOwned DEF Before, After

(* The destruction of what the specification names.                        *)
LEMMA DestroyAfter == ASSUME Before, Destroy PROVE After
<1> USE EndsOwned
<1>0. w \in Locals /\ Within(w, cur) /\ IAMTypeOK /\ IAMOwned
  BY DEF Before, TypeInv, WorkerTypeOK
<1>1. CASE DestroyRoles
  <2>1. air \in Object /\ w.todo \subseteq DOMAIN air.spec.roles
    BY <1>1 DEF DestroyRoles, Before, TypeInv, Scoped, ScopeAt, TodoPoints
  <2>2. LocalsOwned'
    <3>1. CASE w.todo = {} /\ Report("Destroyed", NoResult, "unfinalize", w) BY <1>0, <3>1
    <3>2. ASSUME NEW e \in w.todo,
                 \/ Goto("destroyRoles", [w EXCEPT !.todo = @ \ {e}])
                 \/ /\ RoleExists(air.spec.roles[e].name)
                    /\ Goto("destroyDetach",
                            [[w EXCEPT !.todo = @ \ {e}]
                               EXCEPT !.role = air.spec.roles[e].name,
                                      !.pend = PoliciesOf(air.spec.roles[e].name),
                                      !.kill = PoliciesOf(air.spec.roles[e].name)])
          PROVE  LocalsOwned'
      <4> DEFINE r == air.spec.roles[e].name
                 x == [w EXCEPT !.todo = @ \ {e}]
                 y == [x EXCEPT !.role = r, !.pend = PoliciesOf(r), !.kill = PoliciesOf(r)]
      <4>1. cur \in CR /\ r \in OwnRoles(cur) BY <2>1, SpecOwned DEF Before
      <4>2. r \in RoleName BY <2>1, SpecFields DEF Object
      <4>3. PoliciesOf(r) \subseteq OwnPolicies(cur) BY <4>1, <4>2, FoundOwned DEF Before
      <4>4. Within(x, cur) /\ Within(y, cur) BY <1>0, <4>1, <4>3 DEF Within, Locals
      <4>5. Goto("destroyRoles", x) \/ Goto("destroyDetach", y) BY <3>2
      <4> HIDE DEF x, y
      <4> QED BY <4>4, <4>5
    <3> QED BY <1>1, <3>1, <3>2 DEF DestroyRoles
  <2> QED BY <1>1, <2>2, ReadsAfter DEF DestroyRoles
<1>2. CASE DestroyDetach
  <2>1. w.role \in RoleName /\ w.role \in OwnRoles(cur)
    BY <1>0, <1>2, NoneAssumption
    DEF DestroyDetach, Before, TypeInv, Scoped, ScopeAt, RolePoints, Within
  <2>2. CASE Goto("destroyPolicies", w) /\ UNCHANGED iamVars BY <1>0, <2>2, ReadsAfter
  <2>3. ASSUME NEW p \in w.pend, DetachRolePolicy(p, w.role),
               Goto("destroyDetach", [w EXCEPT !.pend = @ \ {p}])
        PROVE  After
    <3>1. Within([w EXCEPT !.pend = @ \ {p}], cur) BY <1>0 DEF Within, Locals
    <3>2. IAMOwned' /\ Spares(cur) BY <1>0, <2>1, <2>3, DetachOwned
    <3> QED BY <2>3, <3>1, <3>2 DEF After
  <2> QED BY <1>2, <2>2, <2>3 DEF DestroyDetach
<1>3. CASE DestroyPolicies
  <2>1. CASE Goto("destroyRole", w) /\ UNCHANGED iamVars BY <1>0, <2>1, ReadsAfter
  <2>2. CASE DestroyFails BY <1>0, <2>2, ReadsAfter DEF DestroyFails
  <2>3. ASSUME NEW p \in w.kill, CanDeletePolicy(p), DeletePolicy(p),
               Goto("destroyPolicies", [w EXCEPT !.kill = @ \ {p}])
        PROVE  After
    <3>1. Within([w EXCEPT !.kill = @ \ {p}], cur) /\ p \in OwnPolicies(cur)
      BY <1>0 DEF Within, Locals
    <3>2. IAMOwned' /\ Spares(cur) BY <1>0, <2>3, <3>1, DeletePolicyOwned
    <3> QED BY <2>3, <3>1, <3>2 DEF After
  <2> QED BY <1>3, <2>1, <2>2, <2>3 DEF DestroyPolicies
<1>4. CASE DestroyRole
  <2>1. w.role \in OwnRoles(cur)
    BY <1>0, <1>4, NoneAssumption
    DEF DestroyRole, Before, TypeInv, Scoped, ScopeAt, RolePoints, Within
  <2>2. CASE DestroyFails BY <1>0, <2>2, ReadsAfter DEF DestroyFails
  <2>3. CASE DeleteRole(w.role) /\ Goto("destroyRoles", [w EXCEPT !.role = None])
    <3>1. Within([w EXCEPT !.role = None], cur) BY <1>0 DEF Within, Locals
    <3>2. IAMOwned' /\ Spares(cur) BY <1>0, <2>1, <2>3, DeleteRoleOwned
    <3> QED BY <2>3, <3>1, <3>2 DEF After
  <2> QED BY <1>4, <2>2, <2>3 DEF DestroyRole
<1>5. CASE Unfinalize BY <1>5, ReadsAfter DEF Unfinalize
<1> QED BY <1>1, <1>2, <1>3, <1>4, <1>5 DEF Destroy

(* The first half of a pruning: what is listed, what is detached.          *)
LEMMA StaleAfter == ASSUME Before, List \/ StaleRefs \/ StaleDetach PROVE After
<1> USE EndsOwned
<1>0. w \in Locals /\ Within(w, cur) /\ IAMTypeOK /\ IAMOwned
  BY DEF Before, TypeInv, WorkerTypeOK
<1>1. air \in Object
  BY DEF List, StaleRefs, StaleDetach, Before, TypeInv, Scoped, ScopeAt
<1>2. CASE List
  <2> DEFINE x == [w EXCEPT !.listed = PoliciesTagged(air.spec.cluster),
                            !.dropRoles = UnwantedRoles,
                            !.todo = DOMAIN air.spec.roles]
  <2>1. cur \in CR /\ air.spec.cluster \in Clusters(cur) BY <1>1, SpecOwned DEF Before
  <2>2. /\ PoliciesTagged(air.spec.cluster) \subseteq OwnPolicies(cur)
        /\ UnwantedRoles \subseteq OwnRoles(cur)
    BY <2>1, FoundOwned DEF Before, UnwantedRoles
  <2>3. Within(x, cur) BY <1>0, <2>2 DEF Within, Locals
  <2>4. Goto("staleRefs", x) /\ UNCHANGED iamVars BY <1>2 DEF List
  <2> HIDE DEF x
  <2> QED BY <2>3, <2>4, ReadsAfter
<1>3. CASE StaleRefs
  <2>1. w.todo \subseteq DOMAIN air.spec.roles
    BY <1>3 DEF StaleRefs, Before, TypeInv, Scoped, ScopeAt, TodoPoints
  <2>2. CASE Goto("dropRoles", w) BY <1>0, <1>3, <2>2, ReadsAfter DEF StaleRefs
  <2>3. CASE Return(TRUE) BY <1>3, <2>3, ReadsAfter DEF StaleRefs
  <2>4. ASSUME NEW e \in w.todo,
               Goto("staleDetach", [w EXCEPT !.todo = @ \ {e}, !.role = air.spec.roles[e].name,
                                             !.pend = Stale(e)])
        PROVE  After
    <3> DEFINE x == [w EXCEPT !.todo = @ \ {e}, !.role = air.spec.roles[e].name,
                              !.pend = Stale(e)]
    <3>1. air.spec.roles[e].name \in OwnRoles(cur) BY <1>1, <2>1, SpecOwned DEF Before
    <3>2. Stale(e) \subseteq w.listed BY DEF Stale, ListedOf
    <3>3. Within(x, cur) BY <1>0, <3>1, <3>2 DEF Within, Locals
    <3>4. Goto("staleDetach", x) /\ UNCHANGED iamVars BY <1>3, <2>4 DEF StaleRefs
    <3> HIDE DEF x
    <3> QED BY <3>3, <3>4, ReadsAfter
  <2> QED BY <1>3, <2>2, <2>3, <2>4 DEF StaleRefs
<1>4. CASE StaleDetach
  <2>1. w.role \in OwnRoles(cur)
    BY <1>0, <1>4, NoneAssumption
    DEF StaleDetach, Before, TypeInv, Scoped, ScopeAt, RolePoints, Within
  <2>2. CASE Goto("staleRefs", [w EXCEPT !.role = None]) /\ UNCHANGED iamVars
    <3>1. Within([w EXCEPT !.role = None], cur) BY <1>0 DEF Within, Locals
    <3> QED BY <2>2, <3>1, ReadsAfter
  <2>3. ASSUME NEW p \in w.pend, DetachRolePolicy(p, w.role),
               Report("Provisioned", Policy(p), "staleDetach", [w EXCEPT !.pend = @ \ {p}])
        PROVE  After
    <3>1. Within([w EXCEPT !.pend = @ \ {p}], cur) BY <1>0 DEF Within, Locals
    <3>2. IAMOwned' /\ Spares(cur) BY <1>0, <2>1, <2>3, DetachOwned
    <3> QED BY <2>3, <3>1, <3>2 DEF After
  <2> QED BY <1>4, <2>2, <2>3 DEF StaleDetach
<1> QED BY <1>2, <1>3, <1>4

(* The second half: the roles and policies that are no longer wanted.      *)
LEMMA DropAfter ==
    ASSUME Before, DropRoles \/ DropDetach \/ DropPolicies PROVE After
<1> USE EndsOwned
<1>0. w \in Locals /\ Within(w, cur) /\ IAMTypeOK /\ IAMOwned /\ cur \in CR
  BY DEF Before, TypeInv, WorkerTypeOK, Scoped
<1>1. CASE DropRoles
  <2>1. CASE Goto("dropPolicies", [w EXCEPT !.listed = UnwantedPolicies])
    <3>1. Within([w EXCEPT !.listed = UnwantedPolicies], cur)
      BY <1>0 DEF Within, Locals, UnwantedPolicies
    <3> QED BY <1>1, <2>1, <3>1, ReadsAfter DEF DropRoles
  <2>2. ASSUME NEW r \in w.dropRoles,
               \/ Goto("dropRoles", [w EXCEPT !.dropRoles = @ \ {r}])
               \/ Goto("dropDetach", [[w EXCEPT !.dropRoles = @ \ {r}]
                                        EXCEPT !.role = r, !.pend = PoliciesOf(r)])
        PROVE  After
    <3> DEFINE x == [w EXCEPT !.dropRoles = @ \ {r}]
               y == [x EXCEPT !.role = r, !.pend = PoliciesOf(r)]
    <3>1. r \in OwnRoles(cur) /\ r \in RoleName BY <1>0 DEF Within, Locals
    <3>2. PoliciesOf(r) \subseteq OwnPolicies(cur) BY <1>0, <3>1, FoundOwned DEF Before
    <3>3. Within(x, cur) /\ Within(y, cur) BY <1>0, <3>1, <3>2 DEF Within, Locals
    <3>4. Goto("dropRoles", x) \/ Goto("dropDetach", y) BY <2>2
    <3> HIDE DEF x, y
    <3> QED BY <1>1, <3>3, <3>4, ReadsAfter DEF DropRoles
  <2> QED BY <1>1, <2>1, <2>2 DEF DropRoles
<1>2. CASE DropDetach
  <2>1. w.role \in OwnRoles(cur)
    BY <1>0, <1>2, NoneAssumption
    DEF DropDetach, Before, TypeInv, Scoped, ScopeAt, RolePoints, Within
  <2>2. ASSUME NEW p \in w.pend, DetachRolePolicy(p, w.role),
               Report("Provisioned", Policy(p), "dropDetach", [w EXCEPT !.pend = @ \ {p}])
        PROVE  After
    <3>1. Within([w EXCEPT !.pend = @ \ {p}], cur) BY <1>0 DEF Within, Locals
    <3>2. IAMOwned' /\ Spares(cur) BY <1>0, <2>1, <2>2, DetachOwned
    <3> QED BY <2>2, <3>1, <3>2 DEF After
  <2>3. CASE ReturnError BY <2>3, ReadsAfter DEF ReturnError
  <2>4. CASE /\ DeleteRole(w.role)
             /\ Report("Provisioned", Role(w.role), "dropRoles", [w EXCEPT !.role = None])
    <3>1. Within([w EXCEPT !.role = None], cur) BY <1>0 DEF Within, Locals
    <3>2. IAMOwned' /\ Spares(cur) BY <1>0, <2>1, <2>4, DeleteRoleOwned
    <3> QED BY <2>4, <3>1, <3>2 DEF After
  <2> QED BY <1>2, <2>2, <2>3, <2>4 DEF DropDetach
<1>3. CASE DropPolicies
  <2>1. CASE Goto("syncRoles", [w EXCEPT !.todo = DOMAIN air.spec.roles])
    <3>1. Within([w EXCEPT !.todo = DOMAIN air.spec.roles], cur) BY <1>0 DEF Within, Locals
    <3> QED BY <1>3, <2>1, <3>1, ReadsAfter DEF DropPolicies
  <2>2. ASSUME NEW p \in w.listed
        PROVE  LET x == [w EXCEPT !.listed = @ \ {p}]
                   y == [x EXCEPT !.pol = p, !.ents = EntitiesOf(p)]
               IN /\ Within(x, cur)
                  /\ PolicyExists(p) => Within(y, cur)
    <3>1. p \in OwnPolicies(cur) /\ p \in PolicyName BY <1>0 DEF Within, Locals
    <3>2. PolicyExists(p) => EntitiesOf(p) \subseteq OwnRoles(cur)
      BY <1>0, <3>1, FoundOwned DEF Before
    <3> QED BY <1>0, <3>1, <3>2 DEF Within, Locals
  <2>3. ASSUME NEW p \in w.listed, NEW x, NEW y, Within(x, cur),
               PolicyExists(p) => Within(y, cur),
               \/ Goto("dropPolicies", x)
               \/ PolicyExists(p) /\ Goto("dropPolicy", y)
               \/ PolicyExists(p) /\ Goto("dropEntities", y)
        PROVE  After
    BY <1>3, <2>3, ReadsAfter DEF DropPolicies
  <2> QED BY <1>3, <2>1, <2>2, <2>3 DEF DropPolicies
<1> QED BY <1>1, <1>2, <1>3

LEMMA DropPolicyAfter ==
    ASSUME Before, DropPolicy \/ DropEntities \/ DropEntityPolicy PROVE After
<1> USE EndsOwned
<1>0. w \in Locals /\ Within(w, cur) /\ IAMTypeOK /\ IAMOwned
  BY DEF Before, TypeInv, WorkerTypeOK
<1>1. w.pol \in OwnPolicies(cur)
  BY <1>0, NoneAssumption
  DEF DropPolicy, DropEntities, DropEntityPolicy, Before, TypeInv, Scoped, ScopeAt, PolicyPoints,
      Within
<1>2. Within([w EXCEPT !.pol = None], cur) BY <1>0 DEF Within, Locals
<1>3. ASSUME NEW l, DropPolicyThen(l) PROVE After
  <2>1. CASE ReturnError BY <2>1, ReadsAfter DEF ReturnError
  <2>2. CASE /\ CanDeletePolicy(w.pol)
             /\ DeletePolicy(w.pol)
             /\ Report("Provisioned", Policy(w.pol), l,
                       IF l = "dropPolicies" THEN [w EXCEPT !.pol = None] ELSE w)
    <3>1. IAMOwned' /\ Spares(cur) BY <1>0, <1>1, <2>2, DeletePolicyOwned
    <3>2. LocalsOwned' BY <1>0, <1>2, <2>2
    <3> QED BY <3>1, <3>2 DEF After
  <2> QED BY <1>3, <2>1, <2>2 DEF DropPolicyThen
<1>4. CASE DropEntities
  <2>1. CASE Goto("dropPolicies", [w EXCEPT !.pol = None]) /\ UNCHANGED iamVars
    BY <1>2, <2>1, ReadsAfter
  <2>2. ASSUME NEW e \in w.ents, DetachRolePolicy(w.pol, e),
               Goto("dropEntityPolicy", [w EXCEPT !.ents = @ \ {e}])
        PROVE  After
    <3>1. Within([w EXCEPT !.ents = @ \ {e}], cur) /\ e \in OwnRoles(cur)
      BY <1>0 DEF Within, Locals
    <3>2. IAMOwned' /\ Spares(cur) BY <1>0, <2>2, <3>1, DetachOwned
    <3> QED BY <2>2, <3>1, <3>2 DEF After
  <2> QED BY <1>4, <2>1, <2>2 DEF DropEntities
<1> QED BY <1>3, <1>4 DEF DropPolicy, DropEntityPolicy

----------------------------------------------------------------------------
(* syncRole and syncPoliciesByRoleSpec *)

LEMMA SyncRoleAfter ==
    ASSUME Before, (\E e \in RoleKey : SyncRole(e)) \/ SyncRolesDone PROVE After
<1> USE EndsOwned
<1>0. w \in Locals /\ Within(w, cur) BY DEF Before, TypeInv, WorkerTypeOK
<1>1. CASE SyncRolesDone BY <1>0, <1>1, ReadsAfter DEF SyncRolesDone
<1>2. ASSUME NEW e \in RoleKey, SyncRole(e) PROVE After
  <2> DEFINE x == [w EXCEPT !.todo = @ \ {e}, !.entry = e, !.role = air.spec.roles[e].name,
                            !.refs = RefsOf(e), !.again = TRUE]
  <2>1. air \in Object /\ e \in DOMAIN air.spec.roles
    BY <1>2 DEF SyncRole, Before, TypeInv, Scoped, ScopeAt, TodoPoints
  <2>2. air.spec.roles[e].name \in OwnRoles(cur) BY <2>1, SpecOwned DEF Before
  <2>3. Within(x, cur) BY <1>0, <2>2 DEF Within, Locals
  <2>4. /\ UNCHANGED iamVars
        /\ \/ Report("Failed", NoResult, "requeue", w)
           \/ \E l \in {"createRole", "policies", "updateRole"} : Goto(l, x)
    BY <1>2 DEF SyncRole
  <2> HIDE DEF x
  <2> QED BY <1>0, <2>3, <2>4, ReadsAfter
<1> QED BY <1>1, <1>2

LEMMA RoleAfter == ASSUME Before, CreateMissingRole \/ UpdateRoleTrust PROVE After
<1> USE EndsOwned
<1>0. w \in Locals /\ Within(w, cur) /\ IAMTypeOK /\ IAMOwned
  BY DEF Before, TypeInv, WorkerTypeOK
<1>1. w.role \in OwnRoles(cur) /\ air \in Object
  BY <1>0, NoneAssumption
  DEF CreateMissingRole, UpdateRoleTrust, Before, TypeInv, Scoped, ScopeAt, SyncRolePoints, Within
<1>2. cur \in CR /\ air.spec.cluster \in Clusters(cur) BY <1>1, SpecOwned DEF Before
<1>3. CASE CreateMissingRole
  BY <1>0, <1>1, <1>2, <1>3, CreateRoleOwned DEF CreateMissingRole, After
<1>4. CASE UpdateRoleTrust
  BY <1>0, <1>1, <1>4, UpdateRoleOwned DEF UpdateRoleTrust, After
<1> QED BY <1>3, <1>4

LEMMA SyncPoliciesAfter == ASSUME Before, SyncPolicies PROVE After
<1> USE EndsOwned
<1>0. w \in Locals /\ Within(w, cur) BY DEF Before, TypeInv, WorkerTypeOK
<1>1. air \in Object /\ w.refs \subseteq DOMAIN air.spec.policies /\ UNCHANGED iamVars
  BY DEF SyncPolicies, Before, TypeInv, Scoped, ScopeAt, SyncRolePoints
<1>2. CASE w.refs = {}
  <2>1. /\ Within([w EXCEPT !.refs = RefsOf(w.entry), !.again = FALSE], cur)
        /\ Within([w EXCEPT !.entry = None, !.role = None], cur)
    BY <1>0 DEF Within, Locals
  <2> QED BY <1>1, <1>2, <2>1, ReadsAfter DEF SyncPolicies
<1>3. ASSUME NEW i \in w.refs,
             \E l \in {"createPolicy", "updDetach", "checkAttached"} :
               Goto(l, [w EXCEPT !.refs = @ \ {i}, !.item = i,
                                 !.pol = air.spec.policies[i].name])
      PROVE  After
  <2>1. air.spec.policies[i].name \in OwnPolicies(cur) BY <1>1, SpecOwned DEF Before
  <2>2. Within([w EXCEPT !.refs = @ \ {i}, !.item = i, !.pol = air.spec.policies[i].name], cur)
    BY <1>0, <2>1 DEF Within, Locals
  <2> QED BY <1>1, <1>3, <2>2, ReadsAfter
<1> QED BY <1>2, <1>3 DEF SyncPolicies

LEMMA PolicyAfter ==
    ASSUME Before,
           \/ CreateMissingPolicy \/ AttachNew \/ UpdDetach \/ UpdDelete
           \/ UpdCreate \/ UpdAttach \/ CheckAttached \/ Attach
    PROVE  After
<1> USE EndsOwned
<1>0. w \in Locals /\ Within(w, cur) /\ IAMTypeOK /\ IAMOwned /\ pc \in SyncPolicyPoints
  BY DEF Before, TypeInv, WorkerTypeOK, SyncPolicyPoints, CreateMissingPolicy, AttachNew,
         UpdDetach, UpdDelete, UpdCreate, UpdAttach, CheckAttached, Attach
<1>1. /\ w.role \in OwnRoles(cur)
      /\ w.pol \in OwnPolicies(cur)
      /\ air \in Object
  BY <1>0, NoneAssumption
  DEF Before, TypeInv, Scoped, ScopeAt, SyncRolePoints, SyncPolicyPoints, Within
<1>2. cur \in CR /\ air.spec.cluster \in Clusters(cur) BY <1>1, SpecOwned DEF Before
<1>3. /\ Within(NextItem, cur)
      /\ Within([NextItem EXCEPT !.made = FALSE], cur)
      /\ Within([w EXCEPT !.made = (policies[w.pol] = None)], cur)
  BY <1>0 DEF Within, NextItem, Locals
<1>4. CreateFromSpec => IAMOwned' /\ Spares(cur)
  BY <1>0, <1>1, <1>2, CreatePolicyOwned DEF CreateFromSpec
<1>5. ASSUME NEW res, NEW l, NEW x, Within(x, cur), AttachThen(res, l, x) PROVE After
  <2>1. CASE ReturnError BY <2>1, ReadsAfter DEF ReturnError
  <2>2. CASE /\ CanAttach(w.pol, w.role)
             /\ AttachRolePolicy(w.pol, w.role)
             /\ Report("Provisioned", res, l, x)
    <3>1. IAMOwned' /\ Spares(cur) BY <1>0, <1>1, <1>2, <2>2, AttachOwned
    <3>2. LocalsOwned' BY <1>5, <2>2
    <3> QED BY <3>1, <3>2 DEF After
  <2> QED BY <1>5, <2>1, <2>2 DEF AttachThen
<1>6. CASE CreateMissingPolicy BY <1>3, <1>4, <1>6 DEF CreateMissingPolicy, After
<1>7. CASE UpdCreate BY <1>0, <1>4, <1>7 DEF UpdCreate, After
<1>8. CASE AttachNew \/ UpdAttach \/ Attach
  BY <1>0, <1>3, <1>5, <1>8 DEF AttachNew, UpdAttach, Attach
<1>9. CASE UpdDetach BY <1>0, <1>1, <1>9, DetachOwned DEF UpdDetach, After
<1>10. CASE UpdDelete
  <2>1. CASE ReturnError BY <2>1, ReadsAfter DEF ReturnError
  <2>2. CASE CanDeletePolicy(w.pol) /\ DeletePolicy(w.pol) /\ Goto("updCreate", w)
    BY <1>0, <1>1, <2>2, DeletePolicyOwned DEF After
  <2> QED BY <1>10, <2>1, <2>2 DEF UpdDelete
<1>11. CASE CheckAttached
  BY <1>0, <1>3, <1>11, ReadsAfter DEF CheckAttached
<1> QED BY <1>6, <1>7, <1>8, <1>9, <1>10, <1>11

----------------------------------------------------------------------------
(* The rest of Reconcile, faults and the environment *)

LEMMA BeginAfter ==
    ASSUME Before, GetClusterResources \/ NewIAMClient \/ AddFinalizer \/ UpdateCRDStatus
    PROVE  After
<1> USE EndsOwned
<1>0. w \in Locals /\ Within(w, cur) BY DEF Before, TypeInv, WorkerTypeOK
<1>1. /\ Within([w EXCEPT !.arn = cp[air.spec.cluster]], cur)
      /\ Within([w EXCEPT !.todo = DOMAIN air.spec.roles], cur)
  BY <1>0 DEF Within, Locals
<1>2. CASE GetClusterResources
  BY <1>0, <1>1, <1>2, ReadsAfter DEF GetClusterResources
<1>3. CASE NewIAMClient BY <1>0, <1>1, <1>3, ReadsAfter DEF NewIAMClient
<1>4. CASE AddFinalizer BY <1>0, <1>4, ReadsAfter DEF AddFinalizer
<1>5. CASE UpdateCRDStatus
  <2>1. call.return # "idle"
    BY <1>5 DEF UpdateCRDStatus, Before, TypeInv, Scoped, ReturnPoints, DestroyPoints, SyncPoints
  <2> QED BY <1>0, <1>5, <2>1, ReadsAfter DEF UpdateCRDStatus
<1> QED BY <1>2, <1>3, <1>4, <1>5

LEMMA EndAfter == ASSUME Before, End PROVE After
<1> USE EndsOwned
<1>0. Within(w, cur) BY DEF Before
<1>1. CASE Final BY <1>0, <1>1, ReadsAfter DEF Final
<1>2. CASE Finish BY <1>2, ReadsAfter DEF Finish
<1>3. CASE Requeue BY <1>3, ReadsAfter DEF Requeue, ReturnError
<1> QED BY <1>1, <1>2, <1>3 DEF End

LEMMA FaultsAfter == ASSUME Before, Faults PROVE After
<1> USE EndsOwned
<1>0. w \in Locals /\ Within(w, cur) /\ IAMTypeOK /\ IAMOwned
  BY DEF Before, TypeInv, WorkerTypeOK
<1>1. CASE CallFails BY <1>0, <1>1, ReadsAfter DEF CallFails
<1>2. CASE Crash BY <1>2, ReadsAfter DEF Crash
<1>3. CASE ReplyLost
  <2>1. /\ w.role \in OwnRoles(cur)
        /\ pc = "createPolicy" => w.pol \in OwnPolicies(cur)
        /\ air \in Object
    BY <1>0, <1>3, NoneAssumption
    DEF ReplyLost, Before, TypeInv, Scoped, ScopeAt, SyncRolePoints, SyncPolicyPoints, Within
  <2>2. cur \in CR /\ air.spec.cluster \in Clusters(cur) BY <2>1, SpecOwned DEF Before
  <2>3. CASE /\ CreateRole(w.role, Trust(w.entry), air.spec.cluster)
             /\ Report("Provisioned", NilResult, "policies", w)
    BY <1>0, <2>1, <2>2, <2>3, CreateRoleOwned DEF After
  <2>4. CASE pc = "createPolicy" /\ CreateFromSpec /\ Goto("attachNew", w)
    BY <1>0, <2>1, <2>2, <2>4, CreatePolicyOwned DEF CreateFromSpec, After
  <2> QED BY <1>3, <2>3, <2>4 DEF ReplyLost
<1> QED BY <1>1, <1>2, <1>3 DEF Faults

(* A request is picked up with all local variables empty.                  *)
LEMMA PickAfter ==
    ASSUME IAMOwned, LocalsOwned, NEW c \in CR, Pick(c) PROVE IsolationInv' /\ Spares(cur)
<1>1. w' = NoLocals /\ UNCHANGED iamVars /\ pc' # "idle" BY DEF Pick, LocalsOwned
<1>2. Within(NoLocals, cur') BY DEF Within, NoLocals
<1> QED BY <1>1, <1>2, SameOwned DEF IsolationInv, LocalsOwned

(* The environment does not touch the local variables.                     *)
LEMMA EnvironmentAfter ==
    ASSUME IAMTypeOK, IAMOwned, LocalsOwned, Environment
    PROVE  IsolationInv' /\ (UNCHANGED workerVars \/ Spares(cur))
<1>1. UNCHANGED <<pc, cur, w>> BY DEF Environment, workerVars
<1>2. LocalsOwned' BY <1>1 DEF LocalsOwned, Within
<1>3. CASE UNCHANGED iamVars BY <1>2, <1>3, SameOwned DEF IsolationInv
<1>4. CASE OutOfBand \/ Foreign
  <2>1. IAMOwned' BY <1>4, OthersOwned
  <2>2. UNCHANGED workerVars \/ UNCHANGED iamVars BY DEF Environment
  <2> QED BY <1>2, <1>3, <2>1, <2>2 DEF IsolationInv
<1> QED BY <1>3, <1>4 DEF Environment

----------------------------------------------------------------------------
(* The inductive step of the theorem below.                                *)
LEMMA NextIsolation ==
    ASSUME TypeInv, ProtocolInv, Disjoint, IsolationInv, [Next]_vars
    PROVE  IsolationInv' /\ (UNCHANGED workerVars \/ Spares(cur))
<1>1. IAMTypeOK /\ IAMOwned /\ LocalsOwned BY DEF TypeInv, IsolationInv
<1>2. CASE UNCHANGED vars
  BY <1>1, <1>2, SameOwned DEF vars, workerVars, IsolationInv, LocalsOwned, Within
<1>3. ASSUME NEW c \in CR, Pick(c) PROVE IsolationInv' /\ Spares(cur)
  BY <1>1, <1>3, PickAfter
<1>4. CASE Environment BY <1>1, <1>4, EnvironmentAfter
<1>5. CASE pc = "idle" /\ Crash
  BY <1>1, <1>5, SameOwned, EndsOwned DEF Crash, IsolationInv
<1>6. CASE pc # "idle" /\ (Worker \/ Faults)
  <2>1. Before BY <1>1, <1>6 DEF Before, ProtocolInv, LocalsOwned
  <2>2. ~(\E c \in CR : Pick(c)) BY <1>6 DEF Pick
  <2>3. After
    BY <1>6, <2>1, <2>2, BeginAfter, DestroyAfter, StaleAfter, DropAfter, DropPolicyAfter,
       SyncRoleAfter, RoleAfter, SyncPoliciesAfter, PolicyAfter, EndAfter, FaultsAfter
    DEF Worker, Begin, Prune, Provide
  <2> QED BY <2>3 DEF After, IsolationInv
<1>7. pc = "idle" /\ (Worker \/ Faults) => (\E c \in CR : Pick(c)) \/ Crash
  BY DEF Worker, Begin, GetClusterResources, NewIAMClient, AddFinalizer, UpdateCRDStatus, Destroy,
         DestroyRoles, DestroyDetach, DestroyPolicies, DestroyRole, Unfinalize, Prune, List,
         StaleRefs, StaleDetach, DropRoles, DropDetach, DropPolicies, DropPolicy, DropEntities,
         DropEntityPolicy, Provide, SyncRole, SyncRolesDone, CreateMissingRole, UpdateRoleTrust,
         SyncPolicies, CreateMissingPolicy, AttachNew, UpdDetach, UpdDelete, UpdCreate, UpdAttach,
         CheckAttached, Attach, End, Final, Finish, Requeue, Faults, CallFails, ReplyLost,
         DestroyPoints, SyncPoints
<1> QED BY <1>2, <1>3, <1>4, <1>5, <1>6, <1>7 DEF Next

(* At the start there is nothing to own.                                   *)
LEMMA InitIsolation == Init => IsolationInv
BY NoneAssumption
DEF Init, IAMInit, IsolationInv, IAMOwned, LocalsOwned, Ours, InPath, PolicyExists

(* Everything under the path is of one object, and the worker holds names  *)
(* of its own object only.                                                 *)
THEOREM IsolationInvariance == ASSUME Disjoint PROVE Spec => []IsolationInv
<1>1. Init => IsolationInv BY InitIsolation
<1>2. TypeInv /\ ProtocolInv /\ IsolationInv /\ [Next]_vars => IsolationInv'
  BY NextIsolation
<1> QED BY <1>1, <1>2, ScopeCorrect, ProtocolInvariance, PTL DEF Spec

(* Objects that share neither a cluster nor a name never disturb each      *)
(* other: a pass changes no role and no policy of another object.          *)
THEOREM IsolationHolds == ASSUME Disjoint PROVE Spec => Isolation
<1>1. ASSUME TypeInv, ProtocolInv, IsolationInv, [Next]_vars
      PROVE  [cur # None =>
                /\ \A r \in RoleName \ OwnRoles(cur) :
                     roles'[r] = roles[r] /\ AttachedTo(r)' = AttachedTo(r)
                /\ \A p \in PolicyName \ OwnPolicies(cur) : policies'[p] = policies[p]]_workerVars
  BY <1>1, NextIsolation DEF Spares
<1> QED
  BY <1>1, IsolationInvariance, ScopeCorrect, ProtocolInvariance, PTL DEF Spec, Isolation
=============================================================================
