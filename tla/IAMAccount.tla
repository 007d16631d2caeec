----------------------------- MODULE IAMAccount -----------------------------
(***************************************************************************)
(* The AWS account as internal/aws_sdk shows it to the controller: roles,  *)
(* policies, and which policy is attached to which role.                   *)
(*                                                                         *)
(* The operator creates everything under the path /aws-iam-provisioner/    *)
(* with its two tags.  Other tools have entities of their own, outside the *)
(* path; names are unique in the account whatever the path.  A wrapper     *)
(* finds a role by its name alone, a policy by an ARN that holds the path, *)
(* and the listings look only at what is in the path.                      *)
(*                                                                         *)
(* A wrapper of the SDK turns "no such entity" and "already exists" into   *)
(* success where its Go code does; what remains an error is a predicate    *)
(* named Can... below, and the caller decides what an error means.         *)
(*                                                                         *)
(* Covered: create, delete, update, attach, detach, the listings by tag,   *)
(* by role and by policy, changes made behind the operator's back.         *)
(* Not covered: paging, AWS managed policies whose name is also that of a  *)
(* policy in the path; the tags themselves are in module OwnershipTags.    *)
(***************************************************************************)
EXTENDS Resources

VARIABLES
    roles,     \* role name -> its trust document and cluster tags, or None
    policies,  \* policy name -> its document (checksum tag) and cluster tags
    attached   \* the pairs <<role, policy>>

iamVars == <<roles, policies, attached>>

(* An entity outside the path has no cluster.                              *)
Owner == Cluster \cup {None}

RoleEntry   == [trust : TrustDoc, cluster : Owner]
PolicyEntry == [doc : Doc, cluster : Owner]

(* No entity is no entity.                                                 *)
ASSUME EntryAssumption == None \notin RoleEntry /\ None \notin PolicyEntry

IAMTypeOK == /\ roles \in [RoleName -> RoleEntry \cup {None}]
             /\ policies \in [PolicyName -> PolicyEntry \cup {None}]
             /\ attached \subseteq RoleName \X PolicyName

IAMInit == /\ roles = [r \in RoleName |-> None]
           /\ policies = [p \in PolicyName |-> None]
           /\ attached = {}

----------------------------------------------------------------------------
(* Queries *)

InPath(entity) == entity # None /\ entity.cluster # None

(* GetRoleByName asks for a name, GetPolicyByName for an ARN with the path. *)
RoleExists(r)   == roles[r] # None
PolicyExists(p) == InPath(policies[p])

(* Broken variants of the listings: the tags are not compared.             *)
RolesOfAll(k)    == {r \in RoleName : RoleExists(r)}
PoliciesOfAll(k) == {p \in PolicyName : PolicyExists(p)}

(* ListRolesByTags, ListPoliciesByTags: what carries the cluster's tags.   *)
RolesTagged(k)    == {r \in RoleName : RoleExists(r) /\ roles[r].cluster = k}
PoliciesTagged(k) == {p \in PolicyName : PolicyExists(p) /\ policies[p].cluster = k}

(* What IAM knows of attachments, and what ListAttachedRolePolicies and    *)
(* ListEntitiesForPolicy show of it: the policies GetPolicyByName finds and *)
(* the roles in the path.  Both answer with an error for an entity that is *)
(* gone, which the callers do not tolerate.                                *)
AttachedTo(r) == {p \in PolicyName : <<r, p>> \in attached}
HoldersOf(p)  == {r \in RoleName : <<r, p>> \in attached}
PoliciesOf(r) == {p \in AttachedTo(r) : PolicyExists(p)}
EntitiesOf(p) == {r \in HoldersOf(p) : InPath(roles[r])}

----------------------------------------------------------------------------
(* Operations *)

(* Deleting an entity that is gone is skipped; IAM refuses to delete one   *)
(* that is still attached.                                                 *)
CanDeletePolicy(p) == PolicyExists(p) => HoldersOf(p) = {}
DeletePolicy(p) == /\ policies' = [policies EXCEPT ![p] = IF PolicyExists(p) THEN None ELSE @]
                   /\ UNCHANGED <<roles, attached>>

CanDeleteRole(r) == AttachedTo(r) = {}
DeleteRole(r) == /\ roles' = [roles EXCEPT ![r] = None]
                 /\ UNCHANGED <<policies, attached>>

(* Creating an entity whose name is taken is skipped, and the caller gets  *)
(* no entity.                                                              *)
CreatePolicy(p, d, k) ==
    /\ policies' = [policies EXCEPT ![p] =
                        IF @ # None THEN @ ELSE [doc |-> d, cluster |-> k]]
    /\ UNCHANGED <<roles, attached>>

CreateRole(r, t, k) ==
    /\ roles' = [roles EXCEPT ![r] =
                     IF RoleExists(r) THEN @ ELSE [trust |-> t, cluster |-> k]]
    /\ UNCHANGED <<policies, attached>>

(* Updating a role that is gone is skipped.                                *)
UpdateRole(r, t) ==
    /\ roles' = [roles EXCEPT ![r] =
                     IF RoleExists(r) THEN [@ EXCEPT !.trust = t] ELSE @]
    /\ UNCHANGED <<policies, attached>>

(* Detaching what is not attached is skipped; attaching needs both ends.   *)
DetachRolePolicy(p, r) ==
    /\ attached' = IF PolicyExists(p) THEN attached \ {<<r, p>>} ELSE attached
    /\ UNCHANGED <<roles, policies>>

CanAttach(p, r) == RoleExists(r) /\ PolicyExists(p)
AttachRolePolicy(p, r) == /\ attached' = attached \cup {<<r, p>>}
                          /\ UNCHANGED <<roles, policies>>

----------------------------------------------------------------------------
(* Others *)

(* An administrator or another tool removes what the operator made.        *)
OutOfBand ==
    \/ \E r \in RoleName : \E p \in PoliciesOf(r) : DetachRolePolicy(p, r)
    \/ \E p \in PolicyName : PolicyExists(p) /\ CanDeletePolicy(p) /\ DeletePolicy(p)
    \/ \E r \in RoleName : RoleExists(r) /\ CanDeleteRole(r) /\ DeleteRole(r)

(* Another tool creates a role or a policy outside the path, the policy    *)
(* possibly for a role that is there.                                      *)
Foreign ==
    \/ \E r \in RoleName, t \in TrustDoc : ~RoleExists(r) /\ CreateRole(r, t, None)
    \/ \E p \in PolicyName, d \in Doc, R \in SUBSET {r \in RoleName : RoleExists(r)} :
         /\ policies[p] = None
         /\ policies' = [policies EXCEPT ![p] = [doc |-> d, cluster |-> None]]
         /\ attached' = attached \cup (R \X {p})
         /\ UNCHANGED roles
=============================================================================
