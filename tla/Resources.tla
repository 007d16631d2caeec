----------------------------- MODULE Resources -----------------------------
(***************************************************************************)
(* The custom resource AWSIAMProvision (api/v1alpha1) and the names and    *)
(* documents it speaks about.                                              *)
(*                                                                         *)
(* A Cluster stands for the pair (namespace, eksClusterName): the operator *)
(* always uses the two together, as the key of the AWSManagedControlPlane  *)
(* and as the two tags it puts on what it creates.  Documents, templates   *)
(* and OIDC provider ARNs are atoms: the code only compares them.          *)
(***************************************************************************)
EXTENDS Naturals

CONSTANTS
    CR,          \* keys of AWSIAMProvision objects
    Cluster,     \* (namespace, eksClusterName) pairs
    RoleKey,     \* keys of the map spec.roles
    PolicyKey,   \* keys of the map spec.policies
    RoleName,    \* IAM role names
    PolicyName,  \* IAM policy names
    Doc,         \* policy documents
    Template,    \* templates of trust relationship documents
    ARN,         \* ARNs of OIDC providers
    Malformed,   \* the templates and the ARNs setAssumeRolePolicyDocument rejects
    None         \* no object, no entity, no value

----------------------------------------------------------------------------
(* Functions on some of the elements of a set: the maps of the Go types.   *)
MapsOn(S, T) == UNION {[D -> T] : D \in SUBSET S}

(* spec.roles[e].spec: the name in IAM, the trust template and the list of *)
(* policy names.  Nothing keeps two entries from having one name.          *)
RoleSpec   == [name : RoleName, template : Template, policies : SUBSET PolicyName]
PolicySpec == [name : PolicyName, doc : Doc]

(* frequency is the number of seconds between two synchronisations, 0 when *)
(* the object says "0s"; an object that says nothing gets 30.              *)
Spec_ == [cluster   : Cluster,
          frequency : Nat,
          roles     : MapsOn(RoleKey, RoleSpec),
          policies  : MapsOn(PolicyKey, PolicySpec)]

(* The names a specification has among its roles and its policies.         *)
RolesNamed(s)    == {s.roles[e].name : e \in DOMAIN s.roles}
PoliciesNamed(s) == {s.policies[i].name : i \in DOMAIN s.policies}

Phase == {"", "Provisioning", "Provisioned", "Destroying", "Destroyed", "Failed"}

(* The object the API server stores.  status.lastUpdatedTime is nil exactly *)
(* when phase is "": every status update sets both.  Of an entry of         *)
(* status.roles or status.policies only the name is kept.                   *)
Object == [spec      : Spec_,
           finalizer : BOOLEAN,
           deleting  : BOOLEAN,
           phase     : Phase,
           roles     : SUBSET RoleName,
           policies  : SUBSET PolicyName]

(* What a user's create request stores.                                    *)
NewObject(s) == [spec |-> s, finalizer |-> FALSE, deleting |-> FALSE,
                 phase |-> "", roles |-> {}, policies |-> {}]

(* A trust relationship document is a template with an ARN filled in.      *)
TrustDoc == Template \X ARN

(* None is none of the things it stands beside.                            *)
ASSUME NoneAssumption == /\ None \notin CR
                         /\ None \notin Object
                         /\ None \notin Cluster
                         /\ None \notin RoleKey
                         /\ None \notin PolicyKey
                         /\ None \notin RoleName
                         /\ None \notin PolicyName
                         /\ None \notin ARN
=============================================================================
