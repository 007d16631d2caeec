--------------------------- MODULE SyncInvariant ---------------------------
(***************************************************************************)
(* Why KeepsWanted, PrunesOwn, Idempotent and SyncedAtEnd hold: what the    *)
(* local variables of syncAWSIAMResources say about the account, step by    *)
(* step, and what of the specification is already true of it.               *)
(*                                                                          *)
(* PassInv is what no interference destroys: faults, crashes, removals and  *)
(* creations by others.  DropInv adds what a removal by others together     *)
(* with a creation by others would destroy, SyncInv what either would.      *)
(* Each of the three is inductive (relative to the types).                  *)
(***************************************************************************)
EXTENDS FinalizerInvariant

(* No map of a specification uses one name twice.                          *)
DistinctNames ==
    \A c \in CR : \A s \in SpecsOf[c] :
        /\ \A e, f \in DOMAIN s.roles : s.roles[e].name = s.roles[f].name => e = f
        /\ \A i, j \in DOMAIN s.policies : s.policies[i].name = s.policies[j].name => i = j

(* Pruning: up to the deletion of roles, and all of it.                    *)
RolePrunePoints == {"staleRefs", "staleDetach", "dropRoles", "dropDetach"}
PrunePoints == RolePrunePoints \cup {"dropPolicies"} \cup PolicyPoints

----------------------------------------------------------------------------
(* What the worker has at hand *)

(* Both ends of an attachment exist.                                       *)
EndsExist == \A r \in RoleName, p \in PolicyName :
                <<r, p>> \in attached => RoleExists(r) /\ policies[p] # None

(* A policy that is there carries the tags of cluster k.                   *)
TaggedIfThere(p, k) == PolicyExists(p) => policies[p].cluster = k

(* What the locals x of a pruning for specification s hold at point l:     *)
(* policies that were listed by the tags, and nothing to delete or to      *)
(* detach which the specification wants.                                   *)
PruneLocals(l, x, s) ==
    /\ l \in PrunePoints => \A p \in x.listed : TaggedIfThere(p, s.cluster)
    /\ l \in RolePrunePoints => x.dropRoles \cap RolesNamed(s) = {}
    /\ l = "staleDetach" =>
         /\ x.pend \subseteq x.listed
         /\ \E e \in DOMAIN s.roles :
              s.roles[e].name = x.role /\ x.pend \cap s.roles[e].policies = {}
    /\ l = "dropDetach" => x.role \notin RolesNamed(s)
    /\ l \in PolicyPoints \cup {"dropPolicies"} => x.listed \cap PoliciesNamed(s) = {}
    /\ l \in PolicyPoints => /\ x.pol \notin PoliciesNamed(s)
                             /\ TaggedIfThere(x.pol, s.cluster)

(* What they hold while the roles and policies of s are provided: the      *)
(* names of the entries being worked on, and a policy is replaced only     *)
(* when it is out of date.                                                 *)
ProvideLocals(l, x, s) ==
    /\ l \in SyncRolePoints => /\ x.role = s.roles[x.entry].name
                               /\ x.refs \subseteq Wanted(s, x.entry)
    /\ l \in SyncPolicyPoints => /\ x.item \in Wanted(s, x.entry)
                                 /\ x.pol = s.policies[x.item].name
    /\ l \in {"updDetach", "updDelete"} =>
         (PolicyExists(x.pol) => policies[x.pol].doc # s.policies[x.item].doc)

(* At every step of syncAWSIAMResources, syncRole and                      *)
(* syncPoliciesByRoleSpec, whatever others do meanwhile, the local         *)
(* variables fit the specification at hand, and an attachment has its ends. *)
PassInv == /\ EndsExist
           /\ PruneLocals(At, w, air.spec)
           /\ ProvideLocals(At, w, air.spec)

(* A role that was listed for deletion is not somebody else's by now.      *)
Droppable(r, k) == /\ RoleExists(r) => roles[r].cluster = k
                   /\ MaxForeign > 0 => RoleExists(r)

(* As long as either nobody else removes or nobody else creates: the roles *)
(* syncAWSIAMResources has still to delete are the cluster's, although it   *)
(* finds them again by name alone.                                         *)
DropInv ==
    /\ At \in RolePrunePoints => \A r \in w.dropRoles : Droppable(r, air.spec.cluster)
    /\ At = "dropDetach" => Droppable(w.role, air.spec.cluster) /\ w.role \notin w.dropRoles

----------------------------------------------------------------------------
(* What has been done so far *)

(* Nobody has anything outside the operator's path.                        *)
OnlyOurs == /\ \A r \in RoleName : RoleExists(r) => Ours(r)
            /\ \A p \in PolicyName : policies[p] # None => PolicyExists(p)

(* The roles and the policies a pruning at l has still to look at.         *)
RolesLeft(l, x) ==
    (IF l \in RolePrunePoints THEN x.dropRoles ELSE {})
      \cup (IF l = "dropDetach" THEN {x.role} ELSE {})
PoliciesLeft(l, x) ==
    (IF l \in PrunePoints THEN x.listed ELSE {})
      \cup (IF l \in {"dropPolicy", "dropEntityPolicy"} \/ (l = "dropEntities" /\ x.ents # {})
            THEN {x.pol} ELSE {})

(* From the listing on: what carries the tags is wanted or still to be     *)
(* looked at, and what of it is attached to an entry's role in the path    *)
(* the entry refers to, unless the entry or the attachment is still to be  *)
(* looked at.                                                              *)
PrunedAt(l, x, s) ==
    l \in PrunePoints \cup SyncRolePoints \cup {"syncRoles", "final", "return"} =>
        /\ RolesTagged(s.cluster) \subseteq RolesNamed(s) \cup RolesLeft(l, x)
        /\ PoliciesTagged(s.cluster) \subseteq PoliciesNamed(s) \cup PoliciesLeft(l, x)
        /\ l \in RolePrunePoints => PoliciesTagged(s.cluster) \subseteq x.listed
        /\ \A e \in DOMAIN s.roles :
             LET r == s.roles[e].name IN
             \/ ~Ours(r)
             \/ l \in {"staleRefs", "staleDetach"} /\ e \in x.todo
             \/ PoliciesOf(r) \cap PoliciesTagged(s.cluster) \subseteq
                  s.roles[e].policies
                    \cup (IF l = "staleDetach" /\ r = x.role THEN x.pend ELSE {})

(* The entry e of spec.roles, and the entry i of spec.policies, are as the *)
(* specification says, the provider being a; and i is attached to e.       *)
RoleProvided(s, e, a) == /\ RoleExists(s.roles[e].name)
                         /\ roles[s.roles[e].name].trust = <<s.roles[e].template, a>>
PolicyProvided(s, i) == /\ PolicyExists(s.policies[i].name)
                        /\ policies[s.policies[i].name].doc = s.policies[i].doc
PairProvided(s, e, i) == /\ PolicyProvided(s, i)
                         /\ <<s.roles[e].name, s.policies[i].name>> \in attached
EntryProvided(s, e, a) == /\ RoleProvided(s, e, a)
                          /\ \A i \in Wanted(s, e) : PairProvided(s, e, i)

(* While the roles are ranged over: the entries behind the worker are      *)
(* provided, and of the entry it works on what it has worked off.          *)
ProvidedAt(l, x, s) ==
    /\ l \in {"syncRoles", "final", "return"} =>
         \A e \in DOMAIN s.roles : \/ l = "syncRoles" /\ e \in x.todo
                                   \/ EntryProvided(s, e, x.arn)
    /\ l \in SyncRolePoints =>
         \A e \in DOMAIN s.roles \ {x.entry} : e \in x.todo \/ EntryProvided(s, e, x.arn)
    /\ l = "updateRole" => RoleExists(x.role)
    /\ l \in {"policies"} \cup SyncPolicyPoints => RoleProvided(s, x.entry, x.arn)
    /\ l \in SyncRolePoints =>
         \A i \in Wanted(s, x.entry) : \/ i \in x.refs
                                       \/ l \in SyncPolicyPoints /\ i = x.item
                                       \/ PairProvided(s, x.entry, i)
    /\ l \in {"createPolicy", "updCreate"} => ~PolicyExists(x.pol)
    /\ l \in {"checkAttached", "attach"} => PolicyProvided(s, x.item)
    /\ l \in {"attachNew", "updAttach"} /\ PolicyExists(x.pol) => PolicyProvided(s, x.item)

(* The name of a role or of a policy was taken when it was to be created:  *)
(* the nil result of that is on its way to end the Reconcile.              *)
Doomed == pc = "status" /\ call.result = NilResult

(* As long as nobody else removes anything: how far the account is as      *)
(* specified, at each point of syncAWSIAMResources, of the loop over       *)
(* spec.roles in Reconcile and of what it calls.                           *)
SyncInv == /\ MaxForeign = 0 => OnlyOurs
           /\ PrunedAt(At, w, air.spec)
           /\ Doomed \/ ProvidedAt(At, w, air.spec)
=============================================================================
