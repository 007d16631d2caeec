------------------------ MODULE ReconcilerProperties ------------------------
(***************************************************************************)
(* What the controller promises, stated over the whole system of           *)
(* Reconciler: users, API server, cache, worker and AWS account.           *)
(***************************************************************************)
EXTENDS Reconciler

----------------------------------------------------------------------------
(* Vocabulary *)

Live(c)     == cr[c] # None /\ ~cr[c].deleting
Deleting(c) == cr[c] # None /\ cr[c].deleting

(* The points where a policy is being deleted, where an entry of           *)
(* spec.policies is being worked on, and where one of spec.roles is.       *)
PolicyPoints == {"dropPolicy", "dropEntities", "dropEntityPolicy"}
SyncPolicyPoints == {"createPolicy", "attachNew", "updDetach", "updDelete", "updCreate",
                     "updAttach", "checkAttached", "attach"}
SyncRolePoints == {"createRole", "updateRole", "policies"} \cup SyncPolicyPoints

(* A role under the operator's path.                                       *)
Ours(r) == InPath(roles[r])

(* The entries of spec.policies the entry e of spec.roles refers to.       *)
Wanted(s, e) == {i \in DOMAIN s.policies : s.policies[i].name \in s.roles[e].policies}

(* The account has what specification s asks for, given the provider a: of *)
(* the tagged entities the named ones, as they are specified.  A role of   *)
(* somebody else's which the specification names is adopted as it is, with *)
(* what is attached to it.                                                 *)
Provided(s, a) ==
    /\ RolesTagged(s.cluster) \subseteq RolesNamed(s)
    /\ PoliciesTagged(s.cluster) \subseteq PoliciesNamed(s)
    /\ \A e \in DOMAIN s.roles :
         LET r     == s.roles[e].name
             names == {s.policies[i].name : i \in Wanted(s, e)}
         IN /\ RoleExists(r)
            /\ roles[r].trust = <<s.roles[e].template, a>>
            /\ names \subseteq PoliciesOf(r)
            /\ Ours(r) => PoliciesOf(r) \cap PoliciesTagged(s.cluster) \subseteq names
            /\ \A i \in Wanted(s, e) : policies[s.policies[i].name].doc = s.policies[i].doc

(* The account is what specification s asks for, adopted roles included.   *)
InSync(s, a) ==
    /\ Provided(s, a)
    /\ \A e \in DOMAIN s.roles :
         PoliciesOf(s.roles[e].name) \cap PoliciesTagged(s.cluster)
           \subseteq s.roles[e].policies

CRInSync(c) == cr[c] # None /\ InSync(cr[c].spec, cp[cr[c].spec.cluster])

(* A control plane that can be used: ready, with a well-formed ARN, and    *)
(* well-formed templates to fill it into.                                  *)
Usable(c) == LET s == cr[c].spec IN
             /\ cp[s.cluster] \in ARN \ Malformed
             /\ \A e \in DOMAIN s.roles : s.roles[e].template \notin Malformed

(* Nobody outside the path has a policy of a name the object wants.        *)
Unclaimed(c) == \A p \in PoliciesNamed(cr[c].spec) : policies[p] = None \/ PolicyExists(p)

(* Where a pass for specification s takes policy p off role r: among what   *)
(* the entry refers to (syncPoliciesByRoleSpec); among the entities of a   *)
(* tagged policy and the policies of a tagged role (syncAWSIAMResources).  *)
(* The first goes by names, the other two see the operator's path alone.   *)
TakenOff(s, r, p) ==
    \/ \E e \in DOMAIN s.roles :
         s.roles[e].name = r /\ \E i \in Wanted(s, e) : s.policies[i].name = p
    \/ /\ p \in PoliciesTagged(s.cluster)
       /\ r \in EntitiesOf(p)
       /\ r \in RolesNamed(s) \/ p \notin PoliciesNamed(s)
    \/ r \in RolesTagged(s.cluster) \ RolesNamed(s) /\ PolicyExists(p)

(* No role keeps a policy that the object may have to replace or to delete, *)
(* and no role it has to delete keeps one, where the operator does not see *)
(* it: an adopted role, a role tagged for the cluster the object was for   *)
(* before, a policy of others.                                             *)
Unheld(c) ==
    LET s == cr[c].spec IN
    \A r \in RoleName, p \in PolicyName :
        /\ <<r, p>> \in attached
        /\ \/ p \in PoliciesTagged(s.cluster) \cup PoliciesNamed(s)
           \/ r \in RolesTagged(s.cluster) \ RolesNamed(s)
        => TakenOff(s, r, p)

Versions(c) == <<cache[c]>> \o feed[c]

----------------------------------------------------------------------------
(* Safety *)

(* The worker changes IAM for an object only while the server holds that   *)
(* object with our finalizer, and destroys only for one being deleted,     *)
(* whatever a stale cache said: the finalizer is written before the first  *)
(* call to IAM, and Destroying is reported before the first deletion.      *)
FinalizerGuard ==
    pc \in SyncPoints \cup DestroyPoints =>
        /\ cr[cur] # None
        /\ cr[cur].finalizer
        /\ pc \in DestroyPoints => cr[cur].deleting

(* An object that is to be synchronised again, destroyed or looked at for  *)
(* the first time is in the queue, in the hands of the worker, or behind a *)
(* watch event that will queue it: Result, errors and                      *)
(* GenerationChangedPredicate together never lose it.                      *)
NeverForgotten ==
    \A c \in CR :
        /\ cr[c] # None
        /\ cr[c].spec.frequency > 0 \/ cr[c].deleting \/ cr[c].phase = ""
        => \/ c \in queue \/ c = cur
           \/ \E i \in DOMAIN feed[c] : Passes(Versions(c)[i], Versions(c)[i + 1])

(* The finalizer goes away only when none of the operator's roles which    *)
(* the specification names is left in IAM, however users edit the object   *)
(* and whatever others delete and create in the account meanwhile.         *)
FinalizerReleased ==
    [][\A c \in CR :
         /\ cr[c] # None
         /\ cr[c].finalizer
         /\ cr'[c] = None \/ ~cr'[c].finalizer
         => \A r \in RolesNamed(cr[c].spec) : ~Ours(r)]_vars

(* What users asked for is only changed by users: a write of the operator, *)
(* which sends the whole object it once read from the cache, neither       *)
(* reverts an edit nor withdraws a deletion made meanwhile, and the object *)
(* goes away only when it is being deleted.                                *)
NoLostEdit ==
    [][edits' = edits =>
         \A c \in CR :
            \/ cr[c] = None /\ cr'[c] = None
            \/ Deleting(c) /\ cr'[c] = None
            \/ /\ cr[c] # None
               /\ cr'[c] # None
               /\ cr'[c].spec = cr[c].spec
               /\ cr'[c].deleting = cr[c].deleting]_cr

(* A Reconcile that gets to its end without an error has brought the       *)
(* account to what its specification asks for, in whatever order the maps  *)
(* were ranged over and whatever state the account was in at the start     *)
(* (as long as nobody else changes the account).                           *)
SyncedAtEnd == pc \in {"final", "return"} => InSync(air.spec, w.arn)

(* It has brought everything the specification asks for into being, even   *)
(* though other tools create entities under the names of the specification *)
(* between its reading and its writing: what it finds taken ends in an     *)
(* error, or was adopted (as long as nobody else takes anything away).     *)
ProvidedAtEnd == pc \in {"final", "return"} => Provided(air.spec, w.arn)

(* The README's idempotent behaviour: a synchronisation of an account that *)
(* is what the specification asks for changes nothing in it.               *)
Idempotent ==
    [][(pc \in SyncPoints /\ InSync(air.spec, w.arn)) => UNCHANGED iamVars]_workerVars

(* A synchronisation never takes away what its specification wants: a role *)
(* it names is not deleted, and a policy it names is neither deleted nor   *)
(* detached from a role that refers to it, but to replace its document.    *)
KeepsWanted ==
    [][(pc \in SyncPoints) =>
         /\ \A r \in WantedRoles : RoleExists(r) => roles'[r] # None
         /\ \A i \in DOMAIN air.spec.policies :
              LET p == air.spec.policies[i].name IN
              PolicyExists(p) /\ ~Outdated(i) => policies'[p] # None
         /\ \A e \in DOMAIN air.spec.roles : \A i \in RefsOf(e) :
              LET r == air.spec.roles[e].name
                  p == air.spec.policies[i].name
              IN p \in PoliciesOf(r) /\ ~Outdated(i) => <<r, p>> \in attached']_workerVars

(* The reconciliation of an object touches only its own cluster's entities *)
(* and those its specifications name: objects of two clusters which use    *)
(* different names never disturb each other.                               *)
OwnRoles(c) == UNION {RolesNamed(s) : s \in SpecsOf[c]}
OwnPolicies(c) == UNION {PoliciesNamed(s) : s \in SpecsOf[c]}
Isolation ==
    [][cur # None =>
         /\ \A r \in RoleName \ OwnRoles(cur) :
              roles'[r] = roles[r] /\ AttachedTo(r)' = AttachedTo(r)
         /\ \A p \in PolicyName \ OwnPolicies(cur) : policies'[p] = policies[p]]_workerVars

(* A pruning deletes nothing that carries the tags of another cluster,     *)
(* even where the objects of two clusters use the same names: what is      *)
(* deleted was listed by tags, and only then found again by its name (as   *)
(* long as nobody else takes it away in between).                          *)
PrunesOwn ==
    [][(pc \in {"dropDetach", "dropPolicy", "dropEntityPolicy"}) =>
         /\ \A r \in RoleName :
              roles'[r] = None => roles[r] = None \/ roles[r].cluster = air.spec.cluster
         /\ \A p \in PolicyName :
              policies'[p] = None => policies[p] = None \/ policies[p].cluster = air.spec.cluster]_workerVars

----------------------------------------------------------------------------
(* Liveness *)

(* The one worker goroutine keeps running and the informer keeps            *)
(* delivering.  Every queued key is taken in the end, and Go starts the     *)
(* iteration over a map at a random element, so no role of spec.roles is    *)
(* kept from being the first for ever.                                      *)
Fairness == /\ WF_vars(Worker)
            /\ \A c \in CR : /\ WF_vars(WatchEvent(c) /\ UNCHANGED <<workerVars, left, iamVars>>)
                             /\ SF_vars(Pick(c) /\ UNCHANGED left)
            /\ \A e \in RoleKey : SF_vars(SyncRole(e) /\ UNCHANGED left)

FairSpec == Spec /\ Fairness

(* The README's continuous synchronisation: once users leave alone a live  *)
(* object that is synchronised periodically and a usable control plane, no *)
(* policy name it wants is taken and nothing it drops is held unseen, the  *)
(* account becomes what the object asks for and stays so.  Claimed for     *)
(* objects that do not work against each other or themselves (they share   *)
(* no cluster and no name, and use no name twice) and for documents that   *)
(* IAM accepts.                                                            *)
Converges ==
    \A c \in CR :
        <>[](/\ Live(c) /\ cr[c].spec.frequency > 0
             /\ Usable(c) /\ Unclaimed(c) /\ Unheld(c))
          => <>[]CRInSync(c)

(* Synchronising comes to rest: once users and others leave such objects   *)
(* and usable control planes alone, the operator stops changing the        *)
(* account.                                                                *)
Settles ==
    (\A c \in CR : <>[](Live(c) /\ Usable(c))) => <>[][FALSE]_iamVars

(* IAM refuses to delete a role while somebody else's policy is attached.  *)
Obstructed(c) == \E r \in RolesNamed(cr[c].spec) : AttachedTo(r) # PoliciesOf(r)

(* A deleted object, if it shares no cluster and no name with another one, *)
(* goes away as long as its control plane is ready and no policy from      *)
(* outside the operator's path is attached to its roles.                   *)
DeletionCompletes ==
    \A c \in CR :
        []<>~(Deleting(c) /\ cp[cr[c].spec.cluster] \in ARN /\ ~Obstructed(c))

----------------------------------------------------------------------------
(* What the repository says and the code does not do *)

(* README "Creating or deleting resources based on the CR configuration":  *)
(* a deleted object goes away.  getClusterResources comes before the       *)
(* deletion is looked at, and returns without a ready control plane.       *)
DeletedInTheEnd == \A c \in CR : []<>~Deleting(c)

(* The status "defines the observed state": an object left alone with a    *)
(* usable control plane is reported as Provisioned, with all its roles.    *)
(* Reconcile writes the final phase only over a missing or a Failed one,   *)
(* and an entry only together with a change in IAM, where a conflict may   *)
(* lose it.                                                                *)
StatusCatchesUp ==
    \A c \in CR : <>[](Live(c) /\ Usable(c) /\ Unclaimed(c))
        => <>[](Live(c) /\ cr[c].phase = "Provisioned" /\ cr[c].roles = RolesNamed(cr[c].spec))

(* "AWS IAM resources was destroyed.": with the finalizer goes everything  *)
(* tagged for a cluster the object was for.  deleteIAMResources looks only *)
(* at the roles the specification names now and at the policies attached   *)
(* to them, and a pruning at the tags of today's eksClusterName.           *)
AllDestroyed ==
    [][\A c \in CR :
         (cr[c] # None /\ cr[c].finalizer /\ cr'[c] = None)
         => \A s \in SpecsOf[c] : RolesTagged(s.cluster) = {} /\ PoliciesTagged(s.cluster) = {}]_vars

(* "Synchronizes ... based on ... the CR configuration": reconciling one   *)
(* object does not delete a role another live object configures.  The tags *)
(* say which cluster an entity belongs to, not which object.               *)
ConfiguredStays ==
    [][cur # None =>
         \A c \in CR \ {cur} : Live(c) =>
            \A r \in RolesNamed(cr[c].spec) : RoleExists(r) => roles'[r] # None]_workerVars
=============================================================================
