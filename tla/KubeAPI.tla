------------------------------ MODULE KubeAPI ------------------------------
(***************************************************************************)
(* The Kubernetes side of the operator: the objects the API server holds,  *)
(* the informer's cache that every Get of the controller reads, the watch  *)
(* events between them, the controller's work queue, the users who create, *)
(* edit and delete AWSIAMProvision objects, and Cluster API, which brings  *)
(* the AWSManagedControlPlane of a cluster up and down.                    *)
(*                                                                         *)
(* The cache follows the server one watch event at a time and any number   *)
(* of steps late.  The queue is a set: the client-go queue holds a key at  *)
(* most once; a key whose time has not come (RequeueAfter, back-off) is    *)
(* already in the set and the worker takes it at any later time.           *)
(***************************************************************************)
EXTENDS Resources, Sequences

CONSTANTS
    SpecsOf,    \* the specifications users may give to each object
    FeedLimit,  \* bound: undelivered watch events of one object
    MaxEdits    \* bound: requests of users and changes of control planes

ASSUME KubeAssumption == /\ SpecsOf \in [CR -> SUBSET Spec_]
                         /\ FeedLimit \in Nat
                         /\ MaxEdits \in Nat

VARIABLES
    cr,     \* the API server's object of a key, or None
    cache,  \* the informer's copy
    feed,   \* versions written to the server and not yet seen by the informer
    queue,  \* keys waiting for the worker
    cp,     \* AWSManagedControlPlane of a cluster: absent, not ready, or its ARN
    edits   \* requests left

kubeVars == <<cr, cache, feed, queue, cp, edits>>

ControlPlane == {"absent", "notReady"} \cup ARN

KubeTypeOK == /\ cr \in [CR -> Object \cup {None}]
              /\ cache \in [CR -> Object \cup {None}]
              /\ feed \in [CR -> Seq(Object \cup {None})]
              /\ queue \subseteq CR
              /\ cp \in [Cluster -> ControlPlane]
              /\ edits \in Nat

KubeInit == /\ cr = [c \in CR |-> None]
            /\ cache = cr
            /\ feed = [c \in CR |-> <<>>]
            /\ queue = {}
            /\ cp \in [Cluster -> ControlPlane]
            /\ edits = MaxEdits

----------------------------------------------------------------------------
(* Every write to the server becomes a watch event.                        *)
Write(c, obj) == /\ Len(feed[c]) < FeedLimit
                 /\ cr' = [cr EXCEPT ![c] = obj]
                 /\ feed' = [feed EXCEPT ![c] = Append(@, obj)]

(* The server drops a deleted object with its last finalizer.              *)
Stored(obj) == IF obj.deleting /\ ~obj.finalizer THEN None ELSE obj

(* Broken variant of Passes: the deletion does not count as a change.      *)
PassesSpecOnly(old, new) == old = None \/ new = None \/ old.spec # new.spec

(* GenerationChangedPredicate: a created and a deleted object pass, an     *)
(* updated one when its generation moved: a new spec, or the deletion.     *)
Passes(old, new) == \/ old = None
                    \/ new = None
                    \/ old.spec # new.spec
                    \/ old.deleting # new.deleting

WatchEvent(c) ==
    /\ feed[c] # <<>>
    /\ cache' = [cache EXCEPT ![c] = Head(feed[c])]
    /\ feed' = [feed EXCEPT ![c] = Tail(@)]
    /\ queue' = IF Passes(cache[c], Head(feed[c])) THEN queue \cup {c} ELSE queue
    /\ UNCHANGED <<cr, cp, edits>>

----------------------------------------------------------------------------
(* Users and Cluster API *)

Spend == edits > 0 /\ edits' = edits - 1

CreateCR(c) == /\ Spend
               /\ cr[c] = None
               /\ \E s \in SpecsOf[c] : Write(c, NewObject(s))
               /\ UNCHANGED <<cache, queue, cp>>

EditCR(c) == /\ Spend
             /\ cr[c] # None
             /\ \E s \in SpecsOf[c] \ {cr[c].spec} : Write(c, [cr[c] EXCEPT !.spec = s])
             /\ UNCHANGED <<cache, queue, cp>>

DeleteCR(c) == /\ Spend
               /\ cr[c] # None
               /\ ~cr[c].deleting
               /\ Write(c, Stored([cr[c] EXCEPT !.deleting = TRUE]))
               /\ UNCHANGED <<cache, queue, cp>>

ControlPlaneChanges(k) == /\ Spend
                          /\ \E v \in ControlPlane \ {cp[k]} : cp' = [cp EXCEPT ![k] = v]
                          /\ UNCHANGED <<cr, cache, feed, queue>>

(* Broken variant of Relist: the objects found at the start are not queued. *)
RelistUnqueued == /\ cache' = cr
                  /\ feed' = [c \in CR |-> <<>>]
                  /\ queue' = {}
                  /\ UNCHANGED <<cr, cp, edits>>

(* A new process lists the objects and queues each of them.                *)
Relist == /\ cache' = cr
          /\ feed' = [c \in CR |-> <<>>]
          /\ queue' = {c \in CR : cr[c] # None}
          /\ UNCHANGED <<cr, cp, edits>>

UserRequest(c) == CreateCR(c) \/ EditCR(c) \/ DeleteCR(c)
=============================================================================
