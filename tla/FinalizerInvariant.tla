------------------------- MODULE FinalizerInvariant -------------------------
(***************************************************************************)
(* Why FinalizerGuard and FinalizerReleased hold: what the server's object, *)
(* the versions still on their way to the worker, and the version the       *)
(* worker has at hand say about each other, and what deleteIAMResources has *)
(* done so far.  FinalizerInv is inductive (relative to the types).         *)
(***************************************************************************)
EXTENDS ReconcilerProperties

(* The point the worker is at, or goes back to from updateCRDStatus.       *)
At == IF pc = "status" THEN call.return ELSE pc

(* The versions of an object a Get may still return.                       *)
Seen(c) == {cache[c]} \cup {feed[c][i] : i \in DOMAIN feed[c]}

Held(obj)  == obj # None /\ obj.finalizer
Alive(obj) == obj # None /\ ~obj.deleting
Dying(obj) == obj # None /\ obj.deleting

(* Once a version of the object is alive with our finalizer, the server    *)
(* keeps the finalizer for as long as that version can still be read.      *)
HeldSinceSeen(c) == \A v \in Seen(c) : Alive(v) /\ Held(v) => Held(cr[c])

(* The last event on its way, or else the cache, is the server's object.   *)
FeedReachesServer(c) ==
    cr[c] = IF feed[c] = <<>> THEN cache[c] ELSE feed[c][Len(feed[c])]

(* A deleted object is there only because of its finalizer.                *)
DyingIsHeld(c) == Dying(cr[c]) => Held(cr[c])

(* What the worker knows: a fresh version is the server's; when a fresh    *)
(* version is dying no older, living one can be read any more; a living    *)
(* version with the finalizer, fresh or not, means that the server has it. *)
AtHand == pc # "idle" =>
    /\ fresh => air = cr[cur]
    /\ fresh /\ Dying(air) => \A v \in Seen(cur) : Dying(v)
    /\ Alive(air) /\ Held(air) => Held(cr[cur])

(* The branch taken on deletionTimestamp and the finalizer is kept.        *)
Branch == /\ At = "addFinalizer" => Alive(air)
          /\ At \in SyncPoints => Alive(air) /\ Held(air)
          /\ At \in DestroyPoints \cup {"unfinalize"} => Dying(air)

DestroyGuard == pc \in DestroyPoints => Dying(cr[cur]) /\ Held(cr[cur])

(* What deleteIAMResources has done: the roles it has ranged over are gone, *)
(* but for the one it is working on.                                       *)
GoneAt(l) ==
    LET name(e) == air.spec.roles[e].name IN
    /\ l = "destroyRoles" =>
         \A e \in DOMAIN air.spec.roles : e \in w.todo \/ ~Ours(name(e))
    /\ l \in {"destroyDetach", "destroyPolicies", "destroyRole"} =>
         \A e \in DOMAIN air.spec.roles :
            e \in w.todo \/ name(e) = w.role \/ ~Ours(name(e))
    /\ l = "unfinalize" => \A e \in DOMAIN air.spec.roles : ~Ours(name(e))
RolesGone == GoneAt(At)

ServerInv == \A c \in CR : HeldSinceSeen(c) /\ FeedReachesServer(c) /\ DyingIsHeld(c)

(* Between a stale cache, users and the worker's own writes: at every step *)
(* of Reconcile the five parts together.                                   *)
FinalizerInv == ServerInv /\ AtHand /\ Branch /\ DestroyGuard /\ RolesGone
=============================================================================
