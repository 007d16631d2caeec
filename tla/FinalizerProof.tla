--------------------------- MODULE FinalizerProof ---------------------------
(***************************************************************************)
(* FinalizerGuard and FinalizerReleased for every value of the constants:  *)
(* FinalizerInv holds initially and, given TypeInv, every step keeps it.   *)
(* Then NeverForgotten, which rests on it: no object that needs the        *)
(* controller is ever lost to its queue.                                   *)
(***************************************************************************)
EXTENDS FinalizerInvariant, ReconcilerTypeProof, SequenceTheorems

----------------------------------------------------------------------------
(* Watch events *)

(* A write to the server adds one version to what can still be read.       *)
LEMMA WriteSeen ==
    ASSUME KubeTypeOK, NEW c \in CR, NEW o \in Object \cup {None}, Write(c, o),
           UNCHANGED cache
    PROVE  /\ Seen(c)' = Seen(c) \cup {o}
           /\ FeedReachesServer(c)'
           /\ \A d \in CR \ {c} : UNCHANGED <<cr[d], cache[d], feed[d]>>
<1> DEFINE s == feed[c]
<1>1. s \in Seq(Object \cup {None}) /\ cr'[c] = o /\ feed'[c] = Append(s, o)
  BY DEF KubeTypeOK, Write
<1>2. /\ DOMAIN Append(s, o) = 1 .. Len(s) + 1
      /\ DOMAIN s = 1 .. Len(s)
      /\ Len(Append(s, o)) = Len(s) + 1
      /\ Len(s) \in Nat
      /\ Append(s, o)[Len(s) + 1] = o
      /\ \A i \in 1 .. Len(s) : Append(s, o)[i] = s[i]
  BY <1>1
<1> HIDE DEF s
<1>3. {Append(s, o)[i] : i \in DOMAIN Append(s, o)} = {s[i] : i \in DOMAIN s} \cup {o}
  BY <1>2
<1>4. Seen(c)' = Seen(c) \cup {o} BY <1>1, <1>3 DEF Seen, s
<1>5. Append(s, o) # <<>> BY <1>2
<1>6. FeedReachesServer(c)' BY <1>1, <1>2, <1>5 DEF FeedReachesServer
<1>7. \A d \in CR \ {c} : UNCHANGED <<cr[d], cache[d], feed[d]>>
  BY DEF KubeTypeOK, Write
<1> QED BY <1>4, <1>6, <1>7

(* What can be read of an untouched object stays.                          *)
LEMMA SameSeen ==
    ASSUME NEW c, UNCHANGED <<cr[c], cache[c], feed[c]>>
    PROVE  /\ Seen(c)' = Seen(c)
           /\ HeldSinceSeen(c) => HeldSinceSeen(c)'
           /\ FeedReachesServer(c) => FeedReachesServer(c)'
           /\ DyingIsHeld(c) => DyingIsHeld(c)'
<1>1. Seen(c)' = Seen(c) BY DEF Seen
<1> QED BY <1>1 DEF HeldSinceSeen, FeedReachesServer, DyingIsHeld

(* A write that never takes the finalizer away while a living version with *)
(* it can still be read, and stores no deleted object without it.          *)
LEMMA WriteServer ==
    ASSUME KubeTypeOK, ServerInv, NEW c \in CR, NEW o \in Object \cup {None}, Write(c, o),
           UNCHANGED cache,
           Dying(o) => Held(o),
           (\E v \in Seen(c) : Alive(v) /\ Held(v)) => Held(o)
    PROVE  ServerInv'
<1> SUFFICES ASSUME NEW d \in CR
             PROVE  (HeldSinceSeen(d) /\ FeedReachesServer(d) /\ DyingIsHeld(d))'
  BY DEF ServerInv
<1>1. CASE d # c BY <1>1, WriteSeen, SameSeen DEF ServerInv
<1>2. CASE d = c
  <2>1. cr'[c] = o BY DEF KubeTypeOK, Write
  <2>2. Seen(c)' = Seen(c) \cup {o} /\ FeedReachesServer(c)' BY WriteSeen
  <2>3. DyingIsHeld(c)' BY <2>1 DEF DyingIsHeld, Dying, Held
  <2>4. HeldSinceSeen(c)' BY <2>1, <2>2 DEF HeldSinceSeen, Alive, Held
  <2> QED BY <1>2, <2>2, <2>3, <2>4
<1> QED BY <1>1, <1>2

(* An event moves to the cache: nothing new can be read.                   *)
LEMMA WatchEventServer ==
    ASSUME KubeTypeOK, ServerInv, NEW c \in CR, WatchEvent(c)
    PROVE  ServerInv' /\ \A d \in CR : Seen(d)' \subseteq Seen(d)
<1> DEFINE s == feed[c]
<1>1. /\ s \in Seq(Object \cup {None})
      /\ s # <<>>
      /\ cr' = cr
      /\ cache'[c] = Head(s)
      /\ feed'[c] = Tail(s)
      /\ \A d \in CR \ {c} : UNCHANGED <<cr[d], cache[d], feed[d]>>
  BY DEF KubeTypeOK, WatchEvent
<1>2. /\ Len(s) \in Nat \ {0}
      /\ Head(s) = s[1]
      /\ DOMAIN s = 1 .. Len(s)
      /\ Tail(s) \in Seq(Object \cup {None})
      /\ Len(Tail(s)) = Len(s) - 1
      /\ DOMAIN Tail(s) = 1 .. Len(s) - 1
      /\ \A i \in 1 .. Len(s) - 1 : Tail(s)[i] = s[i + 1]
  BY <1>1
<1>3. Tail(s) = <<>> <=> Len(s) = 1
  <2>1. \A t \in Seq(Object \cup {None}) : t = <<>> <=> Len(t) = 0 BY EmptySeq
  <2>2. Tail(s) = <<>> <=> Len(Tail(s)) = 0
    <3> DEFINE t == Tail(s)
    <3>1. t \in Seq(Object \cup {None}) BY <1>2
    <3> HIDE DEF t
    <3>2. t = <<>> <=> Len(t) = 0 BY <2>1, <3>1
    <3> QED BY <3>2 DEF t
  <2> QED BY <1>2, <2>2
<1> HIDE DEF s
<1>4. Seen(c)' \subseteq Seen(c)
  <2>1. \A i \in DOMAIN Tail(s) : i + 1 \in DOMAIN s /\ Tail(s)[i] = s[i + 1]
    BY <1>2
  <2>2. 1 \in DOMAIN s BY <1>2
  <2> QED BY <1>1, <1>2, <2>1, <2>2 DEF Seen, s
<1>5. FeedReachesServer(c)'
  <2>1. cr[c] = s[Len(s)] BY <1>1 DEF ServerInv, FeedReachesServer, s
  <2>2. CASE Len(s) = 1 BY <1>1, <1>2, <1>3, <2>1, <2>2 DEF FeedReachesServer
  <2>3. CASE Len(s) # 1
    <3>1. Tail(s)[Len(s) - 1] = s[Len(s)] BY <1>2, <2>3
    <3> QED BY <1>1, <1>2, <1>3, <2>1, <2>3, <3>1 DEF FeedReachesServer
  <2> QED BY <2>2, <2>3
<1>6. HeldSinceSeen(c)' /\ DyingIsHeld(c)'
  BY <1>1, <1>4 DEF ServerInv, HeldSinceSeen, DyingIsHeld
<1>7. \A d \in CR \ {c} : /\ Seen(d)' = Seen(d)
                          /\ HeldSinceSeen(d)'
                          /\ FeedReachesServer(d)'
                          /\ DyingIsHeld(d)'
  BY <1>1, SameSeen DEF ServerInv
<1>8. ServerInv' BY <1>5, <1>6, <1>7 DEF ServerInv
<1>9. \A d \in CR : Seen(d)' \subseteq Seen(d) BY <1>4, <1>7
<1> QED BY <1>8, <1>9

(* The server's object itself can be read, sooner or later.                *)
LEMMA ServerSeen ==
    ASSUME KubeTypeOK, NEW c \in CR, FeedReachesServer(c) PROVE cr[c] \in Seen(c)
<1>1. CASE feed[c] = <<>> BY <1>1 DEF FeedReachesServer, Seen
<1>2. CASE feed[c] # <<>>
  <2>1. feed[c] \in Seq(Object \cup {None}) BY DEF KubeTypeOK
  <2>2. Len(feed[c]) \in DOMAIN feed[c] BY <1>2, <2>1
  <2> QED BY <1>2, <2>2 DEF FeedReachesServer, Seen
<1> QED BY <1>1, <1>2

----------------------------------------------------------------------------
(* The environment *)

(* No request of a user takes the finalizer away or brings a deleted       *)
(* object back to life.                                                    *)
LEMMA UserStep ==
    ASSUME KubeTypeOK, ServerInv, NEW c \in CR, UserRequest(c)
    PROVE  /\ ServerInv'
           /\ \A d \in CR : /\ Held(cr[d]) => Held(cr'[d])
                            /\ Held(cr[d]) /\ Dying(cr[d]) => Dying(cr'[d])
           /\ \A d \in CR \ {c} : cr'[d] = cr[d] /\ Seen(d)' = Seen(d)
<1>1. PICK o \in Object \cup {None} :
        /\ Write(c, o)
        /\ Dying(o) => Held(o)
        /\ Held(cr[c]) => Held(o)
        /\ Held(cr[c]) /\ Dying(cr[c]) => Dying(o)
  <2>1. CASE CreateCR(c)
    <3>1. PICK s \in SpecsOf[c] : Write(c, NewObject(s)) BY <2>1 DEF CreateCR
    <3>2. s \in Spec_ BY <3>1, KubeAssumption
    <3>3. NewObject(s) \in Object /\ ~Dying(NewObject(s))
      BY <3>2 DEF NewObject, Object, Phase, Dying
    <3> QED BY <2>1, <3>1, <3>3 DEF CreateCR, Held
  <2>2. CASE EditCR(c)
    <3>1. PICK s \in SpecsOf[c] : Write(c, [cr[c] EXCEPT !.spec = s]) BY <2>2 DEF EditCR
    <3>2. s \in Spec_ BY <3>1, KubeAssumption
    <3> DEFINE o == [cr[c] EXCEPT !.spec = s]
    <3>3. cr[c] \in Object BY <2>2 DEF EditCR, KubeTypeOK
    <3>4. o \in Object /\ o.finalizer = cr[c].finalizer /\ o.deleting = cr[c].deleting
      BY <3>2, <3>3 DEF Object
    <3>5. DyingIsHeld(c) BY DEF ServerInv
    <3>6. Write(c, o) BY <3>1
    <3> HIDE DEF o
    <3> QED BY <3>3, <3>4, <3>5, <3>6, NoneAssumption DEF Held, Dying, DyingIsHeld
  <2>3. CASE DeleteCR(c)
    <3> DEFINE o == [cr[c] EXCEPT !.deleting = TRUE]
    <3>1. cr[c] \in Object BY <2>3 DEF DeleteCR, KubeTypeOK
    <3>2. o \in Object /\ o.finalizer = cr[c].finalizer /\ o.deleting
      BY <3>1 DEF Object
    <3>3. Write(c, Stored(o)) /\ ~cr[c].deleting BY <2>3 DEF DeleteCR
    <3> HIDE DEF o
    <3> QED BY <3>1, <3>2, <3>3, StoredType, NoneAssumption DEF Held, Dying, Stored
  <2> QED BY <2>1, <2>2, <2>3 DEF UserRequest
<1>2. UNCHANGED cache BY DEF UserRequest, CreateCR, EditCR, DeleteCR
<1>3. ServerInv' BY <1>1, <1>2, WriteServer DEF ServerInv, HeldSinceSeen
<1>4. cr'[c] = o BY <1>1 DEF KubeTypeOK, Write
<1>5. \A d \in CR \ {c} : UNCHANGED <<cr[d], cache[d], feed[d]>> BY <1>1, <1>2, WriteSeen
<1>6. \A d \in CR \ {c} : cr'[d] = cr[d] /\ Seen(d)' = Seen(d) BY <1>5, SameSeen
<1> QED BY <1>1, <1>3, <1>4, <1>6

(* Nothing outside the worker breaks what the worker relies on.            *)
LEMMA EnvironmentKeeps ==
    ASSUME TypeInv, FinalizerInv, Environment PROVE FinalizerInv'
<1>1. /\ KubeTypeOK
      /\ pc # "idle" => cur \in CR
      /\ air \in Object \cup {None}
      /\ fresh \in BOOLEAN
      /\ pc \in DestroyPoints => pc # "idle"
  BY DEF TypeInv, WorkerTypeOK, Scoped, DestroyPoints
<1>2. CASE /\ \E c \in CR : UserRequest(c) /\ fresh' = (fresh /\ c # cur)
           /\ UNCHANGED <<pc, cur, air, w, call, left, iamVars>>
  <2>1. PICK c \in CR : UserRequest(c) /\ fresh' = (fresh /\ c # cur) BY <1>2
  <2>2. /\ ServerInv'
        /\ \A d \in CR : /\ Held(cr[d]) => Held(cr'[d])
                         /\ Held(cr[d]) /\ Dying(cr[d]) => Dying(cr'[d])
        /\ \A d \in CR \ {c} : cr'[d] = cr[d] /\ Seen(d)' = Seen(d)
    BY <1>1, <2>1, UserStep DEF FinalizerInv
  <2>3. UNCHANGED <<pc, cur, air, w, call, roles>> /\ At' = At BY <1>2 DEF iamVars, At
  <2>4. AtHand'
    <3> SUFFICES ASSUME NEW d \in CR, d = cur, pc # "idle"
                 PROVE  /\ fresh' => air = cr'[d]
                        /\ fresh' /\ Dying(air) => \A v \in Seen(d)' : Dying(v)
                        /\ Alive(air) /\ Held(air) => Held(cr'[d])
      BY <1>1, <2>3 DEF AtHand, Seen, Alive, Held, Dying
    <3>1. /\ fresh => air = cr[cur]
          /\ fresh /\ Dying(air) => \A v \in Seen(cur) : Dying(v)
          /\ Alive(air) /\ Held(air) => Held(cr[cur])
      BY DEF FinalizerInv, AtHand
    <3> QED BY <1>1, <2>1, <2>2, <3>1
  <2>5. Branch' BY <2>3 DEF FinalizerInv, Branch, Alive, Dying, Held
  <2>6. DestroyGuard' BY <1>1, <2>2, <2>3 DEF FinalizerInv, DestroyGuard, Dying, Held
  <2>7. RolesGone' BY <2>3 DEF FinalizerInv, RolesGone, GoneAt, Ours
  <2> QED BY <2>2, <2>4, <2>5, <2>6, <2>7 DEF FinalizerInv
<1>3. CASE /\ (\E c \in CR : WatchEvent(c)) \/ (\E k \in Cluster : ControlPlaneChanges(k))
           /\ UNCHANGED <<workerVars, left, iamVars>>
  <2>1. UNCHANGED <<pc, cur, air, fresh, w, call, roles>> /\ At' = At
    BY <1>3 DEF iamVars, workerVars, At
  <2>2. /\ cr' = cr
        /\ ServerInv'
        /\ \A d \in CR : Seen(d)' \subseteq Seen(d)
    <3>1. CASE \E c \in CR : WatchEvent(c)
      BY <1>1, <3>1, WatchEventServer DEF FinalizerInv, WatchEvent
    <3>2. CASE \E k \in Cluster : ControlPlaneChanges(k)
      BY <3>2, SameSeen DEF FinalizerInv, ServerInv, ControlPlaneChanges
    <3> QED BY <1>3, <3>1, <3>2
  <2>3. AtHand'
    <3> SUFFICES ASSUME NEW d \in CR, d = cur, pc # "idle", fresh, Dying(air)
                 PROVE  \A v \in Seen(d)' : Dying(v)
      BY <1>1, <2>1, <2>2 DEF FinalizerInv, AtHand, Alive, Held, Seen, Dying
    <3> QED BY <1>1, <2>2 DEF FinalizerInv, AtHand
  <2>4. Branch' BY <2>1 DEF FinalizerInv, Branch, Alive, Dying, Held
  <2>5. DestroyGuard' BY <2>1, <2>2 DEF FinalizerInv, DestroyGuard, Dying, Held
  <2>6. RolesGone' BY <2>1 DEF FinalizerInv, RolesGone, GoneAt, Ours
  <2> QED BY <2>2, <2>3, <2>4, <2>5, <2>6 DEF FinalizerInv
<1>4. CASE (OutOfBand \/ Foreign) /\ UNCHANGED <<workerVars, kubeVars>>
  <2>1. UNCHANGED <<pc, cur, air, fresh, w, call, cr, cache, feed>> /\ At' = At
    BY <1>4 DEF kubeVars, workerVars, At
  <2>2. \A r \in RoleName : ~Ours(r) => ~Ours(r)'
    <3>1. OutOfBand => \A r \in RoleName : ~Ours(r) => ~Ours(r)'
      BY DEF OutOfBand, DetachRolePolicy, DeletePolicy, DeleteRole, Ours, InPath, TypeInv,
             IAMTypeOK
    <3>2. ASSUME NEW r \in RoleName, NEW t, CreateRole(r, t, None)
          PROVE  \A q \in RoleName : ~Ours(q) => ~Ours(q)'
      BY <3>2 DEF CreateRole, RoleExists, Ours, InPath, TypeInv, IAMTypeOK
    <3>3. Foreign => \A r \in RoleName : ~Ours(r) => ~Ours(r)'
      BY <3>2 DEF Foreign, Ours
    <3> QED BY <1>4, <3>1, <3>3
  <2>3. ServerInv' BY <2>1, SameSeen DEF FinalizerInv, ServerInv
  <2>4. AtHand' /\ Branch' /\ DestroyGuard'
    BY <2>1 DEF FinalizerInv, AtHand, Branch, DestroyGuard, Alive, Dying, Held, Seen
  <2>5. At \in DestroyPoints \cup {"unfinalize"} =>
          \A e \in DOMAIN air.spec.roles : air.spec.roles[e].name \in RoleName
    BY <1>1, ObjectSpec, SpecFields DEF FinalizerInv, Branch, Dying
  <2>6. RolesGone'
    BY <2>1, <2>2, <2>5 DEF FinalizerInv, RolesGone, GoneAt, DestroyPoints
  <2> QED BY <2>3, <2>4, <2>6 DEF FinalizerInv
<1> QED BY <1>2, <1>3, <1>4 DEF Environment

----------------------------------------------------------------------------
(* Steps of the worker that write nothing to the server *)

(* Nothing of the server changes, and the worker leaves Reconcile or keeps *)
(* the object it has at hand.                                              *)
Quiet == /\ UNCHANGED <<cr, cache, feed>>
         /\ pc' = "idle" \/ UNCHANGED <<cur, air, fresh>>

(* The worker leaves Reconcile, or goes on somewhere in S.                 *)
Moves(S) == Quiet /\ (pc' = "idle" \/ (pc' \in S \cup {"status"} /\ At' \in S))

(* Leaving Reconcile ends all obligations.                                 *)
LEMMA Idle ==
    ASSUME pc' = "idle" PROVE AtHand' /\ Branch' /\ DestroyGuard' /\ RolesGone'
<1>1. At' = "idle" BY DEF At
<1> QED
  BY <1>1 DEF AtHand, Branch, DestroyGuard, RolesGone, GoneAt, SyncPoints, DestroyPoints

(* A quiet step keeps all but what depends on the point.                   *)
LEMMA QuietKeeps ==
    ASSUME FinalizerInv, pc # "idle", Quiet PROVE ServerInv' /\ AtHand'
<1>1. ServerInv' BY SameSeen DEF FinalizerInv, ServerInv, Quiet
<1>2. CASE pc' = "idle" BY <1>1, <1>2, Idle
<1>3. CASE UNCHANGED <<cur, air, fresh>>
  BY <1>1, <1>3 DEF FinalizerInv, AtHand, Quiet, Seen, Held, Dying, Alive
<1> QED BY <1>1, <1>2, <1>3 DEF Quiet

(* How the pieces end: a Goto, a Report and a Return.                      *)
LEMMA Ends ==
    /\ \A l, x : Goto(l, x) =>
         UNCHANGED <<cr, cache, feed, cur, air, fresh, call>> /\ pc' = l /\ w' = x
    /\ \A h, res, l, x : Report(h, res, l, x) =>
         /\ UNCHANGED <<cr, cache, feed, cur, air, fresh>>
         /\ pc' = "status" /\ At' = l /\ w' = x
    /\ \A b : Return(b) => UNCHANGED <<cr, cache, feed>> /\ pc' = "idle"
    /\ ReturnError => UNCHANGED <<cr, cache, feed>> /\ pc' = "idle"
    /\ DestroyFails => /\ UNCHANGED <<cr, cache, feed, cur, air, fresh>>
                       /\ pc' = "status" /\ At' = "requeue"
BY DEF Goto, Report, Return, ReturnError, Leave, kubeVars, At, DestroyFails

(* A synchronisation, once begun, goes on as one.                          *)
LEMMA SyncMoves ==
    ASSUME Prune \/ Provide
    PROVE  pc \in SyncPoints /\ Moves(SyncPoints \cup {"final", "requeue"})
<1> DEFINE S == SyncPoints \cup {"final", "requeue"}
<1>1. /\ \A l, x : Goto(l, x) /\ l \in S /\ l # "status" => Moves(S)
      /\ \A h, res, l, x : Report(h, res, l, x) /\ l \in S => Moves(S)
      /\ \A b : Return(b) => Moves(S)
      /\ ReturnError => Moves(S)
  BY Ends DEF Moves, Quiet, At
<1>2. "final" \in S /\ "requeue" \in S /\ SyncPoints \subseteq S OBVIOUS
<1> HIDE DEF S
<1> USE <1>1, <1>2 DEF SyncPoints
<1>3. List \/ StaleRefs \/ StaleDetach => pc \in SyncPoints /\ Moves(S)
  BY DEF List, StaleRefs, StaleDetach
<1>4. DropRoles \/ DropDetach => pc \in SyncPoints /\ Moves(S)
  BY DEF DropRoles, DropDetach
<1>5. DropPolicies \/ DropPolicy \/ DropEntities \/ DropEntityPolicy
        => pc \in SyncPoints /\ Moves(S)
  BY DEF DropPolicies, DropPolicy, DropEntities, DropEntityPolicy, DropPolicyThen
<1>6. \A e \in RoleKey : SyncRole(e) => pc \in SyncPoints /\ Moves(S)
  BY DEF SyncRole
<1>7. SyncRolesDone \/ CreateMissingRole \/ UpdateRoleTrust \/ SyncPolicies
        => pc \in SyncPoints /\ Moves(S)
  BY DEF SyncRolesDone, CreateMissingRole, UpdateRoleTrust, SyncPolicies
<1>8. CreateMissingPolicy \/ AttachNew \/ UpdDetach \/ UpdDelete
        => pc \in SyncPoints /\ Moves(S)
  BY DEF CreateMissingPolicy, AttachNew, AttachThen, UpdDetach, UpdDelete
<1>9. UpdCreate \/ UpdAttach \/ CheckAttached \/ Attach => pc \in SyncPoints /\ Moves(S)
  BY DEF UpdCreate, UpdAttach, AttachThen, CheckAttached, Attach
<1> QED BY <1>3, <1>4, <1>5, <1>6, <1>7, <1>8, <1>9 DEF Prune, Provide, S

(* A step that keeps the branch: what it may do next is justified already. *)
LEMMA SyncKeeps ==
    ASSUME FinalizerInv, pc \in SyncPoints, Moves(SyncPoints \cup {"final", "requeue"})
    PROVE  FinalizerInv'
<1>1. pc \notin {"idle", "status"} /\ At = pc BY DEF At, SyncPoints
<1>2. ServerInv' /\ AtHand' BY <1>1, QuietKeeps DEF Moves
<1>3. CASE pc' = "idle" BY <1>2, <1>3, Idle DEF FinalizerInv
<1>4. CASE /\ pc' \in SyncPoints \cup {"final", "requeue", "status"}
           /\ At' \in SyncPoints \cup {"final", "requeue"}
           /\ UNCHANGED air
  <2>1. Branch' BY <1>1, <1>4
    DEF FinalizerInv, Branch, Alive, Held, Dying, SyncPoints, DestroyPoints
  <2>2. DestroyGuard' /\ RolesGone'
    BY <1>4 DEF DestroyGuard, RolesGone, GoneAt, SyncPoints, DestroyPoints
  <2> QED BY <1>2, <2>1, <2>2 DEF FinalizerInv
<1> QED BY <1>3, <1>4 DEF Moves, Quiet

(* The other points that write nothing: their successors have no           *)
(* obligations.                                                            *)
LEMMA OtherKeeps ==
    ASSUME FinalizerInv,
           pc \notin {"idle"},
           Moves({"newIAMClient", "requeue", "return"})
    PROVE  FinalizerInv'
<1>1. ServerInv' /\ AtHand' BY QuietKeeps DEF Moves
<1>2. CASE pc' = "idle" BY <1>1, <1>2, Idle DEF FinalizerInv
<1>3. CASE /\ pc' \in {"newIAMClient", "requeue", "return", "status"}
           /\ At' \in {"newIAMClient", "requeue", "return"}
  <2>1. Branch' /\ DestroyGuard' /\ RolesGone'
    BY <1>3 DEF Branch, DestroyGuard, RolesGone, GoneAt, SyncPoints, DestroyPoints
  <2> QED BY <1>1, <2>1 DEF FinalizerInv
<1> QED BY <1>2, <1>3 DEF Moves

(* deleteIAMResources: each role it leaves behind is gone.                 *)
LEMMA DestroyKeeps ==
    ASSUME TypeInv, FinalizerInv, DestroyRoles \/ DestroyDetach \/ DestroyPolicies \/ DestroyRole
    PROVE  FinalizerInv'
<1>1. pc \in DestroyPoints /\ pc \notin {"idle", "status"} /\ At = pc
  BY DEF DestroyRoles, DestroyDetach, DestroyPolicies, DestroyRole, DestroyPoints, At
<1>2. /\ Dying(air) /\ air \in Object /\ air.spec \in Spec_
      /\ \A e \in DOMAIN air.spec.roles : air.spec.roles[e].name \in RoleName
      /\ w \in Locals
      /\ IAMTypeOK
  <2>1. Dying(air) BY <1>1 DEF FinalizerInv, Branch
  <2>2. air \in Object /\ w \in Locals /\ IAMTypeOK
    BY <2>1 DEF TypeInv, WorkerTypeOK, Dying
  <2> QED BY <2>1, <2>2, ObjectSpec, SpecFields
<1>3. ASSUME UNCHANGED <<cr, cache, feed, cur, air, fresh>>,
             pc' \in DestroyPoints \cup {"status"},
             At' \in DestroyPoints \cup {"unfinalize", "requeue"},
             RolesGone'
      PROVE  FinalizerInv'
  <2>1. ServerInv' /\ AtHand' BY <1>1, <1>3, QuietKeeps DEF Quiet
  <2>2. Branch'
    BY <1>2, <1>3 DEF Branch, Dying, SyncPoints, DestroyPoints
  <2>3. DestroyGuard' BY <1>1, <1>3 DEF FinalizerInv, DestroyGuard, Dying, Held
  <2> QED BY <1>3, <2>1, <2>2, <2>3 DEF FinalizerInv
<1>4. ASSUME DestroyFails PROVE FinalizerInv'
  <2>1. RolesGone' BY <1>4, Ends DEF RolesGone, GoneAt
  <2> QED BY <1>3, <1>4, <2>1, Ends
<1>5. ASSUME DestroyRoles PROVE FinalizerInv'
  <2> DEFINE name(e) == air.spec.roles[e].name
  <2>1. /\ pc = "destroyRoles"
        /\ UNCHANGED <<roles>>
        /\ \A e \in DOMAIN air.spec.roles : e \in w.todo \/ ~Ours(name(e))
    BY <1>1, <1>5 DEF DestroyRoles, iamVars, FinalizerInv, RolesGone, GoneAt
  <2>2. CASE w.todo = {} /\ Report("Destroyed", NoResult, "unfinalize", w)
    <3>1. RolesGone' BY <2>1, <2>2, Ends DEF RolesGone, GoneAt, Ours
    <3> QED BY <1>3, <2>2, <3>1, Ends
  <2>3. ASSUME NEW e \in w.todo, ~RoleExists(name(e)),
               Goto("destroyRoles", [w EXCEPT !.todo = @ \ {e}])
        PROVE  FinalizerInv'
    <3>1. w'.todo = w.todo \ {e} /\ At' = "destroyRoles"
      BY <1>2, <2>3, Ends DEF Locals, At
    <3>2. ~Ours(name(e)) BY <2>3 DEF Ours, InPath, RoleExists
    <3>3. \A q \in DOMAIN air.spec.roles : q \in w'.todo \/ ~Ours(name(q))'
      BY <2>1, <2>3, <3>1, <3>2, Ends DEF Ours
    <3>4. UNCHANGED air BY <2>3, Ends
    <3>5. RolesGone' BY <3>1, <3>3, <3>4 DEF RolesGone, GoneAt
    <3> QED BY <1>3, <2>3, <3>1, <3>5, Ends DEF DestroyPoints
  <2>4. ASSUME NEW e \in w.todo, NEW r, r = name(e),
               Goto("destroyDetach", [[w EXCEPT !.todo = @ \ {e}] EXCEPT
                        !.role = r, !.pend = PoliciesOf(r), !.kill = PoliciesOf(r)])
        PROVE  FinalizerInv'
    <3> DEFINE x == [[w EXCEPT !.todo = @ \ {e}] EXCEPT
                        !.role = r, !.pend = PoliciesOf(r), !.kill = PoliciesOf(r)]
    <3>1. x.todo = w.todo \ {e} /\ x.role = r BY <1>2 DEF Locals
    <3>2. Goto("destroyDetach", x) BY <2>4
    <3> HIDE DEF x
    <3>3. w'.todo = w.todo \ {e} /\ w'.role = r /\ At' = "destroyDetach"
      BY <3>1, <3>2, Ends DEF At
    <3>4. UNCHANGED air BY <2>4, Ends
    <3>5. \A q \in DOMAIN air.spec.roles :
            q \in w'.todo \/ name(q) = w'.role \/ ~Ours(name(q))'
      BY <2>1, <2>4, <3>3, <3>4 DEF Ours
    <3>6. RolesGone' BY <3>3, <3>4, <3>5 DEF RolesGone, GoneAt
    <3> QED BY <1>3, <2>4, <3>3, <3>6, Ends DEF DestroyPoints
  <2> QED BY <1>5, <2>2, <2>3, <2>4 DEF DestroyRoles
<1>6. ASSUME pc \in {"destroyDetach", "destroyPolicies"},
             NEW l \in {"destroyDetach", "destroyPolicies", "destroyRole"}, NEW x,
             Goto(l, x), x.todo = w.todo, x.role = w.role, UNCHANGED roles
      PROVE  FinalizerInv'
  <2>1. At' = l BY <1>6, Ends DEF At
  <2>2. RolesGone' BY <1>1, <1>6, <2>1, Ends DEF FinalizerInv, RolesGone, GoneAt, Ours
  <2> QED BY <1>3, <1>6, <2>1, <2>2, Ends DEF DestroyPoints
<1>7. ASSUME DestroyDetach PROVE FinalizerInv'
  <2>1. pc = "destroyDetach" /\ UNCHANGED roles
    BY <1>7 DEF DestroyDetach, iamVars, DetachRolePolicy
  <2>2. \A p : /\ [w EXCEPT !.pend = @ \ {p}].todo = w.todo
               /\ [w EXCEPT !.pend = @ \ {p}].role = w.role
    BY <1>2 DEF Locals
  <2> QED BY <1>6, <1>7, <2>1, <2>2 DEF DestroyDetach
<1>8. ASSUME DestroyPolicies PROVE FinalizerInv'
  <2>1. pc = "destroyPolicies" /\ UNCHANGED roles
    BY <1>8 DEF DestroyPolicies, DestroyFails, iamVars, DeletePolicy
  <2>2. \A p : /\ [w EXCEPT !.kill = @ \ {p}].todo = w.todo
               /\ [w EXCEPT !.kill = @ \ {p}].role = w.role
    BY <1>2 DEF Locals
  <2> QED BY <1>4, <1>6, <1>8, <2>1, <2>2 DEF DestroyPolicies
<1>9. ASSUME DestroyRole PROVE FinalizerInv'
  <2>1. CASE DeleteRole(w.role) /\ Goto("destroyRoles", [w EXCEPT !.role = None])
    <3>1. w'.todo = w.todo /\ At' = "destroyRoles" /\ pc = "destroyRole"
      BY <1>2, <1>9, <2>1, Ends DEF Locals, At, DestroyRole
    <3> DEFINE name(e) == air.spec.roles[e].name
    <3>2. \A r \in RoleName : r = w.role \/ ~Ours(r) => ~Ours(r)'
      BY <1>2, <2>1 DEF DeleteRole, Ours, InPath, IAMTypeOK
    <3>3. \A e \in DOMAIN air.spec.roles : e \in w.todo \/ name(e) = w.role \/ ~Ours(name(e))
      BY <1>1, <3>1 DEF FinalizerInv, RolesGone, GoneAt
    <3>4. \A e \in DOMAIN air.spec.roles : e \in w'.todo \/ ~Ours(name(e))'
      <4>1. UNCHANGED air BY <2>1, Ends
      <4> QED BY <1>2, <3>1, <3>2, <3>3, <4>1
    <3>5. UNCHANGED air BY <2>1, Ends
    <3>6. RolesGone' BY <3>1, <3>4, <3>5 DEF RolesGone, GoneAt
    <3> QED BY <1>3, <2>1, <3>1, <3>6, Ends DEF DestroyPoints
  <2> QED BY <1>4, <1>9, <2>1 DEF DestroyRole
<1> QED BY <1>5, <1>7, <1>8, <1>9

----------------------------------------------------------------------------
(* Steps of the worker that write to the server *)

(* No object loses its finalizer in the step.                              *)
KeepsHeld == \A c \in CR : Held(cr[c]) => Held(cr'[c])

(* Update and Status().Update by a worker that has the server's version:   *)
(* the new one is stored, and keeps what the old one promised.             *)
LEMMA UpdateKeeps ==
    ASSUME TypeInv, FinalizerInv, pc # "idle", air \in Object, NEW o \in Object,
           NEW l, l \notin {"idle", "status"},
           o.deleting = air.deleting, air.finalizer => o.finalizer, o.spec = air.spec,
           l = "addFinalizer" => Alive(air),
           l \in SyncPoints => Alive(air) /\ o.finalizer,
           l \in DestroyPoints \cup {"unfinalize"} => Dying(air),
           GoneAt(l),
           UNCHANGED roles,
           Update(o, l)
    PROVE  FinalizerInv' /\ KeepsHeld
<1>1. cur \in CR /\ KubeTypeOK BY DEF TypeInv, Scoped
<1>2. CASE Return(TRUE)
  <2>1. pc' = "idle" /\ UNCHANGED <<cr, cache, feed>> BY <1>2, Ends
  <2>2. ServerInv' BY <2>1, SameSeen DEF FinalizerInv, ServerInv
  <2> QED BY <2>1, <2>2, Idle DEF FinalizerInv, KeepsHeld
<1>3. CASE /\ fresh
           /\ Write(cur, Stored(o))
           /\ air' = o
           /\ pc' = l
           /\ call' = NoCall
           /\ UNCHANGED <<cur, fresh, w, cache, queue, cp, edits>>
  <2>1. o # None /\ air # None BY NoneAssumption
  <2>2. air = cr[cur] /\ (Dying(air) => \A v \in Seen(cur) : Dying(v))
    BY <1>3 DEF FinalizerInv, AtHand
  <2>3. o.deleting => o.finalizer
    BY <1>1, <2>1, <2>2 DEF FinalizerInv, ServerInv, DyingIsHeld, Dying, Held
  <2>4. Stored(o) = o BY <2>3 DEF Stored
  <2>5. (\E v \in Seen(cur) : Alive(v) /\ Held(v)) => Held(o)
    BY <1>1, <2>1, <2>2 DEF FinalizerInv, ServerInv, HeldSinceSeen, Held
  <2>6. Dying(o) => Held(o) BY <2>1, <2>3 DEF Dying, Held
  <2>7. UNCHANGED cache /\ Write(cur, o) BY <1>3, <2>4
  <2>8. ServerInv' BY <1>1, <2>5, <2>6, <2>7, WriteServer DEF FinalizerInv
  <2>9. cr'[cur] = o BY <1>1, <2>7 DEF KubeTypeOK, Write
  <2>10. AtHand'
    <3>1. PICK c \in CR : c = cur BY <1>1
    <3>2. Seen(c)' = Seen(c) \cup {o} BY <1>1, <2>7, <3>1, WriteSeen
    <3>3. Seen(cur)' = Seen(c)' BY <1>3, <3>1 DEF Seen
    <3>4. Dying(o) => \A v \in Seen(cur)' : Dying(v)
      BY <2>1, <2>2, <3>1, <3>2, <3>3 DEF Dying
    <3> QED BY <1>3, <2>9, <3>4 DEF AtHand, Alive, Held, Dying
  <2>11. At' = l BY <1>3 DEF At
  <2>12. Branch' BY <1>3, <2>1, <2>11 DEF Branch, Alive, Held, Dying
  <2>13. DestroyGuard' BY <1>3, <2>1, <2>3, <2>9 DEF DestroyGuard, Dying, Held
  <2>14. RolesGone'
    BY <1>3, <2>11 DEF RolesGone, GoneAt, Ours
  <2>15. KeepsHeld
    BY <1>1, <2>1, <2>2, <2>7, <2>9, WriteSeen DEF KeepsHeld, Held
  <2> QED BY <2>8, <2>10, <2>12, <2>13, <2>14, <2>15 DEF FinalizerInv
<1> QED BY <1>2, <1>3 DEF Update

(* updateCRDStatus changes neither the finalizer nor the deletion.         *)
LEMMA StatusKeeps ==
    ASSUME TypeInv, FinalizerInv, UpdateCRDStatus PROVE FinalizerInv' /\ KeepsHeld
<1>1. /\ pc = "status"
      /\ air \in Object
      /\ call \in Call
      /\ call.return \in ReturnPoints
      /\ At = call.return
      /\ UNCHANGED roles
  BY DEF UpdateCRDStatus, TypeInv, Scoped, WorkerTypeOK, At, iamVars
<1>2. CASE Return(TRUE)
  <2>1. pc' = "idle" /\ UNCHANGED <<cr, cache, feed>> BY <1>2, Ends
  <2>2. ServerInv' BY <2>1, SameSeen DEF FinalizerInv, ServerInv
  <2> QED BY <2>1, <2>2, Idle DEF FinalizerInv, KeepsHeld
<1>3. CASE Update(StatusFor(air, call.phase, call.result), call.return)
  <2> DEFINE o == StatusFor(air, call.phase, call.result)
  <2>1. o \in Object /\ o.spec = air.spec BY <1>1, StatusForType DEF Call
  <2>2. o.deleting = air.deleting /\ o.finalizer = air.finalizer
    BY <1>1 DEF StatusFor, Object
  <2>3. Update(o, call.return) BY <1>3
  <2> HIDE DEF o
  <2>4. call.return \notin {"idle", "status"}
    BY <1>1 DEF ReturnPoints, DestroyPoints, SyncPoints
  <2>5. Branch /\ RolesGone BY DEF FinalizerInv
  <2> QED
    BY <1>1, <2>1, <2>2, <2>3, <2>4, <2>5, UpdateKeeps
    DEF Branch, RolesGone, Alive, Held, Dying
<1> QED BY <1>2, <1>3 DEF UpdateCRDStatus

(* A request begins with what the cache says, fresh when no event is on    *)
(* its way.                                                                *)
LEMMA PickKeeps ==
    ASSUME TypeInv, FinalizerInv, NEW c \in CR, Pick(c) PROVE FinalizerInv' /\ KeepsHeld
<1>1. /\ pc' = "getClusterResources"
      /\ At' = "getClusterResources"
      /\ cur' = c
      /\ air' = cache[c]
      /\ fresh' = (feed[c] = <<>>)
      /\ UNCHANGED <<cr, cache, feed>>
  BY DEF Pick, At
<1>2. HeldSinceSeen(c) /\ FeedReachesServer(c) BY DEF FinalizerInv, ServerInv
<1>3. ServerInv' BY <1>1, SameSeen DEF FinalizerInv, ServerInv
<1>4. AtHand'
  <2>1. cache[c] \in Seen(c) BY DEF Seen
  <2>2. feed[c] = <<>> => cr[c] = cache[c] /\ \A v \in Seen(c) : v = cache[c]
    BY <1>2 DEF FeedReachesServer, Seen
  <2>3. Seen(cur)' = Seen(c) BY <1>1 DEF Seen
  <2> QED BY <1>1, <1>2, <2>1, <2>2, <2>3 DEF AtHand, HeldSinceSeen, Alive, Held, Dying
<1>5. Branch' /\ DestroyGuard' /\ RolesGone'
  BY <1>1 DEF Branch, DestroyGuard, RolesGone, GoneAt, SyncPoints, DestroyPoints
<1> QED BY <1>1, <1>3, <1>4, <1>5 DEF FinalizerInv, KeepsHeld

(* The branch is taken on the object at hand.                              *)
LEMMA NewIAMClientKeeps ==
    ASSUME TypeInv, FinalizerInv, NewIAMClient PROVE FinalizerInv' /\ KeepsHeld
<1>1. pc = "newIAMClient" /\ air \in Object
  BY DEF NewIAMClient, TypeInv, Scoped, ScopeAt
<1>2. w \in Locals /\ air # None
  BY <1>1, NoneAssumption DEF TypeInv, WorkerTypeOK
<1>3. /\ UNCHANGED <<cr, cache, feed, cur, air, fresh>>
      /\ pc' \notin {"idle"} \cup DestroyPoints
      /\ \/ At' = "addFinalizer" /\ Alive(air)
         \/ At' = "list" /\ Alive(air) /\ Held(air)
         \/ At' = "destroyRoles" /\ Dying(air) /\ w'.todo = DOMAIN air.spec.roles
  <2>1. CASE ~air.deleting /\ ~air.finalizer /\ Goto("addFinalizer", w)
    BY <1>2, <2>1, Ends DEF Alive, At, DestroyPoints
  <2>2. CASE ~air.deleting /\ air.finalizer /\ Goto("list", w)
    BY <1>2, <2>2, Ends DEF Alive, Held, At, DestroyPoints
  <2>3. CASE /\ air.deleting
             /\ Report("Destroying", NoResult, "destroyRoles",
                       [w EXCEPT !.todo = DOMAIN air.spec.roles])
    BY <1>2, <2>3, Ends DEF Dying, DestroyPoints, Locals
  <2> QED BY <2>1, <2>2, <2>3 DEF NewIAMClient
<1>4. ServerInv' /\ AtHand' BY <1>1, <1>3, QuietKeeps DEF Quiet
<1>5. Branch' /\ DestroyGuard' /\ RolesGone'
  BY <1>3
  DEF Branch, DestroyGuard, RolesGone, GoneAt, SyncPoints, DestroyPoints, Alive, Held, Dying
<1> QED BY <1>3, <1>4, <1>5 DEF FinalizerInv, KeepsHeld

(* The finalizer is on the server before the first call to IAM.            *)
LEMMA AddFinalizerKeeps ==
    ASSUME TypeInv, FinalizerInv, AddFinalizer PROVE FinalizerInv' /\ KeepsHeld
<1> DEFINE o == [air EXCEPT !.finalizer = TRUE]
<1>1. /\ pc = "addFinalizer"
      /\ pc # "idle"
      /\ air \in Object
      /\ Alive(air)
      /\ UNCHANGED roles
      /\ Update(o, "list")
  BY DEF AddFinalizer, TypeInv, Scoped, ScopeAt, iamVars, FinalizerInv, Branch, At
<1>2. o \in Object /\ o.finalizer /\ o.deleting = air.deleting /\ o.spec = air.spec
  BY <1>1 DEF Object
<1>3. GoneAt("list") BY DEF GoneAt
<1> HIDE DEF o
<1> QED BY <1>1, <1>2, <1>3, UpdateKeeps DEF DestroyPoints

(* The removal of the finalizer is the end of the object, which is dying   *)
(* in every version that can still be read.                                *)
LEMMA UnfinalizeKeeps ==
    ASSUME TypeInv, FinalizerInv, Unfinalize
    PROVE  /\ FinalizerInv'
           /\ \A c \in CR : Held(cr[c]) /\ ~Held(cr'[c]) =>
                 \A r \in RolesNamed(cr[c].spec) : ~Ours(r)
<1>1. /\ pc = "unfinalize" /\ At = "unfinalize"
      /\ cur \in CR
      /\ air \in Object
      /\ KubeTypeOK
  BY DEF Unfinalize, TypeInv, Scoped, ScopeAt, At
<1>2. CASE Return(TRUE)
  <2>1. pc' = "idle" /\ UNCHANGED <<cr, cache, feed>> BY <1>2, Ends
  <2>2. ServerInv' BY <2>1, SameSeen DEF FinalizerInv, ServerInv
  <2> QED BY <2>1, <2>2, Idle DEF FinalizerInv
<1>3. CASE /\ fresh
           /\ Write(cur, Stored([air EXCEPT !.finalizer = FALSE]))
           /\ Leave
           /\ UNCHANGED <<cache, queue, cp, edits>>
  <2>1. air = cr[cur] /\ Dying(air) /\ \A v \in Seen(cur) : Dying(v)
    BY <1>1, <1>3 DEF FinalizerInv, AtHand, Branch
  <2>2. Stored([air EXCEPT !.finalizer = FALSE]) = None
    BY <1>1, <2>1 DEF Stored, Object, Dying
  <2>3. Write(cur, None) /\ UNCHANGED cache BY <1>3, <2>2
  <2>4. ServerInv'
    BY <1>1, <2>1, <2>3, WriteServer DEF FinalizerInv, Dying, Held, Alive
  <2>5. pc' = "idle" BY <1>3 DEF Leave
  <2>6. \A c \in CR : Held(cr[c]) /\ ~Held(cr'[c]) => c = cur
    BY <1>1, <2>3, WriteSeen
  <2>7. \A r \in RolesNamed(air.spec) : ~Ours(r)
    BY <1>1 DEF FinalizerInv, RolesGone, GoneAt, RolesNamed
  <2> QED BY <2>1, <2>4, <2>5, <2>6, <2>7, Idle DEF FinalizerInv
<1> QED BY <1>2, <1>3 DEF Unfinalize

(* A restarted operator begins with what the server holds.                 *)
LEMMA CrashKeeps ==
    ASSUME TypeInv, FinalizerInv, Crash PROVE FinalizerInv' /\ KeepsHeld
<1>1. pc' = "idle" /\ cr' = cr /\ cache' = cr /\ feed' = [c \in CR |-> <<>>]
  BY DEF Crash, Leave, Relist
<1>2. \A c \in CR : Seen(c)' = {cr[c]} BY <1>1 DEF Seen
<1>3. ServerInv'
  BY <1>1, <1>2
  DEF FinalizerInv, ServerInv, HeldSinceSeen, FeedReachesServer, DyingIsHeld, Alive, Held, Dying
<1> QED BY <1>1, <1>3, Idle DEF FinalizerInv, KeepsHeld

----------------------------------------------------------------------------
(* The theorems *)

(* Nothing is there before the first request of a user.                    *)
LEMMA InitFinalizer == Init => FinalizerInv
<1> SUFFICES ASSUME Init PROVE FinalizerInv OBVIOUS
<1>1. /\ \A c \in CR : cr[c] = None /\ cache[c] = None /\ feed[c] = <<>>
      /\ pc = "idle" /\ At = "idle"
  BY DEF Init, KubeInit, At
<1>2. ASSUME NEW c \in CR PROVE Seen(c) = {None}
  <2>1. DOMAIN feed[c] = {} BY <1>1
  <2> QED BY <1>1, <2>1 DEF Seen
<1>3. ASSUME NEW c \in CR
      PROVE  HeldSinceSeen(c) /\ FeedReachesServer(c) /\ DyingIsHeld(c)
  <2>1. HeldSinceSeen(c) BY <1>2 DEF HeldSinceSeen, Alive
  <2>2. FeedReachesServer(c) BY <1>1 DEF FeedReachesServer
  <2>3. DyingIsHeld(c) BY <1>1 DEF DyingIsHeld, Dying
  <2> QED BY <2>1, <2>2, <2>3
<1> QED
  BY <1>1, <1>3
  DEF FinalizerInv, ServerInv, AtHand, Branch, DestroyGuard, RolesGone, GoneAt, SyncPoints, DestroyPoints

(* Every step keeps the invariant, and none but the removal of the         *)
(* finalizer at the end of deleteIAMResources takes a finalizer away.      *)
LEMMA NextFinalizer ==
    ASSUME TypeInv, FinalizerInv, [Next]_vars
    PROVE  /\ FinalizerInv'
           /\ \/ KeepsHeld
              \/ \A c \in CR : Held(cr[c]) /\ ~Held(cr'[c]) =>
                    \A r \in RolesNamed(cr[c].spec) : ~Ours(r)
<1>1. CASE Prune \/ Provide BY <1>1, SyncMoves, SyncKeeps DEF Moves, Quiet, KeepsHeld
<1>2. CASE DestroyRoles \/ DestroyDetach \/ DestroyPolicies \/ DestroyRole
  <2>1. cr' = cr
    BY <1>2, Ends DEF DestroyRoles, DestroyDetach, DestroyPolicies, DestroyRole
  <2> QED BY <1>2, <2>1, DestroyKeeps DEF KeepsHeld
<1>3. CASE GetClusterResources \/ End \/ CallFails
  <2> DEFINE S == {"newIAMClient", "requeue", "return"}
  <2>1. /\ \A l, x : Goto(l, x) /\ l \in S => Moves(S)
        /\ \A h, res, l, x : Report(h, res, l, x) /\ l \in S => Moves(S)
        /\ \A b : Return(b) => Moves(S)
        /\ ReturnError => Moves(S)
    BY Ends DEF Moves, Quiet, At
  <2>2. "newIAMClient" \in S /\ "requeue" \in S /\ "return" \in S OBVIOUS
  <2> HIDE DEF S
  <2>3. GetClusterResources \/ End => pc # "idle" /\ Moves(S)
    BY <2>1, <2>2 DEF GetClusterResources, End, Final, Finish, Requeue
  <2>4. CallFails => pc # "idle" /\ Moves(S)
    BY <2>1, <2>2 DEF CallFails, SyncPoints, DestroyPoints
  <2>5. pc # "idle" /\ Moves(S) BY <1>3, <2>3, <2>4
  <2> QED BY <2>5, OtherKeeps DEF Moves, Quiet, KeepsHeld, S
<1>4. CASE ReplyLost
  <2>1. pc \in SyncPoints /\ Moves(SyncPoints \cup {"final", "requeue"})
    BY <1>4, Ends DEF ReplyLost, Moves, Quiet, At, SyncPoints
  <2> QED BY <2>1, SyncKeeps DEF Moves, Quiet, KeepsHeld
<1>5. CASE \E c \in CR : Pick(c) BY <1>5, PickKeeps
<1>6. CASE NewIAMClient BY <1>6, NewIAMClientKeeps
<1>7. CASE AddFinalizer BY <1>7, AddFinalizerKeeps
<1>8. CASE UpdateCRDStatus BY <1>8, StatusKeeps
<1>9. CASE Unfinalize BY <1>9, UnfinalizeKeeps
<1>10. CASE Crash BY <1>10, CrashKeeps
<1>11. CASE Environment
  <2>1. KeepsHeld
    <3>1. CASE \E c \in CR : UserRequest(c)
      BY <3>1, UserStep DEF TypeInv, FinalizerInv, KeepsHeld
    <3>2. CASE ~\E c \in CR : UserRequest(c)
      BY <1>11, <3>2 DEF Environment, WatchEvent, ControlPlaneChanges, kubeVars, KeepsHeld
    <3> QED BY <3>1, <3>2
  <2> QED BY <1>11, <2>1, EnvironmentKeeps
<1>12. CASE UNCHANGED vars
  <2>1. /\ UNCHANGED <<cr, cache, feed, pc, cur, air, fresh, w, call, roles>>
        /\ At' = At
    BY <1>12 DEF vars, kubeVars, workerVars, iamVars, At
  <2>2. ServerInv' BY <2>1, SameSeen DEF FinalizerInv, ServerInv
  <2>3. AtHand' /\ Branch' /\ DestroyGuard' /\ RolesGone'
    BY <2>1
    DEF FinalizerInv, AtHand, Branch, DestroyGuard, RolesGone, GoneAt, Ours, Seen,
        Alive, Held, Dying
  <2> QED BY <2>1, <2>2, <2>3 DEF FinalizerInv, KeepsHeld
<1> QED
  BY <1>1, <1>2, <1>3, <1>4, <1>5, <1>6, <1>7, <1>8, <1>9, <1>10, <1>11, <1>12
  DEF Next, Worker, Begin, Destroy, Faults

(* What the server, the events on their way and the worker say about an    *)
(* object's finalizer and deletion is consistent at every step of          *)
(* Reconcile.                                                              *)
THEOREM FinalizerInvariance == Spec => []FinalizerInv
<1>1. TypeInv /\ FinalizerInv /\ [Next]_vars => FinalizerInv' BY NextFinalizer
<1> QED BY <1>1, InitFinalizer, ScopeCorrect, PTL DEF Spec

(* However stale its cache, whatever users do, whichever calls fail: the   *)
(* operator calls IAM for an object only while the server holds it with    *)
(* the finalizer, and deleteIAMResources runs only for one being deleted.  *)
THEOREM FinalizerGuardHolds == Spec => []FinalizerGuard
<1>1. FinalizerInv => FinalizerGuard
  <2> SUFFICES ASSUME FinalizerInv, pc \in SyncPoints \cup DestroyPoints
               PROVE  Held(cr[cur]) /\ (pc \in DestroyPoints => Dying(cr[cur]))
    BY DEF FinalizerGuard, Held, Dying
  <2>1. pc # "idle" /\ At = pc BY DEF SyncPoints, DestroyPoints, At
  <2>2. CASE pc \in SyncPoints
    <3>1. Alive(air) /\ Held(air) BY <2>1, <2>2 DEF FinalizerInv, Branch
    <3>2. Held(cr[cur]) BY <2>1, <3>1 DEF FinalizerInv, AtHand
    <3> QED BY <2>2, <3>2 DEF SyncPoints, DestroyPoints
  <2>3. CASE pc \in DestroyPoints BY <2>3 DEF FinalizerInv, DestroyGuard
  <2> QED BY <2>2, <2>3
<1> QED BY <1>1, FinalizerInvariance, PTL

(* The finalizer goes away only when none of the operator's roles the      *)
(* specification names is left, for any number of objects that share       *)
(* roles, in an account where others delete and create.                    *)
THEOREM FinalizerReleasedHolds == Spec => FinalizerReleased
<1> DEFINE A == \A c \in CR :
                  /\ cr[c] # None
                  /\ cr[c].finalizer
                  /\ cr'[c] = None \/ ~cr'[c].finalizer
                  => \A r \in RolesNamed(cr[c].spec) : ~Ours(r)
<1>1. TypeInv /\ FinalizerInv /\ [Next]_vars => [A]_vars
  BY NextFinalizer DEF KeepsHeld, Held
<1>2. FinalizerReleased <=> [][A]_vars BY DEF FinalizerReleased
<1> HIDE DEF A
<1> QED BY <1>1, <1>2, FinalizerInvariance, ScopeCorrect, PTL DEF Spec

----------------------------------------------------------------------------
(***************************************************************************)
(* What users asked for.  The worker writes whole objects, but only a      *)
(* fresh one, which is the server's; and it makes an object go away only   *)
(* at the end of deleteIAMResources, for one being deleted.                *)
(***************************************************************************)

(* The objects go on to say what users asked for, or go once deleted.      *)
Asks == \A c \in CR :
          \/ cr[c] = None /\ cr'[c] = None
          \/ Deleting(c) /\ cr'[c] = None
          \/ /\ cr[c] # None
             /\ cr'[c] # None
             /\ cr'[c].spec = cr[c].spec
             /\ cr'[c].deleting = cr[c].deleting

(* A step that leaves the server alone.                                    *)
LEMMA SameAsks == cr' = cr => Asks
  BY DEF Asks

(* A write of what is at hand, where only the status or the finalizer is   *)
(* new, is a write of what the server holds.                               *)
LEMMA UpdateAsks ==
    ASSUME TypeInv, FinalizerInv, pc # "idle", air \in Object, NEW o \in Object,
           o.spec = air.spec, o.deleting = air.deleting, air.finalizer => o.finalizer,
           NEW l, Update(o, l)
    PROVE  Asks
<1>1. CASE Return(TRUE) BY <1>1, Ends, SameAsks
<1>2. CASE fresh /\ Write(cur, Stored(o))
  <2>1. KubeTypeOK /\ cur \in CR /\ DyingIsHeld(cur) /\ air = cr[cur]
    BY <1>2 DEF TypeInv, Scoped, FinalizerInv, ServerInv, AtHand
  <2>2. air # None /\ o # None BY NoneAssumption
  <2>3. Stored(o) = o BY <2>1, <2>2 DEF Stored, DyingIsHeld, Dying, Held
  <2>4. Write(cur, o) BY <1>2, <2>3
  <2>5. cr'[cur] = o /\ \A d \in CR \ {cur} : cr'[d] = cr[d]
    BY <2>1, <2>4 DEF KubeTypeOK, Write
  <2> QED BY <2>1, <2>2, <2>5 DEF Asks
<1> QED BY <1>1, <1>2 DEF Update

(* The worker's three writes.                                              *)
LEMMA WritesAsk ==
    ASSUME TypeInv, FinalizerInv, AddFinalizer \/ UpdateCRDStatus \/ Unfinalize
    PROVE  Asks
<1>1. CASE AddFinalizer
  <2> DEFINE o == [air EXCEPT !.finalizer = TRUE]
  <2>1. pc = "addFinalizer" /\ air \in Object /\ Update(o, "list")
    BY <1>1 DEF AddFinalizer, TypeInv, Scoped, ScopeAt
  <2>2. o \in Object /\ o.spec = air.spec /\ o.deleting = air.deleting /\ o.finalizer
    BY <2>1 DEF Object
  <2> HIDE DEF o
  <2> QED BY <2>1, <2>2, UpdateAsks
<1>2. CASE UpdateCRDStatus
  <2> DEFINE o == StatusFor(air, call.phase, call.result)
  <2>1. pc = "status" /\ air \in Object /\ call \in Call
    BY <1>2 DEF UpdateCRDStatus, TypeInv, Scoped, WorkerTypeOK
  <2>2. CASE Return(TRUE) BY <2>2, Ends, SameAsks
  <2>3. CASE Update(o, call.return)
    <3>1. call.phase \in Phase /\ call.result \in Result BY <2>1 DEF Call
    <3>2. o \in Object /\ o.spec = air.spec BY <2>1, <3>1, StatusForType
    <3>3. o.deleting = air.deleting /\ o.finalizer = air.finalizer
      BY <2>1 DEF StatusFor, Object
    <3> HIDE DEF o
    <3> QED BY <2>1, <2>3, <3>2, <3>3, UpdateAsks
  <2> QED BY <1>2, <2>2, <2>3 DEF UpdateCRDStatus
<1>3. CASE Unfinalize
  <2>1. /\ pc = "unfinalize" /\ air \in Object /\ cur \in CR /\ KubeTypeOK
        /\ Dying(air)
    BY <1>3 DEF Unfinalize, TypeInv, Scoped, ScopeAt, FinalizerInv, Branch, At
  <2>2. CASE Return(TRUE) BY <2>2, Ends, SameAsks
  <2>3. CASE fresh /\ Write(cur, Stored([air EXCEPT !.finalizer = FALSE]))
    <3>1. air = cr[cur] BY <2>1, <2>3 DEF FinalizerInv, AtHand
    <3>2. Stored([air EXCEPT !.finalizer = FALSE]) = None
      BY <2>1 DEF Stored, Object, Dying
    <3>3. cr'[cur] = None /\ \A d \in CR \ {cur} : cr'[d] = cr[d]
      BY <2>1, <2>3, <3>2 DEF KubeTypeOK, Write
    <3> QED BY <2>1, <3>1, <3>3 DEF Asks, Dying, Deleting
  <2> QED BY <1>3, <2>2, <2>3 DEF Unfinalize
<1> QED BY <1>1, <1>2, <1>3

(* Everything else but the requests of users leaves the server alone.      *)
LEMMA NextAsks ==
    ASSUME TypeInv, FinalizerInv, Next, edits' = edits PROVE Asks
<1>1. CASE Prune \/ Provide BY <1>1, SyncMoves, SameAsks DEF Moves, Quiet
<1>2. CASE DestroyRoles \/ DestroyDetach \/ DestroyPolicies \/ DestroyRole
  BY <1>2, Ends, SameAsks DEF DestroyRoles, DestroyDetach, DestroyPolicies, DestroyRole
<1>3. CASE GetClusterResources \/ NewIAMClient \/ End \/ Faults
  <2>1. GetClusterResources \/ NewIAMClient \/ End => cr' = cr
    BY Ends DEF GetClusterResources, NewIAMClient, End, Final, Finish, Requeue
  <2>2. Faults => cr' = cr
    BY Ends DEF Faults, CallFails, ReplyLost, Crash, Relist
  <2> QED BY <1>3, <2>1, <2>2, SameAsks
<1>4. CASE \E c \in CR : Pick(c) BY <1>4, SameAsks DEF Pick
<1>5. CASE AddFinalizer \/ UpdateCRDStatus \/ Unfinalize BY <1>5, WritesAsk
<1>6. CASE Environment
  <2>1. edits \in Nat BY DEF TypeInv, KubeTypeOK
  <2>2. ~\E c \in CR : UserRequest(c)
    <3>1. ~Spend BY <2>1 DEF Spend
    <3> QED BY <3>1 DEF UserRequest, CreateCR, EditCR, DeleteCR
  <2>3. cr' = cr
    BY <1>6, <2>2 DEF Environment, WatchEvent, ControlPlaneChanges, kubeVars
  <2> QED BY <2>3, SameAsks
<1> QED BY <1>1, <1>2, <1>3, <1>4, <1>5, <1>6 DEF Next, Worker, Begin, Destroy

(* Only users change what users asked for, however old the version is that *)
(* the worker has at hand, for any number of objects.                      *)
THEOREM NoLostEditHolds == Spec => NoLostEdit
<1> DEFINE A == edits' = edits =>
         \A c \in CR :
            \/ cr[c] = None /\ cr'[c] = None
            \/ Deleting(c) /\ cr'[c] = None
            \/ /\ cr[c] # None
               /\ cr'[c] # None
               /\ cr'[c].spec = cr[c].spec
               /\ cr'[c].deleting = cr[c].deleting
<1>1. TypeInv /\ FinalizerInv /\ [Next]_vars => [A]_cr
  BY NextAsks DEF Asks, vars, kubeVars
<1>2. NoLostEdit <=> [][A]_cr BY DEF NoLostEdit
<1> HIDE DEF A
<1> QED BY <1>1, <1>2, FinalizerInvariance, ScopeCorrect, PTL DEF Spec

----------------------------------------------------------------------------
(***************************************************************************)
(* The queue.  The key of an object leaves it when the worker takes it,    *)
(* and at the end of a pass it may not come back (frequency 0).  That is   *)
(* right only if the version at hand, however old, says the same as the    *)
(* server's or an event on its way will bring the key back.                *)
(***************************************************************************)

(* From the n-th version on some version follows that queues the key.      *)
Pending(c, n) ==
    \E j \in DOMAIN feed[c] : n <= j /\ Passes(Versions(c)[j], Versions(c)[j + 1])

(* The later version v asks for nothing that u does not ask for.           *)
Agree(u, v) == /\ u = None <=> v = None
               /\ u # None => /\ u.spec = v.spec
                              /\ u.deleting = v.deleting
                              /\ u.phase # "" => v.phase # ""

(* Each version that can be read agrees with the server's or will be       *)
(* followed by an event that queues the key.                               *)
Chain == \A c \in CR : \A n \in 1 .. Len(feed[c]) + 1 :
            Pending(c, n) \/ Agree(Versions(c)[n], cr[c])

(* So does the version at hand.                                            *)
Followed == pc # "idle" => cur \in queue \/ Pending(cur, 1) \/ Agree(air, cr[cur])

(* What a pass that ends well has found and written; between passes the    *)
(* worker has no key.                                                      *)
Ending == /\ At \in {"final", "return"} => Alive(air)
          /\ pc = "return" => air.phase # ""
          /\ pc = "status" => call.phase # ""
          /\ pc = "idle" => cur = None

(* The objects NeverForgotten is about.                                    *)
Needs(o) == o # None /\ (o.spec.frequency > 0 \/ o.deleting \/ o.phase = "")

NotLost(c) == Needs(cr[c]) => c \in queue \/ c = cur \/ Pending(c, 1)

QueueInv == Chain /\ Followed /\ Ending /\ \A c \in CR : NotLost(c)

----------------------------------------------------------------------------
(* The versions on their way *)

(* A sequence with an element put before it.                               *)
LEMMA Prepended ==
    ASSUME NEW S, NEW h \in S, NEW s \in Seq(S)
    PROVE  /\ Len(s) \in Nat
           /\ DOMAIN s = 1 .. Len(s)
           /\ (<<h>> \o s)[1] = h
           /\ \A i \in 1 .. Len(s) : (<<h>> \o s)[i + 1] = s[i]
<1>1. Len(s) \in Nat /\ DOMAIN s = 1 .. Len(s) OBVIOUS
<1>2. <<h>> \in Seq(S) /\ Len(<<h>>) = 1 /\ <<h>>[1] = h OBVIOUS
<1>3. \A i \in 1 .. Len(s) + 1 :
        (<<h>> \o s)[i] = IF i <= 1 THEN <<h>>[i] ELSE s[i - 1]
  BY <1>1, <1>2
<1> QED BY <1>1, <1>2, <1>3

(* A write puts a version behind the others.                               *)
LEMMA WriteVersions ==
    ASSUME KubeTypeOK, NEW c \in CR, NEW o \in Object \cup {None}, Write(c, o),
           UNCHANGED cache
    PROVE  /\ Len(feed[c]) \in Nat
           /\ DOMAIN feed[c] = 1 .. Len(feed[c])
           /\ DOMAIN feed'[c] = 1 .. Len(feed[c]) + 1
           /\ Len(feed'[c]) = Len(feed[c]) + 1
           /\ \A n \in 1 .. Len(feed[c]) + 1 : Versions(c)'[n] = Versions(c)[n]
           /\ Versions(c)'[Len(feed[c]) + 2] = o
           /\ cr'[c] = o
           /\ \A d \in CR \ {c} : UNCHANGED <<cr[d], cache[d], feed[d], Versions(d)>>
<1> DEFINE S == Object \cup {None}
           s == feed[c]
           t == Append(s, o)
<1>1. s \in Seq(S) /\ cache[c] \in S BY DEF KubeTypeOK
<1>2. cr'[c] = o /\ feed'[c] = t /\ cache'[c] = cache[c] BY DEF KubeTypeOK, Write
<1>3. \A d \in CR \ {c} : UNCHANGED <<cr[d], cache[d], feed[d], Versions(d)>>
  BY DEF KubeTypeOK, Write, Versions
<1>4. /\ t \in Seq(S)
      /\ Len(t) = Len(s) + 1
      /\ \A i \in 1 .. Len(s) : t[i] = s[i]
      /\ t[Len(s) + 1] = o
  BY <1>1
<1>5. Versions(c) = <<cache[c]>> \o s /\ Versions(c)' = <<cache[c]>> \o t
  BY <1>2 DEF Versions
<1>6. /\ Len(s) \in Nat
      /\ DOMAIN s = 1 .. Len(s)
      /\ (<<cache[c]>> \o s)[1] = cache[c]
      /\ \A i \in 1 .. Len(s) : (<<cache[c]>> \o s)[i + 1] = s[i]
  BY <1>1, Prepended
<1>7. /\ DOMAIN t = 1 .. Len(t)
      /\ (<<cache[c]>> \o t)[1] = cache[c]
      /\ \A i \in 1 .. Len(t) : (<<cache[c]>> \o t)[i + 1] = t[i]
  <2> HIDE DEF t
  <2> QED BY <1>1, <1>4, Prepended
<1> HIDE DEF s, t
<1>8. ASSUME NEW n \in 1 .. Len(s) + 1 PROVE Versions(c)'[n] = Versions(c)[n]
  <2>1. CASE n = 1 BY <1>5, <1>6, <1>7, <2>1
  <2>2. CASE n # 1
    <3>1. n - 1 \in 1 .. Len(s) /\ n - 1 \in 1 .. Len(t) /\ (n - 1) + 1 = n
      BY <1>4, <1>6, <2>2
    <3> QED BY <1>4, <1>5, <1>6, <1>7, <3>1
  <2> QED BY <2>1, <2>2
<1>9. Versions(c)'[Len(s) + 2] = o
  <2>1. Len(s) + 1 \in 1 .. Len(t) /\ (Len(s) + 1) + 1 = Len(s) + 2 BY <1>4, <1>6
  <2> QED BY <1>4, <1>5, <1>7, <2>1
<1> QED BY <1>2, <1>3, <1>4, <1>6, <1>7, <1>8, <1>9 DEF s

(* The n-th version, and the last one, which is the server's.              *)
LEMMA LastVersion ==
    ASSUME KubeTypeOK, NEW c \in CR, FeedReachesServer(c)
    PROVE  cr[c] = Versions(c)[Len(feed[c]) + 1]
<1>1. feed[c] \in Seq(Object \cup {None}) /\ cache[c] \in Object \cup {None}
  BY DEF KubeTypeOK
<1>2. /\ Len(feed[c]) \in Nat
      /\ Versions(c)[1] = cache[c]
      /\ \A i \in 1 .. Len(feed[c]) : Versions(c)[i + 1] = feed[c][i]
  BY <1>1, Prepended DEF Versions
<1>3. CASE feed[c] = <<>> BY <1>2, <1>3 DEF FeedReachesServer
<1>4. CASE feed[c] # <<>>
  <2>1. Len(feed[c]) \in 1 .. Len(feed[c]) BY <1>1, <1>4
  <2> QED BY <1>2, <1>4, <2>1 DEF FeedReachesServer
<1> QED BY <1>3, <1>4

(* Nothing on its way has changed.                                         *)
LEMMA SamePending ==
    ASSUME NEW c, UNCHANGED <<cache[c], feed[c]>>
    PROVE  \A n : Pending(c, n)' <=> Pending(c, n)
<1>1. Versions(c)' = Versions(c) BY DEF Versions
<1> QED BY <1>1 DEF Pending

(* A write that queues the key once it is seen, or changes nothing that    *)
(* matters, keeps the chain.                                               *)
LEMMA WriteChain ==
    ASSUME KubeTypeOK, Chain, NEW c \in CR, FeedReachesServer(c),
           NEW o \in Object \cup {None}, Write(c, o), UNCHANGED cache,
           Passes(cr[c], o) \/ Agree(cr[c], o)
    PROVE  /\ Chain'
           /\ Passes(cr[c], o) => Pending(c, 1)'
           /\ Pending(c, 1) => Pending(c, 1)'
           /\ \A d \in CR \ {c} : Pending(d, 1)' <=> Pending(d, 1)
<1> DEFINE L == Len(feed[c])
<1>1. /\ L \in Nat
      /\ DOMAIN feed[c] = 1 .. L
      /\ DOMAIN feed'[c] = 1 .. L + 1
      /\ Len(feed'[c]) = L + 1
      /\ \A n \in 1 .. L + 1 : Versions(c)'[n] = Versions(c)[n]
      /\ Versions(c)'[L + 2] = o
      /\ cr'[c] = o
      /\ \A d \in CR \ {c} : UNCHANGED <<cr[d], cache[d], feed[d], Versions(d)>>
  BY WriteVersions
<1>2. cr[c] = Versions(c)[L + 1] BY LastVersion
<1> HIDE DEF L
<1>3. ASSUME NEW n \in Nat, Pending(c, n) PROVE Pending(c, n)'
  <2>1. PICK j \in 1 .. L : n <= j /\ Passes(Versions(c)[j], Versions(c)[j + 1])
    BY <1>1, <1>3 DEF Pending
  <2>2. j \in 1 .. L + 1 /\ j + 1 \in 1 .. L + 1 BY <1>1
  <2>3. Passes(Versions(c)'[j], Versions(c)'[j + 1]) BY <1>1, <2>1, <2>2
  <2> QED BY <1>1, <2>1, <2>2, <2>3 DEF Pending, Passes
<1>4. ASSUME Passes(cr[c], o), NEW n \in 1 .. L + 1 PROVE Pending(c, n)'
  <2>1. L + 1 \in 1 .. L + 1 /\ (L + 1) + 1 = L + 2 /\ n <= L + 1 BY <1>1
  <2>2. Passes(Versions(c)'[L + 1], Versions(c)'[(L + 1) + 1]) BY <1>1, <1>2, <1>4, <2>1
  <2> QED BY <1>1, <2>1, <2>2 DEF Pending, Passes
<1>5. ASSUME NEW n \in 1 .. L + 2
      PROVE  Pending(c, n)' \/ Agree(Versions(c)'[n], o)
  <2>1. CASE n = L + 2
    <3>1. Versions(c)'[n] = o BY <1>1, <2>1
    <3> QED BY <3>1 DEF Agree
  <2>2. CASE n \in 1 .. L + 1
    <3>1. Pending(c, n) \/ Agree(Versions(c)[n], cr[c]) BY <2>2 DEF Chain, L
    <3>2. CASE Pending(c, n) BY <1>3, <2>2, <3>2
    <3>3. CASE Passes(cr[c], o) BY <1>4, <2>2, <3>3
    <3>4. CASE Agree(Versions(c)[n], cr[c]) /\ Agree(cr[c], o)
      <4>1. Agree(Versions(c)[n], o) BY <3>4 DEF Agree
      <4> QED BY <1>1, <2>2, <4>1
    <3> QED BY <3>1, <3>2, <3>3, <3>4
  <2> QED BY <1>1, <2>1, <2>2
<1>6. \A d \in CR \ {c} : \A n : Pending(d, n)' <=> Pending(d, n)
  BY <1>1, SamePending
<1>7. Chain'
  <2> SUFFICES ASSUME NEW d \in CR, NEW n \in 1 .. Len(feed'[d]) + 1
               PROVE  Pending(d, n)' \/ Agree(Versions(d)'[n], cr'[d])
    BY DEF Chain, Agree
  <2>1. CASE d = c
    <3>1. n \in 1 .. L + 2 BY <1>1, <2>1
    <3> QED BY <1>1, <1>5, <2>1, <3>1
  <2>2. CASE d # c
    <3>1. Pending(d, n) \/ Agree(Versions(d)[n], cr[d]) BY <1>1, <2>2 DEF Chain
    <3> QED BY <1>1, <1>6, <2>2, <3>1
  <2> QED BY <2>1, <2>2
<1>8. 1 \in 1 .. L + 1 /\ 1 \in Nat BY <1>1
<1> QED BY <1>3, <1>4, <1>6, <1>7, <1>8

(* Taking in an event either queues the key or leaves what is behind it.   *)
LEMMA WatchChain ==
    ASSUME KubeTypeOK, Chain, NEW c \in CR, WatchEvent(c)
    PROVE  /\ Chain'
           /\ Pending(c, 1) => c \in queue' \/ Pending(c, 1)'
           /\ \A d \in CR \ {c} : Pending(d, 1)' <=> Pending(d, 1)
<1> DEFINE S == Object \cup {None}
           s == feed[c]
           L == Len(s)
<1>1. s \in Seq(S) /\ s # <<>> /\ cache[c] \in S BY DEF KubeTypeOK, WatchEvent
<1>2. /\ cr' = cr /\ cache'[c] = Head(s) /\ feed'[c] = Tail(s)
      /\ Passes(cache[c], Head(s)) => c \in queue'
      /\ \A d \in CR \ {c} : UNCHANGED <<cache[d], feed[d]>>
  BY DEF KubeTypeOK, WatchEvent
<1>3. /\ L \in Nat /\ L > 0
      /\ Head(s) = s[1] /\ Head(s) \in S
      /\ Tail(s) \in Seq(S)
      /\ Len(Tail(s)) = L - 1
      /\ \A i \in 1 .. L - 1 : Tail(s)[i] = s[i + 1]
  BY <1>1
<1>4. /\ DOMAIN s = 1 .. L
      /\ (<<cache[c]>> \o s)[1] = cache[c]
      /\ \A i \in 1 .. L : (<<cache[c]>> \o s)[i + 1] = s[i]
  BY <1>1, Prepended
<1>5. /\ DOMAIN Tail(s) = 1 .. L - 1
      /\ (<<Head(s)>> \o Tail(s))[1] = Head(s)
      /\ \A i \in 1 .. L - 1 : (<<Head(s)>> \o Tail(s))[i + 1] = Tail(s)[i]
  BY <1>3, Prepended
<1>6. Versions(c) = <<cache[c]>> \o s /\ Versions(c)' = <<Head(s)>> \o Tail(s)
  BY <1>2 DEF Versions
<1> HIDE DEF s, L
<1>7. ASSUME NEW n \in 1 .. L PROVE Versions(c)'[n] = Versions(c)[n + 1]
  <2>1. Versions(c)[n + 1] = s[n] BY <1>4, <1>6
  <2>2. CASE n = 1 BY <1>3, <1>5, <1>6, <2>1, <2>2
  <2>3. CASE n # 1
    <3>1. n - 1 \in 1 .. L - 1 /\ (n - 1) + 1 = n BY <1>3, <2>3
    <3> QED BY <1>3, <1>5, <1>6, <2>1, <3>1
  <2> QED BY <2>2, <2>3
<1>8. ASSUME NEW j \in 1 .. L, j > 1, Passes(Versions(c)[j], Versions(c)[j + 1])
      PROVE  /\ j - 1 \in DOMAIN feed'[c]
             /\ Passes(Versions(c)'[j - 1], Versions(c)'[(j - 1) + 1])
  <2>1. j - 1 \in 1 .. L - 1 /\ j - 1 \in 1 .. L /\ (j - 1) + 1 = j BY <1>3, <1>8
  <2>2. Versions(c)'[j - 1] = Versions(c)[j] /\ Versions(c)'[j] = Versions(c)[j + 1]
    BY <1>7, <2>1
  <2> QED BY <1>2, <1>5, <1>8, <2>1, <2>2
<1>9. ASSUME NEW n \in 1 .. L, Pending(c, n + 1) PROVE Pending(c, n)'
  <2>1. PICK j \in 1 .. L : n + 1 <= j /\ Passes(Versions(c)[j], Versions(c)[j + 1])
    BY <1>4, <1>9 DEF Pending, s
  <2>2. j > 1 /\ n <= j - 1 BY <1>3, <2>1
  <2> QED BY <1>8, <2>1, <2>2 DEF Pending, Passes
<1>10. Pending(c, 1) => c \in queue' \/ Pending(c, 1)'
  <2> SUFFICES ASSUME Pending(c, 1) PROVE c \in queue' \/ Pending(c, 1)' OBVIOUS
  <2>1. PICK j \in 1 .. L : Passes(Versions(c)[j], Versions(c)[j + 1])
    BY <1>4 DEF Pending, s
  <2>2. CASE j = 1
    <3>1. 1 \in 1 .. L BY <1>3
    <3>2. Versions(c)[j] = cache[c] /\ Versions(c)[j + 1] = Head(s)
      BY <1>3, <1>4, <1>6, <2>2, <3>1
    <3> QED BY <1>2, <2>1, <3>2
  <2>3. CASE j # 1
    <3>1. j > 1 /\ 1 <= j - 1 BY <1>3, <2>3
    <3> QED BY <1>8, <2>1, <3>1 DEF Pending, Passes
  <2> QED BY <2>2, <2>3
<1>11. \A d \in CR \ {c} : /\ Versions(d)' = Versions(d)
                           /\ \A n : Pending(d, n)' <=> Pending(d, n)
  BY <1>2, SamePending DEF Versions
<1>12. Chain'
  <2> SUFFICES ASSUME NEW d \in CR, NEW n \in 1 .. Len(feed'[d]) + 1
               PROVE  Pending(d, n)' \/ Agree(Versions(d)'[n], cr'[d])
    BY DEF Chain, Agree
  <2>1. CASE d = c
    <3>1. n \in 1 .. L /\ n + 1 \in 1 .. L + 1 BY <1>2, <1>3, <2>1
    <3>2. Pending(c, n + 1) \/ Agree(Versions(c)[n + 1], cr[c]) BY <3>1 DEF Chain, L, s
    <3>3. CASE Pending(c, n + 1) BY <1>9, <2>1, <3>1, <3>3
    <3>4. CASE Agree(Versions(c)[n + 1], cr[c]) BY <1>2, <1>7, <2>1, <3>1, <3>4
    <3> QED BY <3>2, <3>3, <3>4
  <2>2. CASE d # c
    <3>1. Pending(d, n) \/ Agree(Versions(d)[n], cr[d]) BY <1>2, <2>2 DEF Chain
    <3> QED BY <1>2, <1>11, <2>2, <3>1
  <2> QED BY <2>1, <2>2
<1> QED BY <1>10, <1>11, <1>12

----------------------------------------------------------------------------
(* The worker *)

(* A step that goes on in a pass and writes nothing to the server.         *)
Stays == /\ UNCHANGED <<cr, cache, feed, queue, cur, air>>
         /\ pc' # "idle"
         /\ At' \notin {"final", "return"}
         /\ pc' = "status" => call'.phase # ""

(* The end of a pass whose key comes back.                                 *)
BackIn == /\ UNCHANGED <<cr, cache, feed>>
          /\ queue' = queue \cup {cur}
          /\ pc' = "idle"
          /\ cur' = None

(* The chain depends on nothing else.                                      *)
LEMMA SameChain == ASSUME Chain, UNCHANGED <<cr, cache, feed>> PROVE Chain'
<1>1. \A c \in CR : Versions(c)' = Versions(c) /\ feed'[c] = feed[c] BY DEF Versions
<1>2. \A c, n : Pending(c, n)' <=> Pending(c, n) BY SamePending
<1> SUFFICES ASSUME NEW c \in CR, NEW n \in 1 .. Len(feed'[c]) + 1
             PROVE  Pending(c, n)' \/ Agree(Versions(c)'[n], cr'[c])
  BY DEF Chain, Agree
<1>3. Pending(c, n) \/ Agree(Versions(c)[n], cr[c]) BY <1>1 DEF Chain
<1> QED BY <1>1, <1>2, <1>3

(* Both keep the invariant.                                                *)
LEMMA StaysKeeps == ASSUME QueueInv, pc # "idle", Stays PROVE QueueInv'
<1>1. Chain' /\ \A c \in CR : Pending(c, 1)' <=> Pending(c, 1)
  BY SameChain, SamePending DEF QueueInv, Stays
<1>2. Pending(cur, 1)' <=> Pending(cur, 1) BY SamePending DEF Stays
<1>3. Followed' BY <1>2 DEF QueueInv, Followed, Stays, Agree
<1>4. Ending' BY DEF Ending, Stays, At
<1>5. \A c \in CR : NotLost(c)' BY <1>1 DEF QueueInv, NotLost, Needs, Stays
<1> QED BY <1>1, <1>3, <1>4, <1>5 DEF QueueInv

LEMMA BackInKeeps == ASSUME QueueInv, BackIn PROVE QueueInv'
<1>1. Chain' /\ \A c \in CR : Pending(c, 1)' <=> Pending(c, 1)
  BY SameChain, SamePending DEF QueueInv, BackIn
<1>2. Followed' /\ Ending' BY DEF Followed, Ending, BackIn, At
<1>3. \A c \in CR : NotLost(c)' BY <1>1 DEF QueueInv, NotLost, Needs, BackIn
<1> QED BY <1>1, <1>2, <1>3 DEF QueueInv

(* Either of the two.                                                      *)
StaysOrBack == Stays \/ BackIn

(* How the pieces end.                                                     *)
LEMMA EndsQueue ==
    /\ \A l, x : Goto(l, x) /\ l # "final" /\ l # "return" /\ l # "status" /\ l # "idle" => StaysOrBack
    /\ \A h, res, l, x : Report(h, res, l, x) /\ h # "" /\ l # "final" /\ l # "return" => StaysOrBack
    /\ Return(TRUE) => StaysOrBack
    /\ ReturnError => StaysOrBack
    /\ DestroyFails => StaysOrBack
<1>1. ASSUME NEW l, NEW x, Goto(l, x), l # "final", l # "return", l # "status", l # "idle"
      PROVE  StaysOrBack
  BY <1>1 DEF Goto, StaysOrBack, Stays, At, kubeVars
<1>2. ASSUME NEW h, NEW res, NEW l, NEW x, Report(h, res, l, x), h # "", l # "final", l # "return"
      PROVE  StaysOrBack
  <2>1. call'.phase = h /\ call'.return = l BY <1>2 DEF Report
  <2> QED BY <1>2, <2>1 DEF Report, StaysOrBack, Stays, At, kubeVars
<1>3. Return(TRUE) => StaysOrBack BY DEF Return, Leave, StaysOrBack, BackIn
<1>4. ReturnError => StaysOrBack BY <1>3 DEF ReturnError
<1>5. DestroyFails => StaysOrBack BY <1>2 DEF DestroyFails
<1> QED BY <1>1, <1>2, <1>3, <1>4, <1>5

(* A synchronisation goes on, fails and comes back, or reaches its end.    *)
LEMMA SyncStays == Prune \/ Provide => StaysOrBack \/ SyncRolesDone
<1> USE EndsQueue
<1>1. List \/ StaleRefs \/ StaleDetach => StaysOrBack BY DEF List, StaleRefs, StaleDetach
<1>2. DropRoles \/ DropDetach => StaysOrBack BY DEF DropRoles, DropDetach
<1>3. DropPolicies \/ DropPolicy => StaysOrBack
  BY DEF DropPolicies, DropPolicy, DropPolicyThen
<1>4. DropEntities \/ DropEntityPolicy => StaysOrBack
  BY DEF DropEntities, DropEntityPolicy, DropPolicyThen
<1>5. ASSUME NEW e \in RoleKey, SyncRole(e) PROVE StaysOrBack BY <1>5 DEF SyncRole
<1>6. CreateMissingRole \/ UpdateRoleTrust => StaysOrBack
  BY DEF CreateMissingRole, UpdateRoleTrust
<1>7. SyncPolicies => StaysOrBack BY DEF SyncPolicies
<1>8. CreateMissingPolicy \/ AttachNew \/ UpdDetach \/ UpdDelete => StaysOrBack
  BY DEF CreateMissingPolicy, AttachNew, AttachThen, UpdDetach, UpdDelete
<1>9. UpdCreate \/ UpdAttach \/ CheckAttached \/ Attach => StaysOrBack
  BY DEF UpdCreate, UpdAttach, AttachThen, CheckAttached, Attach
<1> QED BY <1>1, <1>2, <1>3, <1>4, <1>5, <1>6, <1>7, <1>8, <1>9 DEF Prune, Provide

(* So do the other steps that write nothing.                               *)
LEMMA OtherStays ==
    /\ GetClusterResources \/ NewIAMClient \/ Requeue => StaysOrBack
    /\ DestroyRoles \/ DestroyDetach \/ DestroyPolicies \/ DestroyRole => StaysOrBack
    /\ CallFails \/ ReplyLost => StaysOrBack
<1> USE EndsQueue
<1>1. GetClusterResources => StaysOrBack BY DEF GetClusterResources
<1>2. NewIAMClient \/ Requeue => StaysOrBack BY DEF NewIAMClient, Requeue
<1>3. DestroyRoles \/ DestroyDetach => StaysOrBack BY DEF DestroyRoles, DestroyDetach
<1>4. DestroyPolicies \/ DestroyRole => StaysOrBack BY DEF DestroyPolicies, DestroyRole
<1>5. CallFails \/ ReplyLost => StaysOrBack BY DEF CallFails, ReplyLost
<1> QED BY <1>1, <1>2, <1>3, <1>4, <1>5

(* Taking a key: what is read agrees with the server, or more will come.   *)
LEMMA PickQueue == ASSUME TypeInv, QueueInv, NEW c \in CR, Pick(c) PROVE QueueInv'
<1>1. /\ pc = "idle" /\ pc' = "getClusterResources" /\ cur' = c /\ air' = cache[c]
      /\ queue' = queue \ {c}
      /\ UNCHANGED <<cr, cache, feed>>
  BY DEF Pick
<1>2. Chain' BY <1>1, SameChain DEF QueueInv
<1>3. \A d : Pending(d, 1)' <=> Pending(d, 1) BY <1>1, SamePending
<1>4. Followed'
  <2>1. feed[c] \in Seq(Object \cup {None}) /\ cache[c] \in Object \cup {None}
    BY DEF TypeInv, KubeTypeOK
  <2>2. Versions(c)[1] = cache[c] /\ 1 \in 1 .. Len(feed[c]) + 1
    BY <2>1, Prepended DEF Versions
  <2>3. Pending(c, 1) \/ Agree(cache[c], cr[c]) BY <2>2 DEF QueueInv, Chain
  <2> QED BY <1>1, <1>3, <2>3 DEF Followed, Agree
<1>5. Ending' BY <1>1 DEF Ending, At
<1>7. \A d \in CR : NotLost(d)'
  <2>1. cur \notin CR BY <1>1, NoneAssumption DEF QueueInv, Ending
  <2> QED BY <1>1, <1>3, <2>1 DEF QueueInv, NotLost, Needs
<1> QED BY <1>2, <1>4, <1>5, <1>7 DEF QueueInv

(* The worker's writes change neither the specification nor the deletion,  *)
(* and are not followed by an event; the version at hand is what they      *)
(* wrote.                                                                  *)
LEMMA UpdateQueue ==
    ASSUME TypeInv, FinalizerInv, QueueInv, pc # "idle", air \in Object, NEW o \in Object,
           o.spec = air.spec, o.deleting = air.deleting, air.finalizer => o.finalizer,
           air.phase # "" => o.phase # "",
           NEW l, l \notin {"idle", "status"},
           l \in {"final", "return"} => ~air.deleting,
           l = "return" => o.phase # "",
           Update(o, l)
    PROVE  QueueInv'
<1>1. CASE Return(TRUE) BY <1>1, BackInKeeps DEF Return, Leave, BackIn
<1>2. CASE /\ fresh
           /\ Write(cur, Stored(o))
           /\ air' = o
           /\ pc' = l
           /\ call' = NoCall
           /\ UNCHANGED <<cur, fresh, w, cache, queue, cp, edits>>
  <2>1. KubeTypeOK /\ cur \in CR /\ FeedReachesServer(cur) /\ DyingIsHeld(cur) /\ air = cr[cur]
    BY <1>2 DEF TypeInv, Scoped, FinalizerInv, ServerInv, AtHand
  <2>2. air # None /\ o # None BY NoneAssumption
  <2>3. Stored(o) = o
    BY <2>1, <2>2 DEF Stored, DyingIsHeld, Dying, Held
  <2>4. Write(cur, o) /\ o \in Object \cup {None} BY <1>2, <2>3
  <2>5. Agree(cr[cur], o) BY <2>1, <2>2 DEF Agree
  <2>6. /\ Chain'
        /\ Pending(cur, 1) => Pending(cur, 1)'
        /\ \A d \in CR \ {cur} : Pending(d, 1)' <=> Pending(d, 1)
    BY <1>2, <2>1, <2>4, <2>5, WriteChain DEF QueueInv
  <2>7. cr'[cur] = o /\ \A d \in CR \ {cur} : cr'[d] = cr[d]
    BY <1>2, <2>1, <2>4, WriteVersions
  <2>8. Followed' BY <1>2, <2>7 DEF Followed, Agree
  <2>9. Ending' BY <1>2, <2>2 DEF Ending, At, Alive
  <2>10. \A d \in CR : NotLost(d)' BY <1>2, <2>6, <2>7 DEF QueueInv, NotLost, Needs
  <2> QED BY <2>6, <2>8, <2>9, <2>10 DEF QueueInv
<1> QED BY <1>1, <1>2 DEF Update

(* Every request of a user is followed by an event that queues the key.    *)
LEMMA UserQueue ==
    ASSUME TypeInv, FinalizerInv, QueueInv, NEW c \in CR, UserRequest(c),
           UNCHANGED <<pc, cur, air, call>>
    PROVE  QueueInv'
<1>1. KubeTypeOK /\ FeedReachesServer(c) BY DEF TypeInv, FinalizerInv, ServerInv
<1>2. UNCHANGED <<cache, queue>> BY DEF UserRequest, CreateCR, EditCR, DeleteCR
<1>3. PICK o \in Object \cup {None} : Write(c, o) /\ Passes(cr[c], o)
  <2>1. CASE CreateCR(c)
    <3>1. PICK s \in SpecsOf[c] : Write(c, NewObject(s)) BY <2>1 DEF CreateCR
    <3>2. s \in Spec_ BY <3>1, KubeAssumption
    <3>3. NewObject(s) \in Object BY <3>2 DEF NewObject, Object, Phase
    <3> QED BY <2>1, <3>1, <3>3 DEF CreateCR, Passes
  <2>2. CASE EditCR(c)
    <3>1. PICK s \in SpecsOf[c] \ {cr[c].spec} : Write(c, [cr[c] EXCEPT !.spec = s])
      BY <2>2 DEF EditCR
    <3> DEFINE o == [cr[c] EXCEPT !.spec = s]
    <3>2. s \in Spec_ /\ cr[c] \in Object BY <1>1, <2>2, <3>1, KubeAssumption DEF EditCR, KubeTypeOK
    <3>3. o \in Object /\ o.spec = s BY <3>2 DEF Object
    <3>4. Write(c, o) BY <3>1
    <3> HIDE DEF o
    <3> QED BY <3>1, <3>3, <3>4 DEF Passes
  <2>3. CASE DeleteCR(c)
    <3> DEFINE o == [cr[c] EXCEPT !.deleting = TRUE]
    <3>1. cr[c] \in Object /\ ~cr[c].deleting BY <1>1, <2>3 DEF DeleteCR, KubeTypeOK
    <3>2. o \in Object /\ o.deleting BY <3>1 DEF Object
    <3>3. Write(c, Stored(o)) BY <2>3 DEF DeleteCR
    <3> HIDE DEF o
    <3>4. Passes(cr[c], Stored(o)) BY <3>1, <3>2 DEF Passes, Stored
    <3>5. Stored(o) \in Object \cup {None} BY <3>2, StoredType
    <3> QED BY <3>3, <3>4, <3>5
  <2> QED BY <2>1, <2>2, <2>3 DEF UserRequest
<1>4. /\ Chain'
      /\ Pending(c, 1)'
      /\ \A d \in CR \ {c} : Pending(d, 1)' <=> Pending(d, 1)
  BY <1>1, <1>2, <1>3, WriteChain DEF QueueInv
<1>5. \A d \in CR \ {c} : cr'[d] = cr[d] BY <1>1, <1>2, <1>3, WriteVersions
<1>6. Followed'
  <2> SUFFICES ASSUME pc # "idle"
               PROVE  cur \in queue \/ Pending(cur, 1)' \/ Agree(air, cr'[cur])
    BY <1>2 DEF Followed, Agree
  <2>1. cur \in CR BY DEF TypeInv, Scoped
  <2>2. CASE cur = c BY <1>4, <2>2
  <2>3. CASE cur # c BY <1>4, <1>5, <2>1, <2>3 DEF QueueInv, Followed
  <2> QED BY <2>2, <2>3
<1>7. Ending' BY DEF QueueInv, Ending, At
<1>8. \A d \in CR : NotLost(d)' BY <1>2, <1>4, <1>5 DEF QueueInv, NotLost, Needs
<1> QED BY <1>4, <1>6, <1>7, <1>8 DEF QueueInv

(* An event that the informer takes in.                                    *)
LEMMA WatchQueue ==
    ASSUME TypeInv, QueueInv, NEW c \in CR, WatchEvent(c), UNCHANGED <<pc, cur, air, call>>
    PROVE  QueueInv'
<1>1. KubeTypeOK /\ cr' = cr /\ queue \subseteq queue' BY DEF TypeInv, WatchEvent
<1>2. /\ Chain'
      /\ Pending(c, 1) => c \in queue' \/ Pending(c, 1)'
      /\ \A d \in CR \ {c} : Pending(d, 1)' <=> Pending(d, 1)
  BY <1>1, WatchChain DEF QueueInv
<1>3. Followed'
  <2> SUFFICES ASSUME pc # "idle"
               PROVE  cur \in queue' \/ Pending(cur, 1)' \/ Agree(air, cr[cur])
    BY <1>1 DEF Followed, Agree
  <2>1. cur \in CR BY DEF TypeInv, Scoped
  <2> QED BY <1>1, <1>2, <2>1 DEF QueueInv, Followed
<1>4. Ending' BY DEF QueueInv, Ending, At
<1>5. \A d \in CR : NotLost(d)' BY <1>1, <1>2 DEF QueueInv, NotLost, Needs
<1> QED BY <1>2, <1>3, <1>4, <1>5 DEF QueueInv

(* The end of Reconcile: where the key does not come back, the version at  *)
(* hand asks for nothing more, and so neither does the server's.           *)
LEMMA EndQueue == ASSUME TypeInv, FinalizerInv, QueueInv, End \/ SyncRolesDone PROVE QueueInv'
<1>1. CASE SyncRolesDone
  <2>1. pc = "syncRoles" /\ pc' = "final" /\ UNCHANGED <<cr, cache, feed, queue, cur, air>>
    BY <1>1 DEF SyncRolesDone, Goto, kubeVars
  <2>2. Alive(air) BY <2>1 DEF FinalizerInv, Branch, At, SyncPoints
  <2>3. Ending' BY <2>1, <2>2 DEF Ending, At, Alive
  <2> QED BY <2>1, <2>3, SameChain, SamePending
          DEF QueueInv, Followed, NotLost, Needs, Agree
<1>2. CASE Final
  <2>1. /\ pc = "final" /\ UNCHANGED <<cr, cache, feed, queue, cur, air>>
        /\ \/ pc' = "status" /\ call'.phase # "" /\ call'.return = "return"
           \/ pc' = "return" /\ air.phase # ""
    <3>1. CASE Report("Provisioned", NoResult, "return", w)
      <4>1. call'.phase = "Provisioned" /\ call'.return = "return" BY <3>1 DEF Report
      <4> QED BY <1>2, <3>1, <4>1 DEF Final, Report, kubeVars
    <3>2. CASE air.phase # "" /\ Goto("return", w)
      BY <1>2, <3>2 DEF Final, Goto, kubeVars
    <3> QED BY <1>2, <3>1, <3>2 DEF Final
  <2>2. Alive(air) BY <2>1 DEF QueueInv, Ending, At
  <2>3. Ending' BY <2>1, <2>2 DEF Ending, At, Alive
  <2> QED BY <2>1, <2>3, SameChain, SamePending
          DEF QueueInv, Followed, NotLost, Needs, Agree
<1>3. CASE Finish
  <2>1. /\ pc = "return" /\ pc' = "idle" /\ cur' = None /\ UNCHANGED <<cr, cache, feed>>
        /\ queue' = IF air.spec.frequency > 0 THEN queue \cup {cur} ELSE queue
    BY <1>3 DEF Finish, Return, Leave
  <2>2. Alive(air) /\ air.phase # "" BY <2>1 DEF QueueInv, Ending, At
  <2>3. Chain' /\ \A d : Pending(d, 1)' <=> Pending(d, 1) BY <2>1, SameChain, SamePending DEF QueueInv
  <2>4. Followed' /\ Ending' BY <2>1 DEF Followed, Ending, At
  <2>5. cur \in queue \/ Pending(cur, 1) \/ Agree(air, cr[cur])
    BY <2>1 DEF QueueInv, Followed
  <2>6. cur \in queue' \/ Pending(cur, 1) \/ ~Needs(cr[cur])
    <3>1. CASE Agree(air, cr[cur]) /\ ~(air.spec.frequency > 0)
      BY <2>2, <3>1 DEF Agree, Needs, Alive
    <3>2. CASE cur \in queue \/ air.spec.frequency > 0 BY <2>1, <3>2
    <3> QED BY <2>5, <3>1, <3>2
  <2>7. \A d \in CR : NotLost(d)' BY <2>1, <2>3, <2>6 DEF QueueInv, NotLost, Needs
  <2> QED BY <2>3, <2>4, <2>7 DEF QueueInv
<1>4. CASE Requeue
  <2>1. pc # "idle" BY <1>4 DEF Requeue
  <2> QED BY <1>4, <2>1, OtherStays, StaysKeeps, BackInKeeps DEF StaysOrBack
<1> QED BY <1>1, <1>2, <1>3, <1>4 DEF End

(* What updateCRDStatus and AddFinalizer send keeps what an event would    *)
(* have to tell.                                                           *)
LEMMA WritesQueue ==
    ASSUME TypeInv, FinalizerInv, QueueInv, AddFinalizer \/ UpdateCRDStatus PROVE QueueInv'
<1>1. CASE AddFinalizer
  <2> DEFINE o == [air EXCEPT !.finalizer = TRUE]
  <2>1. pc = "addFinalizer" /\ air \in Object /\ Update(o, "list")
    BY <1>1 DEF AddFinalizer, TypeInv, Scoped, ScopeAt
  <2>2. /\ o \in Object /\ o.spec = air.spec /\ o.deleting = air.deleting
        /\ o.finalizer /\ o.phase = air.phase
    BY <2>1 DEF Object
  <2> HIDE DEF o
  <2> QED BY <2>1, <2>2, UpdateQueue
<1>2. CASE UpdateCRDStatus
  <2> DEFINE o == StatusFor(air, call.phase, call.result)
             l == call.return
  <2>1. pc = "status" /\ air \in Object /\ call \in Call /\ l \in ReturnPoints /\ call.phase # ""
    BY <1>2 DEF UpdateCRDStatus, TypeInv, Scoped, WorkerTypeOK, QueueInv, Ending
  <2>2. CASE Return(TRUE) BY <2>2, BackInKeeps DEF Return, Leave, BackIn
  <2>3. CASE Update(o, l)
    <3>1. call.phase \in Phase /\ call.result \in Result BY <2>1 DEF Call
    <3>2. o \in Object /\ o.spec = air.spec BY <2>1, <3>1, StatusForType
    <3>3. /\ o.deleting = air.deleting /\ o.finalizer = air.finalizer
          /\ o.phase = call.phase
      BY <2>1 DEF StatusFor, Object
    <3>4. l \notin {"idle", "status"} BY <2>1 DEF ReturnPoints, DestroyPoints, SyncPoints
    <3>5. l \in {"final", "return"} => ~air.deleting
      BY <2>1 DEF QueueInv, Ending, At, Alive
    <3> HIDE DEF o, l
    <3> QED BY <2>1, <2>3, <3>2, <3>3, <3>4, <3>5, UpdateQueue
  <2> QED BY <1>2, <2>2, <2>3 DEF UpdateCRDStatus
<1> QED BY <1>1, <1>2

(* With its finalizer the object goes, and a new process queues all.       *)
LEMMA LeaveQueue ==
    ASSUME TypeInv, FinalizerInv, QueueInv, Unfinalize \/ Crash PROVE QueueInv'
<1>1. CASE Unfinalize
  <2>1. pc = "unfinalize" /\ air \in Object /\ cur \in CR /\ KubeTypeOK
    BY <1>1 DEF Unfinalize, TypeInv, Scoped, ScopeAt
  <2>2. CASE Return(TRUE) BY <2>2, BackInKeeps DEF Return, Leave, BackIn
  <2>3. CASE /\ fresh
             /\ Write(cur, Stored([air EXCEPT !.finalizer = FALSE]))
             /\ Leave
             /\ UNCHANGED <<cache, queue, cp, edits>>
    <3>1. air.deleting BY <2>1 DEF FinalizerInv, Branch, At, Dying
    <3>2. Stored([air EXCEPT !.finalizer = FALSE]) = None
      BY <2>1, <3>1 DEF Stored, Object
    <3>3. Write(cur, None) BY <2>3, <3>2
    <3>4. FeedReachesServer(cur) BY <2>1 DEF FinalizerInv, ServerInv
    <3>5. Passes(cr[cur], None) BY DEF Passes
    <3>6. Chain' /\ \A d \in CR \ {cur} : Pending(d, 1)' <=> Pending(d, 1)
      BY <2>1, <2>3, <3>3, <3>4, <3>5, WriteChain DEF QueueInv
    <3>7. cr'[cur] = None /\ \A d \in CR \ {cur} : cr'[d] = cr[d]
      BY <2>1, <2>3, <3>3, WriteVersions
    <3>8. pc' = "idle" /\ cur' = None /\ queue' = queue BY <2>3 DEF Leave
    <3>9. Followed' /\ Ending' BY <3>8 DEF Followed, Ending, At
    <3>10. \A d \in CR : NotLost(d)' BY <3>6, <3>7, <3>8 DEF QueueInv, NotLost, Needs
    <3> QED BY <3>6, <3>9, <3>10 DEF QueueInv
  <2> QED BY <1>1, <2>2, <2>3 DEF Unfinalize
<1>2. CASE Crash
  <2>1. /\ pc' = "idle" /\ cur' = None /\ cr' = cr /\ cache' = cr
        /\ feed' = [c \in CR |-> <<>>]
        /\ queue' = {c \in CR : cr[c] # None}
    BY <1>2 DEF Crash, Leave, Relist
  <2>2. ASSUME NEW c \in CR, NEW n \in 1 .. Len(feed'[c]) + 1
        PROVE  Agree(Versions(c)'[n], cr'[c])
    <3>1. feed'[c] = <<>> /\ cache'[c] = cr[c] BY <2>1
    <3>2. n = 1 /\ Versions(c)' = <<cr[c]>> \o <<>> BY <3>1 DEF Versions
    <3>3. Versions(c)'[1] = cr[c] BY <3>2, Prepended
    <3> QED BY <2>1, <3>2, <3>3 DEF Agree
  <2>3. Chain' BY <2>2 DEF Chain, Agree
  <2>4. Followed' /\ Ending' BY <2>1 DEF Followed, Ending, At
  <2>5. \A d \in CR : NotLost(d)' BY <2>1 DEF NotLost, Needs
  <2> QED BY <2>3, <2>4, <2>5 DEF QueueInv
<1> QED BY <1>1, <1>2

----------------------------------------------------------------------------
(* The theorem *)

(* At the start there is no object, no event and no pass.                  *)
LEMMA InitQueue == Init => QueueInv
<1> SUFFICES ASSUME Init PROVE QueueInv OBVIOUS
<1>1. /\ \A c \in CR : cr[c] = None /\ cache[c] = None /\ feed[c] = <<>>
      /\ pc = "idle" /\ cur = None
  BY DEF Init, KubeInit
<1>2. Chain
  <2> SUFFICES ASSUME NEW c \in CR, NEW n \in 1 .. Len(feed[c]) + 1
               PROVE  Agree(Versions(c)[n], cr[c])
    BY DEF Chain
  <2>1. feed[c] = <<>> /\ cache[c] = None BY <1>1
  <2>2. n = 1 /\ Versions(c) = <<None>> \o <<>> BY <2>1 DEF Versions
  <2>3. None \in {None} /\ <<>> \in Seq({None}) OBVIOUS
  <2>4. Versions(c)[1] = None BY <2>2, <2>3, Prepended
  <2> QED BY <1>1, <2>2, <2>4 DEF Agree
<1>3. Followed /\ Ending BY <1>1 DEF Followed, Ending, At
<1>4. \A c \in CR : NotLost(c) BY <1>1 DEF NotLost, Needs
<1> QED BY <1>2, <1>3, <1>4 DEF QueueInv

(* Every step of the system keeps the invariant.                           *)
LEMMA NextQueue == ASSUME TypeInv, FinalizerInv, QueueInv, [Next]_vars PROVE QueueInv'
<1>1. CASE Prune \/ Provide
  <2>1. pc # "idle" BY <1>1, SyncMoves DEF SyncPoints
  <2> QED BY <1>1, <2>1, SyncStays, EndQueue, StaysKeeps, BackInKeeps DEF StaysOrBack
<1>2. CASE \/ GetClusterResources \/ NewIAMClient \/ DestroyRoles \/ DestroyDetach
           \/ DestroyPolicies \/ DestroyRole \/ CallFails \/ ReplyLost
  <2>1. pc # "idle"
    BY <1>2
    DEF GetClusterResources, NewIAMClient, DestroyRoles, DestroyDetach, DestroyPolicies,
        DestroyRole, CallFails, ReplyLost, DestroyPoints, SyncPoints
  <2> QED BY <1>2, <2>1, OtherStays, StaysKeeps, BackInKeeps DEF StaysOrBack
<1>3. CASE End BY <1>3, EndQueue
<1>4. ASSUME NEW c \in CR, Pick(c) PROVE QueueInv' BY <1>4, PickQueue
<1>5. CASE AddFinalizer \/ UpdateCRDStatus BY <1>5, WritesQueue
<1>6. CASE Unfinalize \/ Crash BY <1>6, LeaveQueue
<1>7. CASE Environment \/ UNCHANGED vars
  <2>1. UNCHANGED <<pc, cur, air, call>> BY <1>7 DEF Environment, workerVars, vars
  <2>2. CASE \E c \in CR : UserRequest(c) BY <2>1, <2>2, UserQueue
  <2>3. CASE \E c \in CR : WatchEvent(c) BY <2>1, <2>3, WatchQueue
  <2>4. CASE UNCHANGED <<cr, cache, feed, queue>>
    BY <2>1, <2>4, SameChain, SamePending
    DEF QueueInv, Followed, Ending, At, NotLost, Needs, Agree
  <2> QED
    BY <1>7, <2>2, <2>3, <2>4 DEF Environment, ControlPlaneChanges, kubeVars, vars
<1> QED
  BY <1>1, <1>2, <1>3, <1>4, <1>5, <1>6, <1>7
  DEF Next, Worker, Begin, Destroy, Faults

(* The chain of versions, the version at hand and the queue fit together   *)
(* at every step.                                                          *)
THEOREM QueueInvariance == Spec => []QueueInv
<1>1. TypeInv /\ FinalizerInv /\ QueueInv /\ [Next]_vars => QueueInv' BY NextQueue
<1> QED BY <1>1, InitQueue, ScopeCorrect, FinalizerInvariance, PTL DEF Spec

(* An object that is to be synchronised again, destroyed or looked at for  *)
(* the first time is in the queue, in the worker's hands, or behind an     *)
(* event that will queue it, for any number of objects and of events on    *)
(* their way, under faults, conflicts and crashes.                         *)
THEOREM NeverForgottenHolds == Spec => []NeverForgotten
<1>1. TypeInv /\ QueueInv => NeverForgotten
  <2> SUFFICES ASSUME TypeInv, QueueInv, NEW c \in CR, Needs(cr[c])
               PROVE  \/ c \in queue \/ c = cur
                      \/ \E i \in DOMAIN feed[c] : Passes(Versions(c)[i], Versions(c)[i + 1])
    BY DEF NeverForgotten, Needs
  <2> QED BY DEF QueueInv, NotLost, Pending
<1> QED BY <1>1, QueueInvariance, ScopeCorrect, PTL
=============================================================================
