---------------------------- MODULE MCReconciler ----------------------------
(***************************************************************************)
(* Small instances of Reconciler for TLC.                                  *)
(***************************************************************************)
EXTENDS ProtocolRefinement, SyncInvariant, TLC

CONSTANTS c1, c2, k1, k2, r1, r2, p1, p2, d1, d2, t1, t2

(* A specification whose keys are the names in it, as in the sample.       *)
SpecOf(k, f, t, refs, pols) ==
    [cluster   |-> k,
     frequency |-> f,
     roles     |-> [r \in DOMAIN refs |-> [name |-> r, template |-> t, policies |-> refs[r]]],
     policies  |-> [p \in DOMAIN pols |-> [name |-> p, doc |-> pols[p]]]]

(* Two roles share a policy; a new document for it; one role dropped and   *)
(* the other moved to a second policy.                                     *)
Shared  == SpecOf(k1, 30, t1, r1 :> {p1} @@ r2 :> {p1}, p1 :> d1)
NewDoc  == SpecOf(k1, 30, t1, r1 :> {p1} @@ r2 :> {p1}, p1 :> d2)
Dropped == SpecOf(k1, 30, t2, r1 :> {p2}, p2 :> d1)

(* A policy nobody refers to, a reference to a policy that is not defined, *)
(* and no periodic synchronisation.                                        *)
Loose   == SpecOf(k1, 0, t1, r1 :> {p2}, p1 :> d1)

Sharing   == c1 :> {Shared, NewDoc}
Lifecycle == c1 :> {Shared, NewDoc, Dropped, Loose}

(* One role and one policy, its new document, another policy instead,      *)
(* another role instead, and another role for another cluster.             *)
One     == SpecOf(k1, 30, t1, r1 :> {p1}, p1 :> d1)
OneNew  == SpecOf(k1, 30, t1, r1 :> {p1}, p1 :> d2)
Turned  == SpecOf(k1, 30, t1, r1 :> {p2}, p2 :> d1)
Other   == SpecOf(k1, 30, t1, r2 :> {p2}, p2 :> d1)
Two     == SpecOf(k2, 30, t1, r2 :> {p2}, p2 :> d1)

Single  == c1 :> {One}
Renewed == c1 :> {One, OneNew, Turned}
Moved   == c1 :> {One, Other, Two}

(* Two objects with names of their own: for two clusters, one of which may *)
(* want nothing, and for one cluster.                                      *)
TwoEmpty    == SpecOf(k2, 30, t1, <<>>, <<>>)
Apart       == c1 :> {One} @@ c2 :> {Two, TwoEmpty}
SameCluster == c1 :> {One} @@ c2 :> {Other}

(* Objects of two clusters that both name a role and a policy, one of      *)
(* which may turn to another policy and name a role of its own as well.    *)
Clash      == SpecOf(k2, 30, t2, r1 :> {p1}, p1 :> d1)
ClashWider == SpecOf(k2, 30, t2, r1 :> {p2} @@ r2 :> {p2}, p2 :> d1)
CommonName == c1 :> {One} @@ c2 :> {Clash, ClashWider}
=============================================================================
