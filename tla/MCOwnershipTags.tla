-------------------------- MODULE MCOwnershipTags --------------------------
(***************************************************************************)
(* Small instances of OwnershipTags for TLC: one policy, four keys of tags *)
(* in every order, and pages that hold three of them.                      *)
(***************************************************************************)
EXTENDS OwnershipTags

CONSTANTS n1, v1, v2, u1, d1, d2

(* No tag of the user's, one, and one with the key of an ownership tag.    *)
Lists == {<<>>, <<Tag(u1, v1)>>, <<Tag("cluster", v2)>>}

ByHand == {"cluster", "namespace", u1}
=============================================================================
