---------------------------- MODULE OwnershipTags ----------------------------
(***************************************************************************)
(* The tags by which the operator knows its own (internal/aws_sdk/tags.go): *)
(* the two of the cluster and the namespace, which tell what to prune, and *)
(* on a policy the checksum of its document, which tells what to replace.  *)
(* IAMAccount has the outcome: RolesTagged, PoliciesTagged and a policy's  *)
(* doc.  Here a cluster and a namespace are two values, an entity has the  *)
(* tags of its user as well, IAM lists them in an order of its own, and    *)
(* others may change them.                                                 *)
(*                                                                         *)
(* Not covered: the limits of IAM on the number and the length of tags.    *)
(***************************************************************************)
EXTENDS Naturals, FiniteSets, SequencesExt

CONSTANTS
    Name,      \* names of policies
    Value,     \* values of tags: clusters, namespaces and what users choose
    UserKey,   \* keys of tags users choose
    TagLists,  \* the lists of tags users give in spec.policies[*].spec.tags
    Doc,       \* policy documents; each is its own checksum
    Retagged,  \* the keys whose tags others change in IAM
    PageSize,  \* tags read of an entity: 10 in getSimilarPolicyTags
    None       \* no policy, not asked for

Key == {"cluster", "namespace", "checksum"} \cup UserKey

ASSUME TagsAssumption == /\ TagLists \subseteq Seq([key : Key, value : Value])
                         /\ Retagged \subseteq Key
                         /\ PageSize \in Nat \ {0}

VARIABLES
    asked,   \* the policy an object asks for under a name, or None
    entity   \* the policy IAM has under that name, its tags as IAM lists them, or None

vars == <<asked, entity>>

Owner == [cluster : Value, namespace : Value]
Asked == [owner : Owner, tags : TagLists, doc : Doc]

Init == /\ asked = [n \in Name |-> None]
        /\ entity = [n \in Name |-> None]

----------------------------------------------------------------------------
(* tags.go *)

Tag(k, v) == [key |-> k, value |-> v]

NewChecksumTag(doc) == Tag("checksum", doc)

TagsDefine(o, tags) == <<Tag("cluster", o.cluster), Tag("namespace", o.namespace)>> \o tags

(* Broken variant of getSimilarTags: what is found comes in the order of   *)
(* result.                                                                 *)
SimilarInOrder(want, result) == SelectSeq(result, LAMBDA t : Contains(want, t))

(* The inner loop: the tag t once for each time it is found in result.      *)
Matches(t, result) ==
    FlattenSeq([j \in DOMAIN result |-> IF result[j] = t THEN <<t>> ELSE <<>>])

(* The tags of result that are in want, in the order of want.              *)
getSimilarTags(want, result) ==
    FlattenSeq([i \in DOMAIN want |-> Matches(want[i], result)])

(* Broken variant of compareTags: one similar tag is enough.               *)
SomeSimilar(a, b) == a # <<>>

compareTags(a, b) == a = b

----------------------------------------------------------------------------
(* IAM *)

(* The lists in which IAM may give the tags T.                             *)
Listings(T) == Bijection(1 .. Cardinality(T), T)

(* The tags of a policy, and the page of them that is read.                *)
TagsOf(n) == entity[n].tags
Page(n)   == SubSeq(TagsOf(n), 1, IF Len(TagsOf(n)) < PageSize THEN Len(TagsOf(n)) ELSE PageSize)

(* No two tags of a request may have one key.                              *)
Accepted(tags) == \A i, j \in DOMAIN tags : tags[i].key = tags[j].key => i = j

(* What CreatePolicy makes of a request: nothing when IAM rejects its tags. *)
Stored(doc, tags) ==
    IF Accepted(tags) THEN [doc : {doc}, tags : Listings(Range(tags))] ELSE {None}

----------------------------------------------------------------------------
(* The operator *)

ListByTags(o) ==
    LET want == TagsDefine(o, <<>>) IN
    {n \in Name : entity[n] # None /\ compareTags(getSimilarTags(want, Page(n)), want)}

(* Broken variant of Wish: the checksum is left to the first creation.     *)
WishOnce(n) ==
    LET a == asked[n] IN
    Stored(a.doc, TagsDefine(a.owner, Append(a.tags,
        IF entity[n] = None THEN NewChecksumTag(a.doc)
        ELSE CHOOSE t \in Range(entity[n].tags) : t.key = "checksum")))

(* What CreatePolicy may make of the object's entry.                       *)
Wish(n) == LET a == asked[n] IN
           Stored(a.doc, TagsDefine(a.owner, Append(a.tags, NewChecksumTag(a.doc))))

Outdated(n) == \E i \in DOMAIN TagsOf(n) :
                  /\ TagsOf(n)[i].key = "checksum"
                  /\ TagsOf(n)[i] # NewChecksumTag(asked[n].doc)

(* syncPoliciesByRoleSpec: a missing policy is created, and one with        *)
(* another checksum is deleted and created anew.                           *)
Sync(n) == /\ asked[n] # None
           /\ entity[n] # None => Outdated(n)
           /\ \E e \in Wish(n) : entity' = [entity EXCEPT ![n] = e]
           /\ UNCHANGED asked

(* syncAWSIAMResources for an object of o that does not name the policy.   *)
Prune(n, o) == /\ n \in ListByTags(o)
               /\ asked[n] # None => asked[n].owner # o
               /\ entity' = [entity EXCEPT ![n] = None]
               /\ UNCHANGED asked

----------------------------------------------------------------------------
(* Users of the objects and of IAM *)

Ask(n) == /\ \E a \in Asked \cup {None} : asked' = [asked EXCEPT ![n] = a]
          /\ UNCHANGED entity

(* The tags of a policy but the one of key k.                              *)
Without(n, k) == {t \in Range(TagsOf(n)) : t.key # k}

Retag(n) == /\ entity[n] # None
            /\ \E k \in Retagged, v \in Value :
                 \E l \in Listings(Without(n, k) \cup {Tag(k, v)}) :
                   entity' = [entity EXCEPT ![n].tags = l]
            /\ UNCHANGED asked

Untag(n) == /\ entity[n] # None
            /\ \E k \in Retagged :
                 \E l \in Listings(Without(n, k)) : entity' = [entity EXCEPT ![n].tags = l]
            /\ UNCHANGED asked

Next == \E n \in Name : \/ Sync(n)
                        \/ \E o \in Owner : Prune(n, o)
                        \/ Ask(n)
                        \/ Retag(n)
                        \/ Untag(n)

Spec == Init /\ [][Next]_vars

----------------------------------------------------------------------------
(* Properties *)

(* What the tags of a policy say, in whatever order and however many.      *)
Says(n, o) == /\ entity[n] # None
              /\ \A k \in {"cluster", "namespace"} :
                   Tag(k, o[k]) \in Range(TagsOf(n))

(* Nothing is listed, and so nothing is pruned, for a cluster and a         *)
(* namespace its tags do not name, whatever tags users and others put      *)
(* beside, and even when not all of them are read.                         *)
ListsOwnOnly == \A o \in Owner : \A n \in ListByTags(o) : Says(n, o)

(* What the tags name is listed, in whatever order IAM returns them, as    *)
(* long as they fit a page.                                                *)
ListsAllOwn ==
    \A n \in Name, o \in Owner :
        Says(n, o) /\ Len(TagsOf(n)) <= PageSize => n \in ListByTags(o)

(* The checksum tells whether a policy has the document its object asks     *)
(* for, after any edits of the document and of the tags and whatever       *)
(* replacements came before, as long as nobody else changes it.            *)
ChecksumTells ==
    \A n \in Name : entity[n] # None /\ asked[n] # None
        => (Outdated(n) <=> entity[n].doc # asked[n].doc)
=============================================================================
