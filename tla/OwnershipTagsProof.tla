------------------------- MODULE OwnershipTagsProof -------------------------
(***************************************************************************)
(* What the tags tell, for every value of the constants: ListsOwnOnly,     *)
(* ListsAllOwn and ChecksumTells.                                          *)
(*                                                                         *)
(* Two facts carry them: getSimilarTags gives back the tags looked for     *)
(* exactly when each of them is among those found, as long as neither list *)
(* has a tag twice; and IAM never has a key twice, whatever is created and *)
(* changed by hand.                                                        *)
(***************************************************************************)
EXTENDS OwnershipTags, FiniteSetTheorems, SequenceTheorems, WellFoundedInduction, TLAPS

----------------------------------------------------------------------------
(* Lists put together one after the other *)

(* A set of positions that has the first and with each one the next has    *)
(* them all.                                                               *)
LEMMA AllPositions ==
    ASSUME NEW n \in Nat, NEW T, n > 0 => 1 \in T,
           \A i \in 2 .. n : i - 1 \in T => i \in T
    PROVE  1 .. n \subseteq T
<1> DEFINE R    == OpToRel(<, Nat)
           Rest == (1 .. n) \ T
<1>1. R = {ss \in Nat \X Nat : ss[1] < ss[2]} BY DEF OpToRel
<1>2. IsWellFoundedOn(R, Nat) BY NatLessThanWellFounded
<1>3. Rest \in SUBSET Nat OBVIOUS
<1> SUFFICES ASSUME Rest # {} PROVE FALSE OBVIOUS
<1> HIDE DEF R, Rest
<1>4. PICK m \in Rest : \A k \in Rest : ~(<<k, m>> \in R) BY <1>2, <1>3, WFMin
<1>5. m \in 1 .. n /\ m \notin T BY DEF Rest
<1>6. m \in 2 .. n BY <1>5
<1>7. m - 1 \in 1 .. n /\ m - 1 \notin T BY <1>5, <1>6
<1>8. m - 1 \in Rest /\ m - 1 \in Nat /\ m \in Nat /\ m - 1 < m BY <1>6, <1>7 DEF Rest
<1>9. <<m - 1, m>> \in R BY <1>1, <1>8
<1> QED BY <1>4, <1>8, <1>9

(* What FlattenSeq has put together after each list of q.                  *)
Joins(c, q, n) == c = [i \in 1 .. n |-> IF i = 1 THEN q[i] ELSE c[i - 1] \o q[i]]

LEMMA JoinExists ==
    ASSUME NEW S, NEW n \in Nat \ {0}, NEW q \in [1 .. n -> Seq(S)]
    PROVE  \E c \in [1 .. n -> Seq(S)] : Joins(c, q, n)
<1> DEFINE Joined(m) == \E c \in [1 .. m -> Seq(S)] : Joins(c, q, m)
           T         == {m \in 1 .. n : Joined(m)}
<1>1. 1 \in T
  <2> DEFINE c == [i \in 1 .. 1 |-> q[i]]
  <2>1. 1 \in 1 .. n /\ c \in [1 .. 1 -> Seq(S)] OBVIOUS
  <2>2. Joins(c, q, 1) BY DEF Joins
  <2> QED BY <2>1, <2>2
<1>2. ASSUME NEW m \in 2 .. n, m - 1 \in T PROVE m \in T
  <2>1. PICK c \in [1 .. m - 1 -> Seq(S)] : Joins(c, q, m - 1) BY <1>2
  <2> DEFINE d == [i \in 1 .. m |-> IF i = m THEN c[m - 1] \o q[m] ELSE c[i]]
  <2>2. d \in [1 .. m -> Seq(S)]
    <3>1. c[m - 1] \in Seq(S) /\ q[m] \in Seq(S) OBVIOUS
    <3>2. c[m - 1] \o q[m] \in Seq(S) BY <3>1
    <3> QED BY <3>2
  <2>3. \A i \in 1 .. m - 1 : c[i] = IF i = 1 THEN q[i] ELSE c[i - 1] \o q[i]
    BY <2>1 DEF Joins
  <2>4. ASSUME NEW i \in 1 .. m PROVE d[i] = IF i = 1 THEN q[i] ELSE d[i - 1] \o q[i]
    <3>1. m - 1 \in 1 .. m /\ m - 1 # m /\ m # 1 /\ d[m - 1] = c[m - 1] OBVIOUS
    <3>2. CASE i = m BY <3>1, <3>2
    <3>3. CASE i # m /\ i # 1
      <4>1. i \in 1 .. m - 1 /\ i - 1 \in 1 .. m /\ i - 1 # m BY <3>3
      <4> QED BY <2>3, <3>3, <4>1
    <3>4. CASE i = 1
      <4>1. i \in 1 .. m - 1 /\ i # m BY <3>1, <3>4
      <4> QED BY <2>3, <3>4, <4>1
    <3> QED BY <3>2, <3>3, <3>4
  <2>5. Joins(d, q, m) BY <2>2, <2>4 DEF Joins
  <2>6. Joined(m) BY <2>2, <2>5
  <2> QED BY <2>6
<1> HIDE DEF T
<1>3. n \in T
  <2>1. 1 .. n \subseteq T BY <1>1, <1>2, AllPositions
  <2> QED BY <2>1
<1> QED BY <1>3 DEF T

(* c has the beginnings of FlattenSeq(q), list by list.                    *)
Gathers(c, q, n) == /\ c[1] = q[1]
                    /\ \A i \in 2 .. n : c[i] = c[i - 1] \o q[i]
                    /\ FlattenSeq(q) = c[n]

LEMMA Flattened ==
    ASSUME NEW S, NEW n \in Nat \ {0}, NEW q \in [1 .. n -> Seq(S)]
    PROVE  \E c \in [1 .. n -> Seq(S)] : Gathers(c, q, n)
<1> DEFINE c == CHOOSE c : c = [i \in 1 .. n |-> IF i = 1 THEN q[i] ELSE c[i - 1] \o q[i]]
           T == {i \in 1 .. n : c[i] \in Seq(S)}
<1>1. q \in Seq(Seq(S)) /\ Len(q) = n OBVIOUS
<1>2. FlattenSeq(q) = c[n] BY <1>1 DEF FlattenSeq
<1>3. PICK d \in [1 .. n -> Seq(S)] : Joins(d, q, n) BY JoinExists
<1>4. c = [i \in 1 .. n |-> IF i = 1 THEN q[i] ELSE c[i - 1] \o q[i]] BY <1>3 DEF Joins
<1> HIDE DEF c
<1>5. c[1] = q[1] /\ \A i \in 2 .. n : c[i] = c[i - 1] \o q[i]
  <2>1. 1 \in 1 .. n OBVIOUS
  <2>2. \A i \in 2 .. n : i \in 1 .. n /\ i # 1 OBVIOUS
  <2> QED BY <1>4, <2>1, <2>2
<1>6. 1 \in T
  <2>1. 1 \in 1 .. n OBVIOUS
  <2> QED BY <1>5, <2>1
<1>7. ASSUME NEW i \in 2 .. n, i - 1 \in T PROVE i \in T
  <2>1. c[i - 1] \in Seq(S) /\ q[i] \in Seq(S) /\ i \in 1 .. n BY <1>7
  <2>2. c[i - 1] \o q[i] \in Seq(S) BY <2>1
  <2> QED BY <1>5, <2>1, <2>2
<1> HIDE DEF T
<1>8. 1 .. n \subseteq T BY <1>6, <1>7, AllPositions
<1>9. c \in [1 .. n -> Seq(S)] BY <1>4, <1>8 DEF T
<1> QED BY <1>2, <1>5, <1>9 DEF Gathers

----------------------------------------------------------------------------
(* getSimilarTags *)

Once(s) == \A i, j \in DOMAIN s : s[i] = s[j] => i = j

(* In a list without a tag twice a tag is found once or not at all.        *)
LEMMA MatchOnce ==
    ASSUME NEW S, NEW result \in Seq(S), Once(result), NEW t \in S
    PROVE  Matches(t, result) = IF t \in Range(result) THEN <<t>> ELSE <<>>
<1> DEFINE n == Len(result)
           q == [j \in 1 .. n |-> IF result[j] = t THEN <<t>> ELSE <<>>]
<1>1. n \in Nat /\ DOMAIN result = 1 .. n /\ Matches(t, result) = FlattenSeq(q)
  BY DEF Matches
<1>2. CASE n = 0
  <2>1. q = <<>> /\ Len(q) = 0 BY <1>2
  <2>2. Range(result) = {} BY <1>1, <1>2 DEF Range
  <2> HIDE DEF q
  <2>3. FlattenSeq(q) = <<>> BY <2>1 DEF FlattenSeq
  <2> QED BY <1>1, <2>2, <2>3
<1>3. CASE n # 0
  <2> DEFINE In(i) == \E j \in 1 .. i : result[j] = t
  <2>1. <<t>> \in Seq(S) /\ <<>> \in Seq(S) OBVIOUS
  <2>2. n \in Nat \ {0} /\ q \in [1 .. n -> Seq(S)] BY <1>1, <1>3, <2>1
  <2>3. \A i \in 1 .. n : q[i] = IF result[i] = t THEN <<t>> ELSE <<>> OBVIOUS
  <2> HIDE DEF q, n
  <2>4. PICK c \in [1 .. n -> Seq(S)] : Gathers(c, q, n) BY <2>2, Flattened
  <2> DEFINE T == {i \in 1 .. n : c[i] = IF In(i) THEN <<t>> ELSE <<>>}
  <2>5. 1 \in T
    <3>1. 1 \in 1 .. n /\ 1 .. 1 = {1} BY <1>1, <1>3
    <3>2. In(1) <=> result[1] = t BY <3>1
    <3> QED BY <2>3, <2>4, <3>1, <3>2 DEF Gathers
  <2>6. ASSUME NEW i \in 2 .. n, i - 1 \in T PROVE i \in T
    <3>1. i \in 1 .. n /\ 1 .. i = (1 .. i - 1) \cup {i} /\ i \notin 1 .. i - 1
          /\ 1 .. i - 1 \subseteq DOMAIN result /\ i \in DOMAIN result
      BY <1>1
    <3>2. In(i) <=> In(i - 1) \/ result[i] = t BY <3>1
    <3>3. result[i] = t => ~In(i - 1) BY <3>1 DEF Once
    <3>4. c[i] = c[i - 1] \o q[i] /\ c[i - 1] = IF In(i - 1) THEN <<t>> ELSE <<>> BY <2>4, <2>6 DEF Gathers
    <3>5. q[i] = IF result[i] = t THEN <<t>> ELSE <<>> BY <2>3, <3>1
    <3>6. <<t>> \o <<>> = <<t>> /\ <<>> \o <<t>> = <<t>> /\ <<>> \o <<>> = <<>>
      BY <2>1, ConcatEmptySeq
    <3> HIDE DEF In
    <3>7. c[i] = IF In(i) THEN <<t>> ELSE <<>> BY <3>2, <3>3, <3>4, <3>5, <3>6
    <3> QED BY <3>1, <3>7
  <2> HIDE DEF T
  <2>7. n \in T
    <3>1. 1 .. n \subseteq T BY <2>2, <2>5, <2>6, AllPositions
    <3> QED BY <2>2, <3>1
  <2>8. In(n) <=> t \in Range(result) BY <1>1 DEF Range
  <2> QED BY <1>1, <2>4, <2>7, <2>8 DEF T, Gathers
<1> QED BY <1>2, <1>3

(* getSimilarTags gives back what is looked for exactly when all of it is   *)
(* among what is found, whatever stands between and in whatever order.     *)
LEMMA SimilarTags ==
    ASSUME NEW S, NEW want \in Seq(S), NEW result \in Seq(S), Once(result)
    PROVE  getSimilarTags(want, result) = want
             <=> \A i \in DOMAIN want : want[i] \in Range(result)
<1> DEFINE n == Len(want)
           q == [i \in 1 .. n |-> Matches(want[i], result)]
<1>1. /\ n \in Nat /\ n = Len(want) /\ DOMAIN want = 1 .. n
      /\ getSimilarTags(want, result) = FlattenSeq(q)
  BY DEF getSimilarTags
<1>2. CASE n = 0
  <2>1. q = <<>> /\ Len(q) = 0 /\ want = <<>> BY <1>2
  <2> HIDE DEF q
  <2>2. FlattenSeq(q) = <<>> BY <2>1 DEF FlattenSeq
  <2> QED BY <1>1, <1>2, <2>1, <2>2
<1>3. CASE n # 0
  <2> DEFINE In(i)  == want[i] \in Range(result)
             All(i) == \A k \in 1 .. i : In(k)
  <2>1. \A i \in 1 .. n : want[i] \in S /\ q[i] = IF In(i) THEN <<want[i]>> ELSE <<>>
    BY <1>1, MatchOnce
  <2>2. n \in Nat \ {0} /\ q \in [1 .. n -> Seq(S)]
    <3>1. \A s \in S : <<s>> \in Seq(S) OBVIOUS
    <3>2. <<>> \in Seq(S) OBVIOUS
    <3>3. \A i \in 1 .. n : q[i] \in Seq(S) BY <2>1, <3>1, <3>2
    <3> QED BY <1>1, <1>3, <3>3
  <2> HIDE DEF q, n
  <2>3. PICK c \in [1 .. n -> Seq(S)] : Gathers(c, q, n) BY <2>2, Flattened
  <2> DEFINE Prefix(i) == /\ Len(c[i]) <= i
                          /\ Len(c[i]) = i <=> All(i)
                          /\ Len(c[i]) = i => \A k \in 1 .. i : c[i][k] = want[k]
             T         == {i \in 1 .. n : Prefix(i)}
  <2>4. 1 \in T
    <3>1. 1 \in 1 .. n /\ 1 .. 1 = {1} BY <1>1, <1>3
    <3>2. All(1) <=> In(1) BY <3>1
    <3>3. c[1] = IF In(1) THEN <<want[1]>> ELSE <<>> BY <2>1, <2>3, <3>1 DEF Gathers
    <3> HIDE DEF In, All
    <3>4. Prefix(1) BY <3>1, <3>2, <3>3
    <3> QED BY <3>1, <3>4
  <2>5. ASSUME NEW i \in 2 .. n, i - 1 \in T PROVE i \in T
    <3>1. i \in 1 .. n /\ i - 1 \in 1 .. n /\ 1 .. i = (1 .. i - 1) \cup {i} BY <1>1
    <3>2. All(i) <=> All(i - 1) /\ In(i) BY <3>1
    <3>3. Prefix(i - 1) BY <2>5
    <3>4. c[i] = c[i - 1] \o q[i] /\ c[i - 1] \in Seq(S) BY <2>3, <3>1 DEF Gathers
    <3>5. q[i] = (IF In(i) THEN <<want[i]>> ELSE <<>>) /\ q[i] \in Seq(S) BY <2>1, <2>2, <3>1
    <3> HIDE DEF In, All
    <3>6. CASE ~In(i)
      <4>1. c[i] = c[i - 1] BY <3>4, <3>5, <3>6, ConcatEmptySeq
      <4> QED BY <3>1, <3>2, <3>3, <3>4, <3>6, <4>1
    <3>7. CASE In(i)
      <4>1. Len(q[i]) = 1 /\ q[i][1] = want[i] BY <3>5, <3>7
      <4>2. /\ Len(c[i]) = Len(c[i - 1]) + 1
            /\ \A k \in 1 .. Len(c[i - 1]) : c[i][k] = c[i - 1][k]
            /\ c[i][Len(c[i - 1]) + 1] = want[i]
        <5> DEFINE s == c[i - 1]
                   u == q[i]
        <5>1. s \in Seq(S) /\ u \in Seq(S) /\ Len(s) \in Nat BY <3>4, <3>5
        <5> HIDE DEF s, u
        <5>2. /\ Len(s \o u) = Len(s) + Len(u)
              /\ \A k \in 1 .. Len(s) + Len(u) :
                   (s \o u)[k] = IF k <= Len(s) THEN s[k] ELSE u[k - Len(s)]
          BY <5>1, ConcatProperties
        <5>3. Len(u) = 1 /\ u[1] = want[i] /\ c[i] = s \o u BY <3>4, <4>1 DEF s, u
        <5>4. /\ Len(c[i]) = Len(s) + 1
              /\ \A k \in 1 .. Len(s) : c[i][k] = s[k]
              /\ c[i][Len(s) + 1] = want[i]
          BY <5>1, <5>2, <5>3
        <5> QED BY <5>4 DEF s
      <4>3. Len(c[i - 1]) \in Nat BY <3>4
      <4>4. Prefix(i)
        <5>1. Len(c[i]) <= i BY <3>1, <3>3, <4>2, <4>3
        <5>2. Len(c[i]) = i <=> Len(c[i - 1]) = i - 1 BY <3>1, <4>2, <4>3
        <5>3. ASSUME Len(c[i]) = i, NEW k \in 1 .. i PROVE c[i][k] = want[k]
          <6>1. CASE k = i BY <3>1, <4>2, <5>2, <5>3, <6>1
          <6>2. CASE k # i
            <7>1. k \in 1 .. i - 1 BY <3>1, <6>2
            <7> QED BY <3>3, <4>2, <5>2, <5>3, <7>1
          <6> QED BY <6>1, <6>2
        <5> QED BY <3>2, <3>3, <3>7, <5>1, <5>2, <5>3
      <4> QED BY <3>1, <4>4
    <3> QED BY <3>6, <3>7
  <2> HIDE DEF T
  <2>6. n \in T
    <3>1. 1 .. n \subseteq T BY <2>2, <2>4, <2>5, AllPositions
    <3> QED BY <2>2, <3>1
  <2>7. Prefix(n) BY <2>6 DEF T
  <2>8. All(n) <=> \A i \in DOMAIN want : want[i] \in Range(result) BY <1>1
  <2>9. c[n] \in Seq(S) BY <2>2
  <2>10. c[n] = want <=> Len(c[n]) = n
    <3>1. ASSUME Len(c[n]) = n PROVE c[n] = want
      <4>1. \A k \in 1 .. n : c[n][k] = want[k] BY <2>7, <3>1
      <4> QED BY <1>1, <2>9, <3>1, <4>1, SeqEqual
    <3> QED BY <1>1, <3>1
  <2> QED BY <1>1, <2>3, <2>7, <2>8, <2>10 DEF Gathers
<1> QED BY <1>2, <1>3

----------------------------------------------------------------------------
(* What IAM lists *)

Unique(T) == \A t, u \in T : t.key = u.key => t = u

LEMMA SeqRange ==
    ASSUME NEW S, NEW s \in Seq(S)
    PROVE  IsFiniteSet(Range(s)) /\ Range(s) \subseteq S
<1>1. Len(s) \in Nat /\ DOMAIN s = 1 .. Len(s) /\ s \in [1 .. Len(s) -> S] OBVIOUS
<1>2. s \in Surjection(1 .. Len(s), Range(s)) BY <1>1 DEF Surjection, Range
<1>3. IsFiniteSet(1 .. Len(s)) BY <1>1, FS_Interval
<1> QED BY <1>1, <1>2, <1>3, FS_Surjection DEF Range

(* A listing of a finite set of tags has each of them once, and no other.  *)
LEMMA ListingOf ==
    ASSUME NEW S, NEW T \in SUBSET S, IsFiniteSet(T), NEW l \in Listings(T)
    PROVE  l \in Seq(S) /\ Range(l) = T /\ (Unique(T) => Accepted(l))
<1> DEFINE n == Cardinality(T)
<1>1. n \in Nat BY FS_CardinalityType
<1>2. /\ l \in [1 .. n -> T]
      /\ \A i, j \in 1 .. n : l[i] = l[j] => i = j
      /\ \A t \in T : \E i \in 1 .. n : l[i] = t
  BY DEF Listings, Bijection, Injection, Surjection, IsInjective
<1> HIDE DEF n
<1>3. l \in Seq(S) /\ DOMAIN l = 1 .. n BY <1>1, <1>2
<1>4. Range(l) = T BY <1>2, <1>3 DEF Range
<1> QED BY <1>2, <1>3, <1>4 DEF Unique, Accepted

LEMMA AcceptedUnique ==
    ASSUME NEW S, NEW s \in Seq(S), Accepted(s)
    PROVE  Once(s) /\ Unique(Range(s))
BY DEF Accepted, Once, Unique, Range

----------------------------------------------------------------------------
(* The tags of a policy *)

TagType == [key : Key, value : Value \cup Doc]

(* IAM lists no key twice, and the tags of a policy are tags.              *)
Tagged(e) == e \in [doc : Doc, tags : Seq(TagType)] /\ Accepted(e.tags)

(* What TagsDefine gives is a list of tags whose last tag is the checksum. *)
LEMMA WishTags ==
    ASSUME NEW a \in Asked
    PROVE  LET tags == TagsDefine(a.owner, Append(a.tags, NewChecksumTag(a.doc)))
           IN tags \in Seq(TagType) /\ NewChecksumTag(a.doc) \in Range(tags)
<1> DEFINE own  == <<Tag("cluster", a.owner.cluster), Tag("namespace", a.owner.namespace)>>
           rest == Append(a.tags, NewChecksumTag(a.doc))
<1>1. a.owner \in Owner /\ a.tags \in Seq([key : Key, value : Value]) /\ a.doc \in Doc
  BY TagsAssumption DEF Asked
<1>2. NewChecksumTag(a.doc) \in TagType BY <1>1 DEF NewChecksumTag, Tag, TagType, Key
<1>3. own \in Seq(TagType) /\ Len(own) = 2
  <2>1. Tag("cluster", a.owner.cluster) \in TagType /\ Tag("namespace", a.owner.namespace) \in TagType
    BY <1>1 DEF Tag, TagType, Key, Owner
  <2> HIDE DEF TagType
  <2> QED BY <2>1
<1>4. a.tags \in Seq(TagType)
  <2>1. [key : Key, value : Value] \subseteq TagType BY DEF TagType
  <2> HIDE DEF TagType
  <2> QED BY <1>1, <2>1, SeqMonotonic
<1>5. rest \in Seq(TagType) /\ Len(rest) = Len(a.tags) + 1 /\ rest[Len(rest)] = NewChecksumTag(a.doc)
  BY <1>2, <1>4
<1> HIDE DEF own, rest
<1>6. /\ own \o rest \in Seq(TagType) /\ Len(rest) \in Nat \ {0}
      /\ Len(own \o rest) = 2 + Len(rest)
      /\ (own \o rest)[2 + Len(rest)] = rest[Len(rest)]
  <2>1. Len(a.tags) \in Nat /\ Len(rest) \in Nat \ {0} BY <1>4, <1>5
  <2> HIDE DEF TagType
  <2>2. /\ own \o rest \in Seq(TagType)
        /\ Len(own \o rest) = Len(own) + Len(rest)
        /\ \A i \in 1 .. Len(own) + Len(rest) :
             (own \o rest)[i] = IF i <= Len(own) THEN own[i] ELSE rest[i - Len(own)]
    BY <1>3, <1>5, ConcatProperties
  <2>3. 2 + Len(rest) \in 1 .. 2 + Len(rest) /\ ~(2 + Len(rest) <= 2)
        /\ (2 + Len(rest)) - 2 = Len(rest)
    BY <2>1
  <2> QED BY <1>3, <2>1, <2>2, <2>3
<1>7. 2 + Len(rest) \in DOMAIN (own \o rest) BY <1>6
<1>8. NewChecksumTag(a.doc) \in Range(own \o rest) BY <1>5, <1>6, <1>7 DEF Range
<1> QED BY <1>6, <1>8 DEF TagsDefine, own, rest

(* What is created has the checksum of its document.                       *)
LEMMA WishFacts ==
    ASSUME NEW n \in Name, asked[n] \in Asked, NEW e \in Wish(n), e # None
    PROVE  /\ Tagged(e)
           /\ e.doc = asked[n].doc
           /\ NewChecksumTag(e.doc) \in Range(e.tags)
<1> DEFINE a    == asked[n]
           tags == TagsDefine(a.owner, Append(a.tags, NewChecksumTag(a.doc)))
<1>1. tags \in Seq(TagType) /\ NewChecksumTag(a.doc) \in Range(tags) BY WishTags
<1>2. Accepted(tags) /\ e \in [doc : {a.doc}, tags : Listings(Range(tags))] BY DEF Wish, Stored
<1> HIDE DEF tags, a
<1>3. IsFiniteSet(Range(tags)) /\ Range(tags) \in SUBSET TagType BY <1>1, SeqRange
<1>4. Unique(Range(tags)) BY <1>1, <1>2, AcceptedUnique
<1>5. e.tags \in Seq(TagType) /\ Range(e.tags) = Range(tags) /\ Accepted(e.tags)
  BY <1>2, <1>3, <1>4, ListingOf
<1>6. a.doc \in Doc BY DEF Asked, a
<1> QED BY <1>1, <1>2, <1>5, <1>6 DEF Tagged, a

(* Tags changed by hand: the others stay, and no key comes twice.          *)
LEMMA ByHandFacts ==
    ASSUME NEW n \in Name, Tagged(entity[n]), NEW k \in Key, NEW V \in SUBSET (Value \cup Doc),
           NEW v, V = {v} \/ V = {},
           NEW l \in Listings(Without(n, k) \cup {Tag(k, x) : x \in V})
    PROVE  /\ l \in Seq(TagType) /\ Accepted(l)
           /\ \A t : t.key # k => (t \in Range(l) <=> t \in Range(entity[n].tags))
<1> DEFINE T == Without(n, k) \cup {Tag(k, x) : x \in V}
<1>1. entity[n].tags \in Seq(TagType) /\ Accepted(entity[n].tags) BY DEF Tagged
<1>2. /\ IsFiniteSet(Range(entity[n].tags)) /\ Range(entity[n].tags) \in SUBSET TagType
      /\ Unique(Range(entity[n].tags))
  BY <1>1, SeqRange, AcceptedUnique
<1>3. IsFiniteSet(Without(n, k)) /\ Without(n, k) \in SUBSET TagType /\ Unique(Without(n, k))
  BY <1>2, FS_Subset DEF Without, TagsOf, Unique
<1>4. \A t \in Without(n, k) : t.key # k BY DEF Without
<1>5. \A x \in V : Tag(k, x) \in TagType /\ Tag(k, x).key = k BY DEF TagType, Tag
<1>6. IsFiniteSet(T) /\ T \in SUBSET TagType /\ Unique(T)
  <2>1. CASE V = {}
    <3>1. T = Without(n, k) BY <2>1
    <3> QED BY <1>3, <3>1
  <2>2. CASE V = {v}
    <3>1. T = Without(n, k) \cup {Tag(k, v)} /\ v \in V BY <2>2
    <3>2. IsFiniteSet(T) BY <1>3, <3>1, FS_AddElement
    <3>3. T \in SUBSET TagType BY <1>3, <1>5, <3>1
    <3>4. Unique(T) BY <1>3, <1>4, <1>5, <3>1 DEF Unique
    <3> QED BY <3>2, <3>3, <3>4
  <2> QED BY <2>1, <2>2
<1>7. l \in Seq(TagType) /\ Range(l) = T /\ Accepted(l) BY <1>6, ListingOf
<1>8. \A t : t.key # k => (t \in T <=> t \in Range(entity[n].tags))
  BY <1>5 DEF Without, TagsOf
<1> QED BY <1>7, <1>8

TagInv == /\ asked \in [Name -> Asked \cup {None}]
          /\ DOMAIN entity = Name
          /\ \A n \in Name : entity[n] # None => Tagged(entity[n])

(* The checksum a policy is listed with is that of its document.           *)
ChecksumInv == \A n \in Name :
                  entity[n] # None => NewChecksumTag(entity[n].doc) \in Range(entity[n].tags)

(* A step gives at most one policy other tags or another document.         *)
LEMMA Replaced ==
    ASSUME TagInv, NEW n \in Name, NEW e, entity' = [entity EXCEPT ![n] = e],
           e = None \/ Tagged(e)
    PROVE  /\ DOMAIN entity' = Name
           /\ \A m \in Name : entity'[m] = IF m = n THEN e ELSE entity[m]
           /\ \A m \in Name : entity'[m] # None => Tagged(entity'[m])
BY DEF TagInv

LEMMA ByHandStep ==
    ASSUME TagInv, NEW n \in Name, entity[n] # None, NEW k \in Retagged,
           NEW V \in SUBSET (Value \cup Doc), NEW v, V = {v} \/ V = {},
           NEW l \in Listings(Without(n, k) \cup {Tag(k, x) : x \in V}),
           entity' = [entity EXCEPT ![n].tags = l]
    PROVE  /\ DOMAIN entity' = Name
           /\ \A m \in Name : entity'[m] # None => Tagged(entity'[m])
           /\ \A m \in Name \ {n} : entity'[m] = entity[m]
           /\ entity'[n].doc = entity[n].doc
           /\ \A t : t.key # k => (t \in Range(entity'[n].tags) <=> t \in Range(entity[n].tags))
<1> DEFINE e == [entity[n] EXCEPT !.tags = l]
<1>1. Tagged(entity[n]) /\ k \in Key BY TagsAssumption DEF TagInv
<1>2. /\ l \in Seq(TagType) /\ Accepted(l)
      /\ \A t : t.key # k => (t \in Range(l) <=> t \in Range(entity[n].tags))
  BY <1>1, ByHandFacts
<1>3. entity[n] \in [doc : Doc, tags : Seq(TagType)] BY <1>1 DEF Tagged
<1>4. e.doc = entity[n].doc /\ e.tags = l /\ e \in [doc : Doc, tags : Seq(TagType)]
  BY <1>2, <1>3
<1>5. entity' = [entity EXCEPT ![n] = e] OBVIOUS
<1>6. Tagged(e) BY <1>2, <1>4 DEF Tagged
<1> HIDE DEF e
<1>7. /\ DOMAIN entity' = Name
      /\ \A m \in Name : entity'[m] = IF m = n THEN e ELSE entity[m]
      /\ \A m \in Name : entity'[m] # None => Tagged(entity'[m])
  BY <1>5, <1>6, Replaced
<1> QED BY <1>2, <1>4, <1>7

LEMMA SyncStep ==
    ASSUME TagInv, NEW n \in Name, Sync(n)
    PROVE  /\ UNCHANGED asked
           /\ DOMAIN entity' = Name
           /\ \A m \in Name : entity'[m] # None => Tagged(entity'[m])
           /\ \A m \in Name \ {n} : entity'[m] = entity[m]
           /\ entity'[n] # None => NewChecksumTag(entity'[n].doc) \in Range(entity'[n].tags)
<1>1. asked[n] \in Asked BY DEF TagInv, Sync
<1>2. PICK e \in Wish(n) : entity' = [entity EXCEPT ![n] = e] BY DEF Sync
<1>3. e # None => Tagged(e) /\ NewChecksumTag(e.doc) \in Range(e.tags) BY <1>1, WishFacts
<1> QED BY <1>2, <1>3, Replaced DEF Sync

LEMMA PruneStep ==
    ASSUME TagInv, NEW n \in Name, NEW o \in Owner, Prune(n, o)
    PROVE  /\ UNCHANGED asked
           /\ DOMAIN entity' = Name
           /\ \A m \in Name : entity'[m] # None => Tagged(entity'[m])
           /\ \A m \in Name \ {n} : entity'[m] = entity[m]
           /\ entity'[n] = None
BY Replaced DEF Prune

(* What others change by hand in one step.                                 *)
ByHand(n) ==
    \E k \in Retagged :
      /\ DOMAIN entity' = Name
      /\ \A m \in Name : entity'[m] # None => Tagged(entity'[m])
      /\ \A m \in Name \ {n} : entity'[m] = entity[m]
      /\ entity'[n].doc = entity[n].doc
      /\ \A t : t.key # k => (t \in Range(entity'[n].tags) <=> t \in Range(entity[n].tags))

LEMMA UserStep ==
    ASSUME TagInv, NEW n \in Name, Retag(n) \/ Untag(n)
    PROVE  UNCHANGED asked /\ entity[n] # None /\ ByHand(n)
<1>1. CASE Retag(n)
  <2>1. PICK k \in Retagged, v \in Value :
          \E l \in Listings(Without(n, k) \cup {Tag(k, v)}) : entity' = [entity EXCEPT ![n].tags = l]
    BY <1>1 DEF Retag
  <2>2. {Tag(k, x) : x \in {v}} = {Tag(k, v)} OBVIOUS
  <2>3. PICK l \in Listings(Without(n, k) \cup {Tag(k, x) : x \in {v}}) :
          entity' = [entity EXCEPT ![n].tags = l]
    BY <2>1, <2>2
  <2>4. {v} \in SUBSET (Value \cup Doc) BY <2>1
  <2> QED BY <1>1, <2>3, <2>4, ByHandStep DEF Retag, ByHand
<1>2. CASE Untag(n)
  <2>1. PICK k \in Retagged :
          \E l \in Listings(Without(n, k)) : entity' = [entity EXCEPT ![n].tags = l]
    BY <1>2 DEF Untag
  <2>2. Without(n, k) \cup {Tag(k, x) : x \in {}} = Without(n, k) OBVIOUS
  <2>3. PICK l \in Listings(Without(n, k) \cup {Tag(k, x) : x \in {}}) :
          entity' = [entity EXCEPT ![n].tags = l]
    BY <2>1, <2>2
  <2>4. {} \in SUBSET (Value \cup Doc) OBVIOUS
  <2> QED BY <1>2, <2>3, <2>4, ByHandStep DEF Untag, ByHand
<1> QED BY <1>1, <1>2

LEMMA AskStep ==
    ASSUME TagInv, NEW n \in Name, Ask(n)
    PROVE  UNCHANGED entity /\ asked' \in [Name -> Asked \cup {None}]
BY DEF TagInv, Ask

LEMMA NextTagInv == TagInv /\ [Next]_vars => TagInv'
<1> SUFFICES ASSUME TagInv, [Next]_vars PROVE TagInv' OBVIOUS
<1>1. CASE UNCHANGED vars BY <1>1 DEF TagInv, vars, Tagged
<1>2. ASSUME NEW n \in Name, Sync(n) PROVE TagInv' BY <1>2, SyncStep DEF TagInv
<1>3. ASSUME NEW n \in Name, NEW o \in Owner, Prune(n, o) PROVE TagInv'
  BY <1>3, PruneStep DEF TagInv
<1>4. ASSUME NEW n \in Name, Ask(n) PROVE TagInv' BY <1>4, AskStep DEF TagInv
<1>5. ASSUME NEW n \in Name, Retag(n) \/ Untag(n) PROVE TagInv'
  BY <1>5, UserStep DEF TagInv, ByHand
<1> QED BY <1>1, <1>2, <1>3, <1>4, <1>5 DEF Next

(* IAM lists no key twice, whatever is created and changed by hand.        *)
THEOREM TagInvariance == Spec => []TagInv
<1>1. Init => TagInv BY DEF Init, TagInv
<1> QED BY <1>1, NextTagInv, PTL DEF Spec

----------------------------------------------------------------------------
(* The listings *)

LEMMA OwnTags ==
    ASSUME NEW o \in Owner
    PROVE  LET want == TagsDefine(o, <<>>)
           IN /\ want \in Seq(TagType) /\ Once(want) /\ DOMAIN want = {1, 2}
              /\ want[1] = Tag("cluster", o.cluster) /\ want[2] = Tag("namespace", o.namespace)
<1> DEFINE own == <<Tag("cluster", o.cluster), Tag("namespace", o.namespace)>>
<1>1. TagsDefine(o, <<>>) = own
  <2>1. own \in Seq({Tag("cluster", o.cluster), Tag("namespace", o.namespace)}) OBVIOUS
  <2> QED BY <2>1, ConcatEmptySeq DEF TagsDefine
<1>2. Tag("cluster", o.cluster) \in TagType /\ Tag("namespace", o.namespace) \in TagType
  BY DEF Tag, TagType, Key, Owner
<1>3. own \in Seq(TagType) /\ DOMAIN own = {1, 2}
  <2> HIDE DEF TagType
  <2> QED BY <1>2
<1>4. Tag("cluster", o.cluster) # Tag("namespace", o.namespace) BY DEF Tag
<1>5. Once(own) BY <1>3, <1>4 DEF Once
<1>6. own[1] = Tag("cluster", o.cluster) /\ own[2] = Tag("namespace", o.namespace) OBVIOUS
<1> HIDE DEF own
<1> QED BY <1>1, <1>3, <1>5, <1>6

LEMMA PageFacts ==
    ASSUME NEW n \in Name, Tagged(entity[n])
    PROVE  /\ Page(n) \in Seq(TagType) /\ Once(Page(n))
           /\ Range(Page(n)) \subseteq Range(TagsOf(n))
           /\ Len(TagsOf(n)) <= PageSize => Page(n) = TagsOf(n)
<1> DEFINE s == TagsOf(n)
           m == IF Len(s) < PageSize THEN Len(s) ELSE PageSize
<1>1. s \in Seq(TagType) /\ Once(s) BY AcceptedUnique DEF Tagged, TagsOf
<1>2. Len(s) \in Nat /\ DOMAIN s = 1 .. Len(s) /\ m \in Nat /\ m <= Len(s)
  BY <1>1, TagsAssumption
<1>3. Len(s) <= PageSize => m = Len(s)
  <2>1. PageSize \in Nat BY TagsAssumption
  <2> DEFINE len == Len(s)
  <2>2. len \in Nat BY <1>2
  <2> HIDE DEF len
  <2>3. len <= PageSize => (IF len < PageSize THEN len ELSE PageSize) = len BY <2>1, <2>2
  <2> QED BY <2>3 DEF len
<1> HIDE DEF s, m
<1>4. Page(n) = SubSeq(s, 1, m) BY DEF Page, s, m
<1>5. /\ Page(n) \in Seq(TagType) /\ DOMAIN Page(n) = 1 .. m
      /\ \A i \in 1 .. m : Page(n)[i] = s[i]
  BY <1>1, <1>2, <1>4, SubSeqProperties
<1>6. 1 .. m \subseteq DOMAIN s BY <1>2
<1>7. Len(s) <= PageSize => Page(n) = s BY <1>1, <1>4, <1>3, SubSeqFull
<1> QED BY <1>1, <1>5, <1>6, <1>7 DEF Once, Range, s

(* A policy is listed for o exactly when the page read has both its tags.  *)
LEMMA ListedWhen ==
    ASSUME TagInv, NEW n \in Name, entity[n] # None, NEW o \in Owner
    PROVE  n \in ListByTags(o)
             <=> \A k \in {"cluster", "namespace"} : Tag(k, o[k]) \in Range(Page(n))
<1> DEFINE want == TagsDefine(o, <<>>)
<1>1. Tagged(entity[n]) BY DEF TagInv
<1>2. Page(n) \in Seq(TagType) /\ Once(Page(n)) BY <1>1, PageFacts
<1>3. /\ want \in Seq(TagType) /\ Once(want) /\ DOMAIN want = {1, 2}
      /\ want[1] = Tag("cluster", o.cluster) /\ want[2] = Tag("namespace", o.namespace)
  BY OwnTags
<1>4. n \in ListByTags(o) <=> getSimilarTags(want, Page(n)) = want
  BY DEF ListByTags, compareTags
<1> HIDE DEF want
<1>5. n \in ListByTags(o) <=> \A i \in DOMAIN want : want[i] \in Range(Page(n))
  BY <1>2, <1>3, <1>4, SimilarTags
<1> QED BY <1>3, <1>5

(* Nothing is listed for a cluster and a namespace, and so nothing pruned,  *)
(* that its tags do not name, on whatever page they stand.                 *)
THEOREM ListsOwnOnlyHolds == Spec => []ListsOwnOnly
<1>1. ASSUME TagInv, NEW o \in Owner, NEW n \in ListByTags(o) PROVE Says(n, o)
  <2>1. n \in Name /\ entity[n] # None BY DEF ListByTags
  <2>2. \A k \in {"cluster", "namespace"} : Tag(k, o[k]) \in Range(Page(n))
    BY <1>1, <2>1, ListedWhen
  <2>3. Range(Page(n)) \subseteq Range(TagsOf(n)) BY <1>1, <2>1, PageFacts DEF TagInv
  <2> QED BY <2>1, <2>2, <2>3 DEF Says
<1>2. TagInv => ListsOwnOnly BY <1>1 DEF ListsOwnOnly
<1> QED BY <1>2, TagInvariance, PTL

(* What the tags name is listed, whatever other tags stand between and in   *)
(* whatever order, as long as all of them fit the page that is read.       *)
THEOREM ListsAllOwnHolds == Spec => []ListsAllOwn
<1>1. ASSUME TagInv, NEW n \in Name, NEW o \in Owner, Says(n, o), Len(TagsOf(n)) <= PageSize
      PROVE  n \in ListByTags(o)
  <2>1. entity[n] # None BY <1>1 DEF Says
  <2>2. Page(n) = TagsOf(n) BY <1>1, <2>1, PageFacts DEF TagInv
  <2> QED BY <1>1, <2>1, <2>2, ListedWhen DEF Says
<1>2. TagInv => ListsAllOwn BY <1>1 DEF ListsAllOwn
<1> QED BY <1>2, TagInvariance, PTL

----------------------------------------------------------------------------
(* The checksum *)

LEMMA NextChecksum ==
    "checksum" \notin Retagged => (TagInv /\ ChecksumInv /\ [Next]_vars => ChecksumInv')
<1> SUFFICES ASSUME "checksum" \notin Retagged, TagInv, ChecksumInv, [Next]_vars
             PROVE  ChecksumInv'
  OBVIOUS
<1>1. CASE UNCHANGED vars BY <1>1 DEF ChecksumInv, vars, NewChecksumTag
<1>2. ASSUME NEW n \in Name, Sync(n) PROVE ChecksumInv' BY <1>2, SyncStep DEF ChecksumInv
<1>3. ASSUME NEW n \in Name, NEW o \in Owner, Prune(n, o) PROVE ChecksumInv'
  BY <1>3, PruneStep DEF ChecksumInv
<1>4. ASSUME NEW n \in Name, Ask(n) PROVE ChecksumInv' BY <1>4, AskStep DEF ChecksumInv
<1>5. ASSUME NEW n \in Name, Retag(n) \/ Untag(n) PROVE ChecksumInv'
  <2>1. entity[n] # None /\ ByHand(n) BY <1>5, UserStep
  <2>2. \A doc : NewChecksumTag(doc).key = "checksum" BY DEF NewChecksumTag, Tag
  <2>3. /\ \A m \in Name \ {n} : entity'[m] = entity[m]
        /\ entity'[n].doc = entity[n].doc
        /\ \A t : t.key = "checksum" => (t \in Range(entity'[n].tags) <=> t \in Range(entity[n].tags))
    BY <2>1 DEF ByHand
  <2> QED BY <2>1, <2>2, <2>3 DEF ChecksumInv
<1> QED BY <1>1, <1>2, <1>3, <1>4, <1>5 DEF Next

(* The checksum tells a changed document from one in place, after any edits *)
(* and replacements, as long as nobody else changes that tag.              *)
THEOREM ChecksumTellsHolds == ASSUME "checksum" \notin Retagged PROVE Spec => []ChecksumTells
<1>1. Init => ChecksumInv BY DEF Init, ChecksumInv
<1>2. TagInv /\ ChecksumInv /\ [Next]_vars => ChecksumInv' BY NextChecksum
<1>3. ASSUME TagInv, ChecksumInv PROVE ChecksumTells
  <2>1. SUFFICES ASSUME NEW n \in Name, entity[n] # None, asked[n] # None
                 PROVE  Outdated(n) <=> entity[n].doc # asked[n].doc
    BY DEF ChecksumTells
  <2> DEFINE s == TagsOf(n)
  <2>2. NewChecksumTag(entity[n].doc) \in Range(s) /\ Unique(Range(s))
    BY <1>3, <2>1, AcceptedUnique DEF ChecksumInv, TagInv, Tagged, TagsOf
  <2>3. \A d : NewChecksumTag(d).key = "checksum" BY DEF NewChecksumTag, Tag
  <2>4. Outdated(n) <=> \E t \in Range(s) : t.key = "checksum" /\ t # NewChecksumTag(asked[n].doc)
    BY DEF Outdated, Range
  <2>5. Outdated(n) <=> NewChecksumTag(entity[n].doc) # NewChecksumTag(asked[n].doc)
    BY <2>2, <2>3, <2>4 DEF Unique
  <2> QED BY <2>5 DEF NewChecksumTag, Tag
<1> QED BY <1>1, <1>2, <1>3, TagInvariance, PTL DEF Spec
=============================================================================
