--------------------------- MODULE StatusListProof ---------------------------
(***************************************************************************)
(* The lists of the status hold no name twice, keep the entries a report   *)
(* is not about, and implement the set of names Reconciler keeps, for any  *)
(* names and phases.                                                       *)
(***************************************************************************)
EXTENDS StatusList, SequenceTheorems, TLAPS

Inv == TypeOK /\ NoTwice

NamesIn(s) == {s[i].name : i \in DOMAIN s}

(* The place found is the one place of the name.                           *)
LEMMA NumPlace ==
    ASSUME Inv, NEW n \in Name, Places(n) # {}
    PROVE  Places(n) = {Num(n)}
<1>1. PICK k \in Places(n) : TRUE OBVIOUS
<1>2. Places(n) = {k} BY <1>1 DEF Places, Inv, NoTwice
<1>3. k \in Int BY <1>1 DEF Places, Inv, TypeOK
<1> QED BY <1>2, <1>3 DEF Num

(* Replacing an entry or appending one.                                    *)
LEMMA PutStep ==
    ASSUME Inv, NEW e \in Entry, list' = Put(e), there' \subseteq Name
    PROVE  Inv' /\ NamesIn(list)' = NamesIn(list) \cup {e.name}
<1> USE DEF Inv, TypeOK, NoTwice, NamesIn
<1>1. CASE Places(e.name) # {}
  <2>1. Places(e.name) = {Num(e.name)} BY <1>1, NumPlace DEF Entry
  <2>2. Num(e.name) \in DOMAIN list /\ list[Num(e.name)].name = e.name BY <2>1 DEF Places
  <2>3. list' = [list EXCEPT ![Num(e.name)] = e] BY <1>1 DEF Put
  <2>4. /\ list' \in Seq(Entry)
        /\ DOMAIN list' = DOMAIN list
        /\ \A i \in DOMAIN list : list'[i].name = list[i].name
    BY <2>2, <2>3
  <2>5. NamesIn(list)' = NamesIn(list) BY <2>4
  <2>6. e.name \in NamesIn(list) BY <2>2
  <2> QED BY <2>4, <2>5, <2>6
<1>2. CASE Places(e.name) = {}
  <2>1. list' = Append(list, e) BY <1>2 DEF Put
  <2>2. /\ list' \in Seq(Entry)
        /\ DOMAIN list' = 1 .. Len(list) + 1
        /\ \A i \in DOMAIN list : list'[i] = list[i]
        /\ list'[Len(list) + 1] = e
    BY <2>1
  <2>3. \A i \in DOMAIN list : list[i].name # e.name BY <1>2 DEF Places
  <2>4. NamesIn(list)' = NamesIn(list) \cup {e.name} BY <2>2
  <2>5. NoTwice' BY <2>2, <2>3
  <2> QED BY <2>2, <2>4, <2>5
<1> QED BY <1>1, <1>2

(* The list without its k-th entry: those after it move up.                *)
LEMMA CutShape ==
    ASSUME list \in Seq(Entry), NEW k \in 1 .. Len(list), list' = Cut(k)
    PROVE  /\ list' \in Seq(Entry) /\ DOMAIN list' = 1 .. Len(list) - 1
           /\ \A i \in 1 .. Len(list) - 1 : list'[i] = IF i < k THEN list[i] ELSE list[i + 1]
<1> DEFINE a == SubSeq(list, 1, k - 1)
           b == SubSeq(list, k + 1, Len(list))
<1>1. /\ a \in Seq(Entry) /\ Len(a) = k - 1 /\ \A i \in 1 .. k - 1 : a[i] = list[i]
      /\ b \in Seq(Entry) /\ Len(b) = Len(list) - k
      /\ \A i \in 1 .. Len(list) - k : b[i] = list[k + i]
      /\ list' = a \o b
  BY DEF Cut
<1> HIDE DEF a, b
<1>2. /\ list' \in Seq(Entry) /\ DOMAIN list' = 1 .. Len(list) - 1
      /\ \A i \in 1 .. Len(list) - 1 : list'[i] = IF i < k THEN a[i] ELSE b[i - (k - 1)]
  <2>1. /\ a \o b \in Seq(Entry)
        /\ Len(a \o b) = Len(a) + Len(b)
        /\ \A i \in 1 .. Len(a) + Len(b) :
             (a \o b)[i] = IF i <= Len(a) THEN a[i] ELSE b[i - Len(a)]
    <3>1. a \in Seq(Entry) /\ b \in Seq(Entry) BY <1>1
    <3> QED BY <3>1, ConcatProperties, Zenon
  <2>2. Len(a) + Len(b) = Len(list) - 1 BY <1>1
  <2>3. \A i \in 1 .. Len(list) - 1 : i <= k - 1 <=> i < k OBVIOUS
  <2>4. DOMAIN list' = 1 .. Len(list') BY <1>1, <2>1
  <2> QED BY <1>1, <2>1, <2>2, <2>3, <2>4
<1>3. ASSUME NEW i \in 1 .. Len(list) - 1, ~(i < k) PROVE b[i - (k - 1)] = list[i + 1]
  <2>1. i - (k - 1) \in 1 .. Len(list) - k /\ k + (i - (k - 1)) = i + 1 BY <1>3
  <2> QED BY <1>1, <2>1
<1>4. \A i \in 1 .. Len(list) - 1 : i < k => i \in 1 .. k - 1 OBVIOUS
<1> QED BY <1>1, <1>2, <1>3, <1>4

(* Cutting an entry out.                                                   *)
LEMMA CutStep ==
    ASSUME Inv, NEW n \in Name, Places(n) # {}, list' = Cut(Num(n)), there' \subseteq Name
    PROVE  Inv' /\ NamesIn(list)' = NamesIn(list) \ {n}
<1> USE DEF Inv, TypeOK, NoTwice, NamesIn
<1> DEFINE k == Num(n)
<1>1. k \in DOMAIN list /\ list[k].name = n /\ \A i \in DOMAIN list : list[i].name = n => i = k
  BY NumPlace DEF Places
<1>2. k \in 1 .. Len(list) BY <1>1
<1> HIDE DEF k
<1>3. /\ list' \in Seq(Entry) /\ DOMAIN list' = 1 .. Len(list) - 1
      /\ \A i \in 1 .. Len(list) - 1 : list'[i] = IF i < k THEN list[i] ELSE list[i + 1]
  BY <1>2, CutShape DEF k
<1>4. NoTwice' BY <1>2, <1>3
<1>5. NamesIn(list)' \subseteq NamesIn(list) \ {n} BY <1>1, <1>2, <1>3
<1>6. ASSUME NEW i \in DOMAIN list, list[i].name # n PROVE list[i].name \in NamesIn(list)'
  <2>1. i # k BY <1>1, <1>6
  <2>2. CASE i < k
    <3>1. i \in 1 .. Len(list) - 1 BY <1>2, <2>2
    <3> QED BY <1>3, <2>2, <3>1
  <2>3. CASE i > k
    <3>1. i - 1 \in 1 .. Len(list) - 1 /\ ~(i - 1 < k) /\ (i - 1) + 1 = i BY <1>2, <2>3
    <3> QED BY <1>3, <3>1
  <2> QED BY <1>2, <2>1, <2>2, <2>3
<1>7. NamesIn(list) \ {n} \subseteq NamesIn(list)' BY <1>6
<1> QED BY <1>3, <1>4, <1>5, <1>7

(* Every step keeps the list free of doubles and is a step of StatusNames. *)
LEMMA ListStep ==
    ASSUME Inv, [Next]_vars PROVE Inv' /\ [Names!Next]_Names!vars
<1>1. ASSUME NEW n \in Name, NEW ph \in Phase, Report(n, ph) PROVE Inv' /\ Names!Report(n)
  <2> DEFINE e == [name |-> n, phase |-> ph]
  <2>1. e \in Entry /\ e.name = n BY DEF Entry
  <2>2. there' = there /\ there' \subseteq Name BY <1>1 DEF Report, Inv, TypeOK
  <2>3. CASE n \in there /\ list' = Put(e)
    <3> HIDE DEF e
    <3> QED BY <2>1, <2>2, <2>3, PutStep DEF Names!Report, NamesIn
  <2>4. CASE n \notin there /\ Places(n) # {} /\ list' = Cut(Num(n))
    BY <2>2, <2>4, CutStep DEF Names!Report, NamesIn
  <2>5. CASE n \notin there /\ Places(n) = {} /\ UNCHANGED list
    BY <2>2, <2>5 DEF Names!Report, Inv, TypeOK, NoTwice, Places
  <2> QED BY <1>1, <2>3, <2>4, <2>5 DEF Report
<1>2. CASE Account BY <1>2 DEF Account, Names!Next, Names!Account, Inv, TypeOK, NoTwice
<1>3. CASE UNCHANGED vars BY <1>3 DEF vars, Names!vars, Inv, TypeOK, NoTwice
<1> QED BY <1>1, <1>2, <1>3 DEF Next, Names!Next

(* The invariant holds at the start and at every step.                     *)
THEOREM ListInvariance == Spec => []Inv
<1>1. Init => Inv BY DEF Init, Inv, TypeOK, NoTwice
<1>2. Inv /\ [Next]_vars => Inv' BY ListStep
<1> QED BY <1>1, <1>2, PTL DEF Spec

(* No name is ever listed twice.                                           *)
THEOREM NoTwiceHolds == Spec => []NoTwice
<1>1. Inv => NoTwice BY DEF Inv
<1> QED BY <1>1, ListInvariance, PTL

(* What a report does to the entries of other names.                       *)
OthersSame(n) ==
    \A d, e \in Entry :
        d.name # n /\ e.name # n => (InOrder(list', d, e) <=> InOrder(list, d, e))

LEMMA PutOthers ==
    ASSUME Inv, NEW e \in Entry, list' = Put(e) PROVE OthersSame(e.name)
<1>1. list \in Seq(Entry) BY DEF Inv, TypeOK
<1>2. CASE Places(e.name) # {}
  <2>1. Places(e.name) = {Num(e.name)} BY <1>2, NumPlace DEF Entry
  <2>2. Num(e.name) \in DOMAIN list /\ list[Num(e.name)].name = e.name BY <2>1 DEF Places
  <2>3. list' = [list EXCEPT ![Num(e.name)] = e] BY <1>2 DEF Put
  <2>4. /\ DOMAIN list' = DOMAIN list
        /\ \A i \in DOMAIN list : list'[i] = IF i = Num(e.name) THEN e ELSE list[i]
    BY <1>1, <2>2, <2>3
  <2> QED BY <2>2, <2>4 DEF OthersSame, InOrder
<1>3. CASE Places(e.name) = {}
  <2>1. list' = Append(list, e) BY <1>3 DEF Put
  <2>2. /\ DOMAIN list = 1 .. Len(list) /\ DOMAIN list' = 1 .. Len(list) + 1 /\ Len(list) \in Nat
        /\ \A i \in DOMAIN list : list'[i] = list[i]
        /\ list'[Len(list) + 1] = e
    BY <1>1, <2>1
  <2>3. \A i \in DOMAIN list' : list'[i].name # e.name => i \in DOMAIN list BY <2>2
  <2>4. \A i \in DOMAIN list : i \in DOMAIN list' BY <2>2
  <2> QED BY <2>2, <2>3, <2>4 DEF OthersSame, InOrder
<1> QED BY <1>2, <1>3

LEMMA CutOthers ==
    ASSUME Inv, NEW n \in Name, Places(n) # {}, list' = Cut(Num(n)) PROVE OthersSame(n)
<1> DEFINE k == Num(n)
<1>1. k \in DOMAIN list /\ list[k].name = n /\ list \in Seq(Entry)
  BY NumPlace DEF Places, Inv, TypeOK
<1>2. k \in 1 .. Len(list) /\ DOMAIN list = 1 .. Len(list) /\ Len(list) \in Nat BY <1>1
<1> HIDE DEF k
<1>3. /\ DOMAIN list' = 1 .. Len(list) - 1
      /\ \A i \in 1 .. Len(list) - 1 : list'[i] = IF i < k THEN list[i] ELSE list[i + 1]
  BY <1>1, <1>2, CutShape DEF k
<1>4. ASSUME NEW d \in Entry, NEW e \in Entry, InOrder(list', d, e) PROVE InOrder(list, d, e)
  <2>1. PICK i, j \in DOMAIN list' : i <= j /\ list'[i] = d /\ list'[j] = e BY <1>4 DEF InOrder
  <2> DEFINE from(x) == IF x < k THEN x ELSE x + 1
  <2>2. from(i) \in DOMAIN list /\ from(j) \in DOMAIN list /\ from(i) <= from(j)
    BY <1>2, <1>3, <2>1
  <2>3. list[from(i)] = d /\ list[from(j)] = e BY <1>2, <1>3, <2>1
  <2> QED BY <2>2, <2>3 DEF InOrder
<1>5. ASSUME NEW d \in Entry, NEW e \in Entry, d.name # n, e.name # n, InOrder(list, d, e)
      PROVE  InOrder(list', d, e)
  <2>1. PICK i, j \in DOMAIN list : i <= j /\ list[i] = d /\ list[j] = e BY <1>5 DEF InOrder
  <2>2. i # k /\ j # k BY <1>1, <1>5, <2>1
  <2> DEFINE to(x) == IF x < k THEN x ELSE x - 1
  <2>3. to(i) \in DOMAIN list' /\ to(j) \in DOMAIN list' /\ to(i) <= to(j)
    BY <1>2, <1>3, <2>1, <2>2
  <2>4. \A x \in DOMAIN list : x # k => list'[to(x)] = list[x]
    <3>1. ASSUME NEW x \in 1 .. Len(list), x > k PROVE list'[x - 1] = list[x]
      <4>1. x - 1 \in 1 .. Len(list) - 1 /\ ~(x - 1 < k) /\ (x - 1) + 1 = x BY <1>2, <3>1
      <4> QED BY <1>3, <4>1
    <3>2. ASSUME NEW x \in 1 .. Len(list), x < k PROVE list'[x] = list[x]
      <4>1. x \in 1 .. Len(list) - 1 BY <1>2, <3>2
      <4> QED BY <1>3, <3>2, <4>1
    <3> QED BY <1>2, <3>1, <3>2
  <2> QED BY <2>1, <2>2, <2>3, <2>4 DEF InOrder
<1> QED BY <1>4, <1>5 DEF OthersSame

(* A report about one entity neither loses, changes nor reorders the        *)
(* entries of the others.                                                  *)
THEOREM OthersKeptHolds == Spec => OthersKept
<1> DEFINE A == \E n \in Name : OthersSame(n)
<1>1. ASSUME Inv, Next PROVE A \/ UNCHANGED list
  <2>1. ASSUME NEW n \in Name, NEW ph \in Phase, Report(n, ph) PROVE A \/ UNCHANGED list
    <3> DEFINE e == [name |-> n, phase |-> ph]
    <3>1. e \in Entry /\ e.name = n BY DEF Entry
    <3>2. CASE list' = Put(e)
      <4> HIDE DEF e
      <4> QED BY <1>1, <3>1, <3>2, PutOthers
    <3>3. CASE Places(n) # {} /\ list' = Cut(Num(n)) BY <1>1, <3>3, CutOthers
    <3> QED BY <2>1, <3>2, <3>3 DEF Report
  <2> QED BY <1>1, <2>1 DEF Next, Account
<1>2. Inv /\ [Next]_vars => [\E n \in Name : OthersSame(n)]_list BY <1>1 DEF vars
<1>3. Spec => [][\E n \in Name : OthersSame(n)]_list BY <1>2, ListInvariance, PTL DEF Spec
<1> QED BY <1>3 DEF OthersKept, OthersSame

(* The list implements the set of names.                                   *)
THEOREM NamesImplementedHolds == Spec => NamesImplemented
<1>1. Init => Names!Init BY DEF Init, Names!Init
<1>2. Inv /\ [Next]_vars => [Names!Next]_Names!vars BY ListStep
<1> QED BY <1>1, <1>2, ListInvariance, PTL DEF Spec, NamesImplemented, Names!Spec
=============================================================================
