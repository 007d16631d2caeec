----------------------------- MODULE StatusList -----------------------------
(***************************************************************************)
(* status.roles and status.policies as updateCRDStatus writes them          *)
(* (internal/controller/status_formatter.go): lists of entries, one of     *)
(* which is replaced where it stands, appended, or cut out.  Both lists    *)
(* are kept by the same code; one of them is modelled, and of an entry its *)
(* name and its phase.                                                     *)
(*                                                                         *)
(* Reconciler keeps only the set of names (StatusNames); a status update   *)
(* that fails leaves the list as it is, and is modelled there.             *)
(***************************************************************************)
EXTENDS Integers, Sequences

CONSTANTS
    Name,   \* names of the entities of one kind, roles or policies
    Phase   \* what is said of an entity: Created, Attached, Updated, ...

VARIABLES
    list,   \* the entries, in the order the status shows them
    there   \* the entities IAM has

vars == <<list, there>>

Entry == [name : Name, phase : Phase]

TypeOK == list \in Seq(Entry) /\ there \subseteq Name

Init == list = <<>> /\ there = {}

----------------------------------------------------------------------------
(* Where the list has an entry of that name.                               *)
Places(n) == {i \in DOMAIN list : list[i].name = n}

(* The loops over the list stop at the first.                              *)
Num(n) == CHOOSE i \in Places(n) : \A j \in Places(n) : i <= j

(* Broken variant of Put: an entry that is there is not looked for.        *)
PutAgain(e) == Append(list, e)

Put(e) == IF Places(e.name) # {} THEN [list EXCEPT ![Num(e.name)] = e] ELSE Append(list, e)

(* Broken variants of Cut: the last entry takes the place of the one cut   *)
(* out; the entry after it goes as well.                                   *)
CutBySwap(i) == SubSeq([list EXCEPT ![i] = list[Len(list)]], 1, Len(list) - 1)
CutTwo(i)    == SubSeq(list, 1, i - 1) \o SubSeq(list, i + 2, Len(list))

Cut(i) == SubSeq(list, 1, i - 1) \o SubSeq(list, i + 1, Len(list))

Report(n, ph) ==
    /\ \/ n \in there /\ list' = Put([name |-> n, phase |-> ph])
       \/ n \notin there /\ Places(n) # {} /\ list' = Cut(Num(n))
       \/ n \notin there /\ Places(n) = {} /\ UNCHANGED list
    /\ UNCHANGED there

(* Entities are created and deleted, by the operator and by others.        *)
Account == there' \in SUBSET Name /\ UNCHANGED list

Next == (\E n \in Name, ph \in Phase : Report(n, ph)) \/ Account

Spec == Init /\ [][Next]_vars

----------------------------------------------------------------------------
(* Properties *)

(* No name is listed twice, so that cutting out its first entry makes it    *)
(* disappear.                                                              *)
NoTwice == \A i, j \in DOMAIN list : list[i].name = list[j].name => i = j

(* A report moves and changes no entry but its own: of all others the same *)
(* are listed, in the same order (an entry that is listed is InOrder with  *)
(* itself).                                                                *)
InOrder(s, d, e) == \E i, j \in DOMAIN s : i <= j /\ s[i] = d /\ s[j] = e
OthersKept ==
    [][\E n \in Name : \A d, e \in Entry :
         d.name # n /\ e.name # n => (InOrder(list', d, e) <=> InOrder(list, d, e))]_list

(* The list is the set of names that Reconciler keeps.                     *)
Names == INSTANCE StatusNames WITH listed <- {list[i].name : i \in DOMAIN list}
NamesImplemented == Names!Spec
=============================================================================
