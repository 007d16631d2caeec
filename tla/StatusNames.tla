----------------------------- MODULE StatusNames -----------------------------
(***************************************************************************)
(* A list of the status as Reconciler sees it: the set of the names in it. *)
(* A report about a name puts it in when IAM has the entity and takes it   *)
(* out when IAM does not.  StatusList implements it.                       *)
(***************************************************************************)
CONSTANT Name  \* names of the entities of one kind, roles or policies

VARIABLES
    listed,  \* the names in the list
    there    \* the entities IAM has

vars == <<listed, there>>

Init == listed = {} /\ there = {}

Report(n) == /\ listed' = IF n \in there THEN listed \cup {n} ELSE listed \ {n}
             /\ UNCHANGED there

Account == there' \in SUBSET Name /\ UNCHANGED listed

Next == (\E n \in Name : Report(n)) \/ Account

Spec == Init /\ [][Next]_vars
=============================================================================
