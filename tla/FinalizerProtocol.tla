------------------------- MODULE FinalizerProtocol -------------------------
(***************************************************************************)
(* What a controller that owns a finalizer promises to the users of its    *)
(* objects, without its cache, its queue, its local variables or the calls *)
(* it makes: what it provides for an object comes into being only behind   *)
(* the finalizer, and the finalizer goes only when nothing the object then *)
(* asks for is left.  Reconciler implements it, with an object's roles for *)
(* what is provided (module ProtocolRefinement).                           *)
(***************************************************************************)
EXTENDS TLAPS

CONSTANTS
    Key,   \* keys of objects
    Name,  \* what a controller can provide
    Asks   \* Asks[c]: the sets of names the versions of object c may ask for

(* What the theorem below asks of the constants.                           *)
AsksTyped == Asks \in [Key -> SUBSET SUBSET Name]

VARIABLES
    stage,   \* how far each object is in its life
    asks,    \* what each object asks for now
    present  \* what the controller has provided and is still there

vars == <<stage, asks, present>>

(* open has no finalizer yet, guarded has it, dying has it and is deleted. *)
Stage == {"absent", "open", "guarded", "dying"}

TypeOK == /\ stage \in [Key -> Stage]
          /\ asks \in [Key -> SUBSET Name]
          /\ present \subseteq Name

Init == /\ stage = [c \in Key |-> "absent"]
        /\ asks = [c \in Key |-> {}]
        /\ present = {}

----------------------------------------------------------------------------
(* The users of the objects *)

Create(c) == /\ stage[c] = "absent"
             /\ stage' = [stage EXCEPT ![c] = "open"]
             /\ \E N \in Asks[c] : asks' = [asks EXCEPT ![c] = N]
             /\ UNCHANGED present

Edit(c) == /\ stage[c] # "absent"
           /\ \E N \in Asks[c] : asks' = [asks EXCEPT ![c] = N]
           /\ UNCHANGED <<stage, present>>

(* Without the finalizer the object is gone at once.                       *)
Delete(c) ==
    \/ /\ stage[c] = "open"
       /\ stage' = [stage EXCEPT ![c] = "absent"]
       /\ asks' = [asks EXCEPT ![c] = {}]
       /\ UNCHANGED present
    \/ /\ stage[c] = "guarded"
       /\ stage' = [stage EXCEPT ![c] = "dying"]
       /\ UNCHANGED <<asks, present>>

----------------------------------------------------------------------------
(* The controller *)

Guard(c) == /\ stage[c] = "open"
            /\ stage' = [stage EXCEPT ![c] = "guarded"]
            /\ UNCHANGED <<asks, present>>

(* Provide what some version of the object asked for, and remove anything. *)
Work(c) == /\ stage[c] \in {"guarded", "dying"}
           /\ present' \in SUBSET (present \cup UNION Asks[c])
           /\ UNCHANGED <<stage, asks>>

Release(c) == /\ stage[c] = "dying"
              /\ asks[c] \cap present = {}
              /\ stage' = [stage EXCEPT ![c] = "absent"]
              /\ asks' = [asks EXCEPT ![c] = {}]
              /\ UNCHANGED present

----------------------------------------------------------------------------
(* Others take away what the controller provided.                          *)
Others == /\ present' \in SUBSET present
          /\ UNCHANGED <<stage, asks>>

Next == \/ \E c \in Key : Create(c) \/ Edit(c) \/ Delete(c) \/ Guard(c) \/ Work(c) \/ Release(c)
        \/ Others

Spec == Init /\ [][Next]_vars

----------------------------------------------------------------------------
(* What follows *)

(* What every version of an object asks for, if any of them does.          *)
Steady == {n \in Name : \A c \in Key : n \in UNION Asks[c] => \A N \in Asks[c] : n \in N}

(* The objects that have the finalizer.                                    *)
Guarded == {c \in Key : stage[c] \in {"guarded", "dying"}}

(* Nothing is left behind: what users never take out of an object, nor put *)
(* into it later, is there only while an object that still has the         *)
(* finalizer asks for it, and so is removed with the last such object.     *)
NothingLeftBehind == present \cap Steady \subseteq UNION {asks[c] : c \in Guarded}

(* The inductive form of NothingLeftBehind: an object that is there asks   *)
(* for what its versions may ask for.                                      *)
AsksKnown == \A c \in Key : stage[c] # "absent" => asks[c] \in Asks[c]

(* Every step keeps the type of the three variables.                       *)
LEMMA TypeStep ==
    ASSUME AsksTyped, TypeOK, AsksKnown, [Next]_vars PROVE TypeOK' /\ AsksKnown'
<1> USE DEF AsksTyped, TypeOK, Stage, AsksKnown
<1>1. ASSUME NEW c \in Key, Create(c) \/ Edit(c) \/ Delete(c) PROVE TypeOK' /\ AsksKnown'
  BY <1>1 DEF Create, Edit, Delete
<1>2. ASSUME NEW c \in Key, Guard(c) \/ Work(c) \/ Release(c) PROVE TypeOK' /\ AsksKnown'
  <2>1. UNION Asks[c] \subseteq Name OBVIOUS
  <2> QED BY <1>2, <2>1 DEF Guard, Work, Release
<1>3. CASE Others BY <1>3 DEF Others
<1>4. CASE UNCHANGED vars BY <1>4 DEF vars
<1> QED BY <1>1, <1>2, <1>3, <1>4 DEF Next

(* The step of the theorem below, by the action that is taken.             *)
LEMMA NothingLeftStep ==
    ASSUME AsksTyped, TypeOK, AsksKnown, [Next]_vars, NothingLeftBehind
    PROVE  NothingLeftBehind'
<1> SUFFICES ASSUME NEW n \in present', n \in Steady
             PROVE  \E d \in Key : stage'[d] \in {"guarded", "dying"} /\ n \in asks'[d]
  BY DEF Guarded, NothingLeftBehind, Steady
<1>1. n \in present => \E d \in Key : stage[d] \in {"guarded", "dying"} /\ n \in asks[d]
  BY DEF Guarded, NothingLeftBehind
<1> USE DEF TypeOK
<1>2. ASSUME NEW c \in Key, Create(c) \/ Delete(c) \/ Guard(c)
      PROVE  \E d \in Key : stage'[d] \in {"guarded", "dying"} /\ n \in asks'[d]
  BY <1>1, <1>2 DEF Create, Delete, Guard
<1>3. ASSUME NEW c \in Key, Edit(c)
      PROVE  \E d \in Key : stage'[d] \in {"guarded", "dying"} /\ n \in asks'[d]
  <2>1. n \in asks[c] => n \in asks'[c]
    BY <1>3 DEF AsksTyped, Edit, AsksKnown, Steady
  <2> QED BY <1>1, <1>3, <2>1 DEF Edit
<1>4. ASSUME NEW c \in Key, Work(c)
      PROVE  \E d \in Key : stage'[d] \in {"guarded", "dying"} /\ n \in asks'[d]
  <2>1. CASE n \in present BY <1>1, <1>4, <2>1 DEF Work
  <2>2. CASE n \in UNION Asks[c]
    <3>1. asks[c] \in Asks[c] BY <1>4 DEF Work, AsksKnown
    <3>2. n \in asks[c] BY <2>2, <3>1 DEF Steady
    <3> QED BY <1>4, <3>2 DEF Work
  <2> QED BY <1>4, <2>1, <2>2 DEF Work
<1>5. ASSUME NEW c \in Key, Release(c)
      PROVE  \E d \in Key : stage'[d] \in {"guarded", "dying"} /\ n \in asks'[d]
  <2>1. PICK d \in Key : stage[d] \in {"guarded", "dying"} /\ n \in asks[d]
    BY <1>1, <1>5 DEF Release
  <2>2. d # c BY <1>5, <2>1 DEF Release
  <2> QED BY <1>5, <2>1, <2>2 DEF Release
<1>6. CASE Others \/ UNCHANGED vars BY <1>1, <1>6 DEF Others, vars
<1> QED BY <1>2, <1>3, <1>4, <1>5, <1>6 DEF Next

(* Whatever the controller does within this protocol, nothing is left       *)
(* behind of what its objects ask for in every version.                    *)
THEOREM NothingLeft == ASSUME AsksTyped PROVE Spec => []NothingLeftBehind
<1> DEFINE Inv == TypeOK /\ AsksKnown /\ NothingLeftBehind
<1>1. Init => Inv BY DEF Init, TypeOK, Stage, AsksKnown, NothingLeftBehind
<1>2. Inv /\ [Next]_vars => Inv'
  <2> SUFFICES ASSUME Inv, [Next]_vars PROVE Inv' OBVIOUS
  <2>1. TypeOK' /\ AsksKnown' BY TypeStep
  <2>2. NothingLeftBehind' BY NothingLeftStep
  <2> QED BY <2>1, <2>2
<1>3. Inv => NothingLeftBehind OBVIOUS
<1> QED BY <1>1, <1>2, <1>3, PTL DEF Spec
=============================================================================
