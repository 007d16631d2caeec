------------------------ MODULE ProtocolRefinement ------------------------
(***************************************************************************)
(* Reconciler implements FinalizerProtocol: an object's life is read off   *)
(* the server, and what is provided for it are its roles in the operator's *)
(* path.  Policies are left out: deleteIAMResources removes those it finds *)
(* attached to the roles and no others.                                    *)
(***************************************************************************)
EXTENDS FinalizerInvariant

StageOf(obj) == IF obj = None THEN "absent"
                ELSE IF obj.deleting THEN "dying"
                ELSE IF obj.finalizer THEN "guarded" ELSE "open"

Stages    == [c \in CR |-> StageOf(cr[c])]
AskedFor  == [c \in CR |-> IF cr[c] = None THEN {} ELSE RolesNamed(cr[c].spec)]
OurRoles  == {r \in RoleName : Ours(r)}
MayAskFor == [c \in CR |-> {RolesNamed(s) : s \in SpecsOf[c]}]

Protocol == INSTANCE FinalizerProtocol
              WITH Key <- CR, Name <- RoleName, Asks <- MayAskFor,
                   stage <- Stages, asks <- AskedFor, present <- OurRoles

(* Behind its cache, queue and partial failures the controller only takes  *)
(* steps of the protocol: it creates a role for an object that has the     *)
(* finalizer on the server and in some version asked for the role, and it  *)
(* lets an object go only when the roles it asks for are gone.             *)
ProtocolImplemented == Protocol!Spec

(* A role an object names in every version, if in any, stays behind only   *)
(* while an object that will remove it is there, whatever crashes, fails   *)
(* or is changed by others meanwhile.                                      *)
NoRoleLeftBehind == Protocol!NothingLeftBehind
=============================================================================
