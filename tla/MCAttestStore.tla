--------------------------- MODULE MCAttestStore ---------------------------
(***************************************************************************)
(* Instances of AttestStore.  Validator 0 is an attacker throughout,       *)
(* validator 1 only in slot 0.                                             *)
(***************************************************************************)
EXTENDS AttestStore

MCKeyOf == [v \in Validators |-> <<"k0", "k1">>[v + 1]]

MCStrategy ==
  {[ValidatorIndex |-> 0, AttackerStartSlot |-> 0, AttackerEndSlot |-> 9],
   [ValidatorIndex |-> 1, AttackerStartSlot |-> 0, AttackerEndSlot |-> 0]}
=============================================================================
