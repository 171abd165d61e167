---------------------------- MODULE MCBlockHooks ----------------------------
(***************************************************************************)
(* Two epochs of three slots.  The first is proposed by a normal validator *)
(* and two attackers, of which only the last should propose.  In the       *)
(* second, validator 1 is an attacker in the middle slot only: the window  *)
(* begins after the proposal of validator 0 and ends before its own second *)
(* proposal.                                                               *)
(***************************************************************************)
EXTENDS BlockHooks

MCStrategy ==
  {[ValidatorIndex |-> 0, AttackerStartSlot |-> 0, AttackerEndSlot |-> 8],
   [ValidatorIndex |-> 1, AttackerStartSlot |-> 0, AttackerEndSlot |-> 2],
   [ValidatorIndex |-> 1, AttackerStartSlot |-> 4, AttackerEndSlot |-> 4]}

MCProposer == [s \in Slots |-> <<2, 1, 0, 0, 1, 1>>[s + 1]]
=============================================================================
