------------------------------- MODULE Roles -------------------------------
(***************************************************************************)
(* What every hook consults: slot arithmetic (server/apis/slot.go) and the *)
(* role of a validator at a slot (strategy/strategy.go).  A slot reaches   *)
(* the role lookup as the int of a uint64 below 2^63, so the "slot < 0"    *)
(* branch of Server.GetValidatorRole, the only one that asks the beacon    *)
(* node, is not taken by any hook.                                         *)
(***************************************************************************)
EXTENDS Integers

CONSTANTS
  SlotsPerEpoch,   \* SLOTS_PER_EPOCH of the beacon configuration
  Validators,      \* validator indices
  Strategy         \* the "validator" list of strategy.json

ASSUME SlotsPerEpochAssumption == SlotsPerEpoch \in Nat \ {0}

ASSUME ValidatorsAssumption == Validators \subseteq Nat

ASSUME StrategyAssumption ==
  \A v \in Strategy : v.AttackerStartSlot \in Int /\ v.AttackerEndSlot \in Int

NormalRole   == "normal"
AttackerRole == "attacker"

SlotToEpoch(slot) == slot \div SlotsPerEpoch
EpochStart(epoch) == epoch * SlotsPerEpoch

\* Mutant: the first slot of the next epoch is taken for the last of this one.
EpochEnd_Next(epoch) == (epoch + 1) * SlotsPerEpoch

EpochEnd(epoch) == (epoch + 1) * SlotsPerEpoch - 1

(***************************************************************************)
(* The loop over s.Validators returns at the first entry for valIdx whose  *)
(* window holds slot: neither the order of the entries nor a second entry  *)
(* for one validator matters.                                              *)
(***************************************************************************)
GetValidatorRole(slot, valIdx) ==
  IF \E v \in Strategy :
       /\ v.ValidatorIndex = valIdx
       /\ slot >= v.AttackerStartSlot
       /\ slot <= v.AttackerEndSlot
  THEN AttackerRole
  ELSE NormalRole
=============================================================================
