----------------------------- MODULE BlockHooks -----------------------------
(***************************************************************************)
(* The hooks of a block proposal (server/apis/block.go).  A validator      *)
(* client that proposes in a slot calls beforeMakeBlock, beforeSign,       *)
(* afterSign and beforePropose one after the other and gives the slot up   *)
(* at the first CMD_RETURN; its beacon node then calls delayForReceiveBlock*)
(* and beforeBroadCast, in an order this repository does not fix.  Every   *)
(* hook is a request of its own: it asks the beacon node for the duties    *)
(* again, and each of these lookups may fail; the last two ask for the     *)
(* duties of the epoch the head is in at that moment.                      *)
(*                                                                         *)
(* The module follows the proposal of one arbitrary slot.  Proposals of    *)
(* different slots share the head, the clock, the known validators and the *)
(* delay cache; the cache is keyed by slot, so that they do not disturb    *)
(* each other.  (Its LRU bound of 1000 entries is not modelled.)           *)
(*                                                                         *)
(* The hooks that always answer CMD_NULL (afterBroadCast, afterPropose)    *)
(* change nothing and are left out.  The beacon configuration is taken as  *)
(* loaded.  Time is counted in slots: delays are multiples of the slot     *)
(* interval.                                                               *)
(***************************************************************************)
EXTENDS Roles

CONSTANTS
  MaxEpoch,    \* bound: the last epoch with proposals
  Proposer     \* proposer duties: slot -> validator index

Slots == 0..EpochEnd(MaxEpoch)

ASSUME MaxEpochAssumption == MaxEpoch \in Nat
ASSUME ProposerAssumption == Proposer \in [Slots -> Validators]

VARIABLES
  slot,        \* the slot of the proposal that is followed
  now,         \* the current slot
  head,        \* slot of the latest header of the beacon node
  known,       \* validators whose public key monitorDuties has added
  stage,       \* how far the proposal has come
  failed,      \* the stages at which a hook answered after a failed lookup
  recv,        \* state of delayForReceiveBlock
  wake,        \* when delayForReceiveBlock ends its sleep
  delayed,     \* blockCacheContent: the delay recorded, or -1
  bcast,       \* state of beforeBroadCast
  lastDelay    \* the delay beforeBroadCast found recorded

env  == <<now, head, known>>
hook == <<stage, failed, recv, wake, delayed, bcast, lastDelay>>
vars == <<slot, env, hook>>

Stages   == {"new", "made", "modified", "signed", "proposed", "stopped"}
Sleeper  == {"idle", "asleep", "done", "stopped"}

Init ==
  /\ slot \in Slots
  /\ now = 0 /\ head = 0 /\ known = {}
  /\ stage = "new" /\ failed = {}
  /\ recv = "idle" /\ wake = 0 /\ delayed = -1
  /\ bcast = "idle" /\ lastDelay = 0
-----------------------------------------------------------------------------
(* The surroundings: the clock, the head, monitorDuties *)

Horizon == EpochEnd(MaxEpoch) + SlotsPerEpoch   \* bound on the clock

Clock ==
  /\ now < Horizon
  /\ now' = now + 1
  /\ UNCHANGED <<slot, head, known, hook>>

NewHead(s) ==
  /\ head < s /\ s <= now
  /\ head' = s
  /\ UNCHANGED <<slot, now, known, hook>>

Learn(v) ==
  /\ v \notin known
  /\ known' = known \cup {v}
  /\ UNCHANGED <<slot, now, head, hook>>
-----------------------------------------------------------------------------
(* beforeMakeBlock, beforeSign (modifyBlock) and afterSign *)

\* The slots of the proposer duties of an epoch.
DutySlots(epoch) == {d \in Slots : SlotToEpoch(d) = epoch}

\* The loop over the duties ends with latestSlotWithAttacker # slot: some later
\* duty of the epoch belongs to a validator with the attacker role at *slot*
\* (the duty of slot itself is one of the candidates).
LaterAttacker(s) ==
  \E d \in DutySlots(SlotToEpoch(s)) :
    d > s /\ GetValidatorRole(s, Proposer[d]) = AttackerRole

\* valIdx: from the duties, else from the public key if it is known.
Resolved(byDuty) == byDuty \/ Proposer[slot] \in known

\* Mutant: the role of the proposer is not looked at.
Stops_AnyRole(byDuty, listed) == Resolved(byDuty) /\ listed /\ LaterAttacker(slot)

\* The hook answers CMD_RETURN; byDuty and listed say whether the two lookups
\* (GetValidatorByProposeSlot, GetProposeDuties) succeed.
Stops(byDuty, listed) ==
  /\ Resolved(byDuty)
  /\ GetValidatorRole(slot, Proposer[slot]) = AttackerRole
  /\ listed
  /\ LaterAttacker(slot)

\* One of the three hooks, called at stage "from".  A hook whose lookups fail
\* answers CMD_NULL.
Hook(from, to, byDuty, listed) ==
  /\ slot <= now
  /\ stage = from
  /\ stage' = IF Stops(byDuty, listed) THEN "stopped" ELSE to
  /\ failed' = IF Resolved(byDuty) /\ listed THEN failed ELSE failed \cup {from}
  /\ UNCHANGED <<slot, env, recv, wake, delayed, bcast, lastDelay>>

\* Mutant: the hook is answered without a check.
BeforeMakeBlock_Unchecked(byDuty, listed) ==
  /\ slot <= now /\ stage = "new" /\ stage' = "made"
  /\ UNCHANGED <<slot, env, failed, recv, wake, delayed, bcast, lastDelay>>

BeforeMakeBlock(byDuty, listed) == Hook("new", "made", byDuty, listed)

\* modifyBlock; what it puts into the block is AttestStore's matter.
BeforeSign(byDuty, listed) == Hook("made", "modified", byDuty, listed)

AfterSign(byDuty, listed) == Hook("modified", "signed", byDuty, listed)

BeforePropose ==
  /\ stage = "signed"
  /\ stage' = "proposed"
  /\ UNCHANGED <<slot, env, failed, recv, wake, delayed, bcast, lastDelay>>
-----------------------------------------------------------------------------
(* delayForReceiveBlock and beforeBroadCast *)

Attacker(s) == GetValidatorRole(s, Proposer[s]) = AttackerRole

\* Mutant: the first attacker of the epoch is taken.
LatestAttackerVal_First(v, epoch) ==
  \E d \in DutySlots(epoch) :
    /\ Attacker(d) /\ Proposer[d] = v
    /\ \A c \in DutySlots(epoch) : c < d => ~Attacker(c)

\* v is latestAttackerVal for the duties of an epoch: it proposes in the last
\* slot whose proposer is an attacker then.
LatestAttackerVal(v, epoch) ==
  \E d \in DutySlots(epoch) :
    /\ Attacker(d) /\ Proposer[d] = v
    /\ \A c \in DutySlots(epoch) : c > d => ~Attacker(c)

\* What both hooks decide, from the duties of the head's epoch.  A failed
\* lookup answers CMD_NULL, and so does the slot of a normal proposer.
Decision(byDuty, listed) ==
  IF ~byDuty \/ ~Attacker(slot) \/ ~listed THEN "done"
  ELSE IF LatestAttackerVal(Proposer[slot], SlotToEpoch(head)) THEN "asleep"
  ELSE "stopped"

\* Mutant: the delay ends with the last slot of the epoch.
ReceiveDelay_Short(s) == SlotsPerEpoch - 1 - (s % SlotsPerEpoch)

ReceiveDelay(s) == SlotsPerEpoch - (s % SlotsPerEpoch)

DelayForReceiveBlock(byDuty, listed) ==
  /\ stage = "proposed" /\ recv = "idle"
  /\ recv' = Decision(byDuty, listed)
  /\ wake' = IF recv' = "asleep" THEN now + ReceiveDelay(slot) ELSE now
  /\ UNCHANGED <<slot, env, stage, failed, delayed, bcast, lastDelay>>

\* time.Sleep returns; the delay is recorded for beforeBroadCast.
ReceiveWake ==
  /\ recv = "asleep" /\ now >= wake
  /\ recv' = "done"
  /\ delayed' = ReceiveDelay(slot)
  /\ UNCHANGED <<slot, env, stage, failed, wake, bcast, lastDelay>>

BeforeBroadCast(byDuty, listed) ==
  /\ stage = "proposed" /\ bcast = "idle"
  /\ bcast' = Decision(byDuty, listed)
  /\ lastDelay' = IF bcast' = "asleep" /\ delayed # -1 THEN delayed ELSE 0
  /\ UNCHANGED <<slot, env, stage, failed, recv, wake, delayed>>

\* The sleep of 12 slots and lastDelay ends some time.
BroadCastWake ==
  /\ bcast = "asleep"
  /\ bcast' = "done"
  /\ UNCHANGED <<slot, env, stage, failed, recv, wake, delayed, lastDelay>>
-----------------------------------------------------------------------------
Environment ==
  \/ Clock
  \/ \E s \in Slots : NewHead(s)
  \/ \E v \in Validators : Learn(v)

Proposal ==
  \/ \E byDuty, listed \in BOOLEAN :
       \/ BeforeMakeBlock(byDuty, listed)
       \/ BeforeSign(byDuty, listed)
       \/ AfterSign(byDuty, listed)
       \/ DelayForReceiveBlock(byDuty, listed)
       \/ BeforeBroadCast(byDuty, listed)
  \/ BeforePropose
  \/ ReceiveWake
  \/ BroadCastWake

Next == Environment \/ Proposal

Spec == Init /\ [][Next]_vars
-----------------------------------------------------------------------------
\* Type invariant of the proposal and of what the hooks remember.
TypeOK ==
  /\ slot \in Slots
  /\ now \in 0..Horizon
  /\ head \in Slots
  /\ known \subseteq Validators
  /\ stage \in Stages
  /\ failed \subseteq {"new", "made", "modified"}
  /\ recv \in Sleeper
  /\ wake \in Nat
  /\ delayed \in -1..SlotsPerEpoch
  /\ bcast \in Sleeper
  /\ lastDelay \in 0..SlotsPerEpoch

\* s is the last slot of its epoch whose proposer is an attacker then.
LastAttacker(s) ==
  Attacker(s) /\ \A d \in DutySlots(SlotToEpoch(s)) : d > s => ~Attacker(d)

\* A window of a later proposer of the epoch begins after s and holds or
\* precedes that proposal, so that its role at s is not yet the one it has then.
BeginsLater(s) ==
  \E d \in DutySlots(SlotToEpoch(s)), v \in Strategy :
    /\ d > s /\ v.ValidatorIndex = Proposer[d]
    /\ s < v.AttackerStartSlot /\ v.AttackerStartSlot <= d

\* A window of a later proposer of the epoch ends at s or later, but before that
\* proposal, so that its role at s is no longer the one it has then.
EndsEarlier(s) ==
  \E d \in DutySlots(SlotToEpoch(s)), v \in Strategy :
    /\ d > s /\ v.ValidatorIndex = Proposer[d]
    /\ s <= v.AttackerEndSlot /\ v.AttackerEndSlot < d

\* block.go:429: of the attackers of an epoch only the last one proposes.  The
\* three hooks before the proposal check this one after the other, a lookup that
\* fails lets the slot through, and the roles of the later proposers are taken
\* at the current slot.  So a slot that is not the last one gets through only if
\* lookups of all three failed, or a window begins between it and a later
\* proposal of the epoch.
LeakExplained ==
  stage \in {"signed", "proposed"} /\ Attacker(slot) /\ ~LastAttacker(slot) =>
    failed = {"new", "made", "modified"} \/ BeginsLater(slot)

\* Whatever lookups fail, the hooks never stop a normal proposer, and they stop
\* the last attacker of an epoch before its proposal only if a window ends
\* between it and a later proposal of the epoch.
StopExplained ==
  /\ stage = "stopped" => Attacker(slot) /\ (LastAttacker(slot) => EndsEarlier(slot))
  /\ recv = "stopped" \/ bcast = "stopped" => Attacker(slot)

\* block.go:348: an attacker's block that is delayed reaches its own node in
\* the next epoch, never in its own.
DelayedToNextEpoch ==
  recv = "asleep" \/ delayed # -1 => SlotToEpoch(wake) > SlotToEpoch(slot)

\* block.go:402-409: beforeBroadCast adds the delay of delayForReceiveBlock
\* only when that hook's sleep for this slot is over.
BroadcastKnowsDelay == lastDelay # 0 => recv = "done" /\ now >= wake /\ lastDelay = delayed

\* The last attacker is stopped at the broadcast only if the head is outside
\* the epoch of its slot when the hook runs.
StoppedOnlyByStaleHead ==
  [][LastAttacker(slot)
     /\ \/ bcast = "idle" /\ bcast' = "stopped"
        \/ recv = "idle" /\ recv' = "stopped"
     => SlotToEpoch(head) # SlotToEpoch(slot)]_vars
=============================================================================
