-------------------------- MODULE BlockHooksProofs --------------------------
(***************************************************************************)
(* The safety properties of the block hooks for every epoch length, duty   *)
(* assignment and strategy.  The three hooks before the proposal look the  *)
(* roles of later proposers up at the proposal's own slot: StageInv says   *)
(* what follows from that (LaterAttacker), LaterFound and FoundIsLater     *)
(* relate it to the roles the proposers have at their own slots.           *)
(***************************************************************************)
EXTENDS BlockHooks, TLAPS

\* Multiplication by a natural number is monotone.
LEMMA TimesLe ==
  ASSUME NEW a \in Nat, NEW b \in Nat, NEW n \in Nat, a <= b
  PROVE  a * n <= b * n
<1>1. PICK d \in Nat : b = a + d
  <2>1. b - a \in Nat /\ b = a + (b - a) OBVIOUS
  <2> QED BY <2>1
<1>2. d * n \in Nat OBVIOUS
<1>3. b * n = a * n + d * n BY <1>1
<1> QED BY <1>2, <1>3

\* EpochStart and EpochEnd delimit exactly SlotsPerEpoch slots.
LEMMA EpochBounds ==
  ASSUME NEW e \in Nat
  PROVE  /\ EpochStart(e) \in Nat
         /\ EpochEnd(e) \in Nat
         /\ EpochEnd(e) = EpochStart(e) + SlotsPerEpoch - 1
<1>1. e * SlotsPerEpoch \in Nat BY SlotsPerEpochAssumption
<1>2. (e + 1) * SlotsPerEpoch = e * SlotsPerEpoch + SlotsPerEpoch
  BY SlotsPerEpochAssumption
<1> QED BY <1>1, <1>2, SlotsPerEpochAssumption DEF EpochStart, EpochEnd

\* A slot and its place within the epoch.
LEMMA SlotParts ==
  ASSUME NEW s \in Nat
  PROVE  /\ SlotToEpoch(s) \in Nat
         /\ s % SlotsPerEpoch \in 0..(SlotsPerEpoch - 1)
         /\ s = EpochStart(SlotToEpoch(s)) + (s % SlotsPerEpoch)
<1> DEFINE n == SlotsPerEpoch
<1>n. n \in Nat /\ n > 0 BY SlotsPerEpochAssumption
<1> HIDE DEF n
<1>1. s \div n \in Nat /\ s % n \in 0..(n - 1) BY <1>n
<1>2. s = n * (s \div n) + (s % n) BY <1>n
<1>3. n * (s \div n) = (s \div n) * n BY <1>n, <1>1
<1> QED BY <1>1, <1>2, <1>3 DEF SlotToEpoch, EpochStart, n

\* Epochs do not decrease with slots; the first slot of the next epoch is in a
\* later epoch.
LEMMA LaterEpoch ==
  ASSUME NEW s \in Nat, NEW t \in Nat, EpochStart(SlotToEpoch(s) + 1) <= t
  PROVE  SlotToEpoch(t) > SlotToEpoch(s)
<1> DEFINE e == SlotToEpoch(s)
<1> DEFINE f == SlotToEpoch(t)
<1>1. e \in Nat /\ f \in Nat BY SlotParts
<1>2. t <= EpochEnd(f)
  <2>1. t = EpochStart(f) + (t % SlotsPerEpoch) /\ t % SlotsPerEpoch \in 0..(SlotsPerEpoch - 1)
    BY SlotParts
  <2>2. EpochStart(f) \in Nat /\ EpochEnd(f) = EpochStart(f) + SlotsPerEpoch - 1
    BY <1>1, EpochBounds
  <2> HIDE DEF f
  <2> QED BY <2>1, <2>2, SlotsPerEpochAssumption
<1>3. EpochStart(e + 1) <= t OBVIOUS
<1> HIDE DEF e, f
<1>4. CASE f <= e
  <2>1. (f + 1) * SlotsPerEpoch <= (e + 1) * SlotsPerEpoch
    BY <1>1, <1>4, TimesLe, SlotsPerEpochAssumption
  <2>2. (f + 1) * SlotsPerEpoch \in Nat /\ (e + 1) * SlotsPerEpoch \in Nat
    BY <1>1, SlotsPerEpochAssumption
  <2> QED BY <2>1, <2>2, <1>2, <1>3 DEF EpochStart, EpochEnd
<1> QED BY <1>1, <1>4 DEF e, f

-----------------------------------------------------------------------------
\* The stages at which a proposal that has come to a stage was checked.
Checked ==
  CASE stage = "made"                   -> {"new"}
    [] stage = "modified"               -> {"new", "made"}
    [] stage \in {"signed", "proposed"} -> {"new", "made", "modified"}
    [] OTHER                            -> {}

\* Without any assumption on the strategy: what LaterAttacker says.
StageInv ==
  /\ Attacker(slot) /\ LaterAttacker(slot) => Checked \subseteq failed
  /\ stage = "stopped" => Attacker(slot) /\ LaterAttacker(slot)
  /\ recv = "stopped" \/ bcast = "stopped" => Attacker(slot)
  /\ stage # "new" => slot <= now

DelayInv ==
  /\ recv # "idle" \/ bcast # "idle" => stage = "proposed"
  /\ recv = "asleep" \/ delayed # -1 => wake >= slot + ReceiveDelay(slot)
  /\ delayed # -1 => recv = "done" /\ now >= wake
  /\ lastDelay # 0 => lastDelay = delayed

IInv == TypeOK /\ StageInv /\ DelayInv
-----------------------------------------------------------------------------
\* Slots and the bound on the clock are natural numbers.
LEMMA SlotsNat == Slots \subseteq Nat /\ Horizon \in Nat /\ 0 \in Slots
<1>1. EpochEnd(MaxEpoch) \in Nat BY MaxEpochAssumption, EpochBounds
<1> QED BY <1>1, SlotsPerEpochAssumption DEF Slots, Horizon

\* delayForReceiveBlock sleeps up to the first slot of the next epoch.
LEMMA DelayRange ==
  ASSUME NEW s \in Nat
  PROVE  /\ ReceiveDelay(s) \in 1..SlotsPerEpoch
         /\ s + ReceiveDelay(s) = EpochStart(SlotToEpoch(s) + 1)
<1>1. /\ SlotToEpoch(s) \in Nat /\ s % SlotsPerEpoch \in 0..(SlotsPerEpoch - 1)
      /\ s = EpochStart(SlotToEpoch(s)) + (s % SlotsPerEpoch)
  BY SlotParts
<1>2. EpochStart(SlotToEpoch(s)) \in Nat BY <1>1, EpochBounds
<1>3. EpochStart(SlotToEpoch(s) + 1) = EpochStart(SlotToEpoch(s)) + SlotsPerEpoch
  BY <1>1, SlotsPerEpochAssumption DEF EpochStart
<1> QED BY <1>1, <1>2, <1>3, SlotsPerEpochAssumption DEF ReceiveDelay

\* If no window of a later proposer begins in between, the loop of the hooks
\* finds a later attacker when there is one.
LEMMA LaterFound ==
  ASSUME NEW s \in Slots, Attacker(s), ~LastAttacker(s), ~BeginsLater(s)
  PROVE  LaterAttacker(s)
<1>1. PICK d \in DutySlots(SlotToEpoch(s)) : d > s /\ Attacker(d) BY DEF LastAttacker
<1>2. d \in Slots /\ d \in Nat /\ s \in Nat BY SlotsNat DEF DutySlots
<1>3. PICK v \in Strategy : /\ v.ValidatorIndex = Proposer[d]
                            /\ d >= v.AttackerStartSlot /\ d <= v.AttackerEndSlot
  BY <1>1 DEF Attacker, GetValidatorRole, AttackerRole, NormalRole
<1>4. s >= v.AttackerStartSlot /\ s <= v.AttackerEndSlot
  BY <1>1, <1>2, <1>3, StrategyAssumption DEF BeginsLater
<1>5. GetValidatorRole(s, Proposer[d]) = AttackerRole BY <1>3, <1>4 DEF GetValidatorRole
<1> QED BY <1>1, <1>5 DEF LaterAttacker

\* If no window of a later proposer ends in between, a later attacker that the
\* loop finds still is one at its own slot.
LEMMA FoundIsLater ==
  ASSUME NEW s \in Slots, LaterAttacker(s), LastAttacker(s)
  PROVE  EndsEarlier(s)
<1>1. PICK d \in DutySlots(SlotToEpoch(s)) :
        d > s /\ GetValidatorRole(s, Proposer[d]) = AttackerRole
  BY DEF LaterAttacker
<1>2. d \in Slots /\ d \in Nat /\ s \in Nat BY SlotsNat DEF DutySlots
<1>3. PICK v \in Strategy : /\ v.ValidatorIndex = Proposer[d]
                            /\ s >= v.AttackerStartSlot /\ s <= v.AttackerEndSlot
  BY <1>1 DEF GetValidatorRole, AttackerRole, NormalRole
<1>4. ~(d >= v.AttackerStartSlot /\ d <= v.AttackerEndSlot)
  BY <1>1, <1>3 DEF LastAttacker, Attacker, GetValidatorRole
<1>5. v.AttackerEndSlot < d BY <1>1, <1>2, <1>3, <1>4, StrategyAssumption
<1> QED BY <1>1, <1>3, <1>5 DEF EndsEarlier
-----------------------------------------------------------------------------
\* A proposal that has not begun satisfies the inductive invariant.
LEMMA InitIInv == Init => IInv
BY SlotsNat, SlotsPerEpochAssumption
   DEF Init, IInv, TypeOK, StageInv, DelayInv, Stages, Sleeper, Checked

\* The three hooks before the proposal.
LEMMA HookStep ==
  ASSUME IInv, NEW byDuty \in BOOLEAN, NEW listed \in BOOLEAN,
         NEW from \in {"new", "made", "modified"}, NEW to \in {"made", "modified", "signed"},
         <<from, to>> \in {<<"new", "made">>, <<"made", "modified">>, <<"modified", "signed">>},
         Hook(from, to, byDuty, listed)
  PROVE  IInv'
<1> USE DEF IInv
<1>1. TypeOK' BY DEF Hook, TypeOK, Stages, Stops, env
<1>2. StageInv'
  <2>1. slot' = slot /\ slot \in Slots /\ now' = now /\ slot <= now
        /\ recv' = recv /\ bcast' = bcast
        /\ (recv = "stopped" \/ bcast = "stopped" => Attacker(slot)) BY DEF Hook, TypeOK, StageInv, env
  <2>2. CASE Stops(byDuty, listed)
    BY <2>1, <2>2 DEF Hook, StageInv, Stops, Attacker, LaterAttacker, Checked
  <2>3. CASE ~Stops(byDuty, listed)
    <3>1. stage' = to /\ to # "stopped" BY <2>3 DEF Hook
    <3>2. Attacker(slot) /\ LaterAttacker(slot) => ~(Resolved(byDuty) /\ listed)
      BY <2>3 DEF Stops, Attacker
    <3>3. Attacker(slot) /\ LaterAttacker(slot) => failed' = failed \cup {from} BY <3>2 DEF Hook
    <3>4. Checked' = Checked \cup {from} BY <3>1 DEF Hook, Checked
    <3> QED BY <2>1, <3>1, <3>3, <3>4 DEF StageInv, Attacker, LaterAttacker
  <2> QED BY <2>2, <2>3
<1>3. DelayInv' BY DEF Hook, DelayInv, env, ReceiveDelay
<1> QED BY <1>1, <1>2, <1>3

\* Every hook and every step of the surroundings preserves it.
LEMMA Inductive == IInv /\ [Next]_vars => IInv'
<1> SUFFICES ASSUME IInv, [Next]_vars PROVE IInv' OBVIOUS
<1> USE DEF IInv
<1>t. /\ slot \in Nat /\ now \in Nat /\ wake \in Nat /\ head \in Nat /\ Horizon \in Nat
      /\ ReceiveDelay(slot) \in 1..SlotsPerEpoch /\ SlotsPerEpoch \in Nat
  BY SlotsNat, DelayRange, SlotsPerEpochAssumption DEF TypeOK
<1>1. CASE Clock
  BY <1>1, <1>t DEF Clock, TypeOK, StageInv, DelayInv, Attacker, LaterAttacker, Checked, hook
<1>2. ASSUME NEW s \in Slots, NewHead(s) PROVE IInv'
  BY <1>2 DEF NewHead, TypeOK, StageInv, DelayInv, Attacker, LaterAttacker, Checked, hook
<1>3. ASSUME NEW v \in Validators, Learn(v) PROVE IInv'
  BY <1>3 DEF Learn, TypeOK, StageInv, DelayInv, Attacker, LaterAttacker, Checked, hook
<1>4. ASSUME NEW byDuty \in BOOLEAN, NEW listed \in BOOLEAN,
             \/ BeforeMakeBlock(byDuty, listed)
             \/ BeforeSign(byDuty, listed)
             \/ AfterSign(byDuty, listed)
      PROVE  IInv'
  BY <1>4, HookStep DEF BeforeMakeBlock, BeforeSign, AfterSign
<1>5. ASSUME NEW byDuty \in BOOLEAN, NEW listed \in BOOLEAN, DelayForReceiveBlock(byDuty, listed)
      PROVE  IInv'
  <2>1. /\ recv' \in {"done", "asleep", "stopped"}
        /\ recv' = "stopped" => Attacker(slot)
        /\ recv = "idle" /\ stage = "proposed"
    BY <1>5 DEF DelayForReceiveBlock, Decision
  <2>2. wake' = (IF recv' = "asleep" THEN now + ReceiveDelay(slot) ELSE now)
        /\ UNCHANGED <<slot, now, head, known, stage, failed, delayed, bcast, lastDelay>>
    BY <1>5 DEF DelayForReceiveBlock, env
  <2>3. TypeOK' BY <2>1, <2>2, <1>t DEF TypeOK, Sleeper
  <2>4. StageInv' BY <2>1, <2>2 DEF StageInv, Attacker, LaterAttacker, Checked
  <2>5. DelayInv'
    <3>1. slot <= now /\ delayed = -1 BY <2>1 DEF StageInv, DelayInv
    <3>2. recv' = "asleep" => wake' >= slot + ReceiveDelay(slot) BY <3>1, <2>2, <1>t
    <3> QED BY <3>1, <3>2, <2>1, <2>2 DEF DelayInv
  <2> QED BY <2>3, <2>4, <2>5
<1>6. ASSUME NEW byDuty \in BOOLEAN, NEW listed \in BOOLEAN, BeforeBroadCast(byDuty, listed)
      PROVE  IInv'
  <2>1. /\ bcast' \in {"done", "asleep", "stopped"}
        /\ bcast' = "stopped" => Attacker(slot)
        /\ bcast = "idle" /\ stage = "proposed"
    BY <1>6 DEF BeforeBroadCast, Decision
  <2>2. lastDelay' \in {0, delayed} /\ (lastDelay' # 0 => delayed # -1)
        /\ UNCHANGED <<slot, now, head, known, stage, failed, recv, wake, delayed>>
    BY <1>6 DEF BeforeBroadCast, env
  <2>3. TypeOK' BY <2>1, <2>2, <1>t DEF TypeOK, Sleeper
  <2>4. StageInv' BY <2>1, <2>2 DEF StageInv, Attacker, LaterAttacker, Checked
  <2>5. DelayInv' BY <2>1, <2>2 DEF DelayInv
  <2> QED BY <2>3, <2>4, <2>5
<1>7. CASE BeforePropose
  <2>1. stage = "signed" /\ stage' = "proposed"
        /\ UNCHANGED <<slot, now, head, known, failed, recv, wake, delayed, bcast, lastDelay>>
    BY <1>7 DEF BeforePropose, env
  <2>2. Checked' = Checked BY <2>1 DEF Checked
  <2> QED BY <2>1, <2>2 DEF TypeOK, Stages, StageInv, DelayInv, Attacker, LaterAttacker
<1>8. CASE ReceiveWake
  <2>1. recv = "asleep" /\ recv' = "done" /\ now >= wake /\ delayed' = ReceiveDelay(slot)
        /\ UNCHANGED <<slot, now, head, known, stage, failed, wake, bcast, lastDelay>>
    BY <1>8 DEF ReceiveWake, env
  <2>2. TypeOK' BY <2>1, <1>t DEF TypeOK, Sleeper
  <2>3. StageInv' BY <2>1 DEF StageInv, Attacker, LaterAttacker, Checked
  <2>4. delayed = -1 /\ lastDelay \in {0, -1} /\ lastDelay \in Nat
    BY <2>1, <1>t DEF DelayInv, TypeOK
  <2>5. DelayInv' BY <2>1, <2>4, <1>t DEF DelayInv
  <2> QED BY <2>2, <2>3, <2>5
<1>9. CASE BroadCastWake
  BY <1>9 DEF BroadCastWake, env, TypeOK, Sleeper, StageInv, DelayInv, Attacker, LaterAttacker, Checked
<1>10. CASE UNCHANGED vars
  BY <1>10 DEF vars, env, hook, TypeOK, StageInv, DelayInv, Attacker, LaterAttacker, Checked
<1> QED BY <1>1, <1>2, <1>3, <1>4, <1>5, <1>6, <1>7, <1>8, <1>9, <1>10
        DEF Next, Environment, Proposal

\* The inductive invariant holds in every reachable state.
LEMMA Invariance == Spec => []IInv
BY InitIInv, Inductive, PTL DEF Spec
-----------------------------------------------------------------------------
\* The proposal and what the hooks remember keep their types.
THEOREM TypeCorrect == Spec => []TypeOK
<1>1. IInv => TypeOK BY DEF IInv
<1> QED BY <1>1, Invariance, PTL

\* Whatever the strategy, a slot of an attacker that is not the last of its
\* epoch gets past beforeMakeBlock, beforeSign and afterSign only if lookups of
\* all three fail or a window begins before a later proposal of the epoch.
THEOREM LeakTheorem == Spec => []LeakExplained
<1>1. IInv => LeakExplained
  BY LaterFound DEF IInv, TypeOK, StageInv, Checked, LeakExplained
<1> QED BY <1>1, Invariance, PTL

\* Whatever the strategy, only attackers are stopped, and the last one of an
\* epoch before its proposal only if a window ends before a later proposal.
THEOREM StopTheorem == Spec => []StopExplained
<1>1. IInv => StopExplained
  BY FoundIsLater DEF IInv, TypeOK, StageInv, StopExplained
<1> QED BY <1>1, Invariance, PTL

\* Whatever the strategy, a delayed block reaches its own node in a later epoch.
THEOREM DelayTheorem == Spec => []DelayedToNextEpoch
<1>1. IInv => DelayedToNextEpoch
  <2> SUFFICES ASSUME IInv, recv = "asleep" \/ delayed # -1
               PROVE  SlotToEpoch(wake) > SlotToEpoch(slot)
    BY DEF DelayedToNextEpoch
  <2>1. slot \in Nat /\ wake \in Nat BY SlotsNat DEF IInv, TypeOK
  <2>2. EpochStart(SlotToEpoch(slot) + 1) <= wake
    <3>1. slot + ReceiveDelay(slot) = EpochStart(SlotToEpoch(slot) + 1)
          /\ ReceiveDelay(slot) \in 1..SlotsPerEpoch BY <2>1, DelayRange
    <3> QED BY <3>1, <2>1, SlotsPerEpochAssumption DEF IInv, DelayInv
  <2> QED BY <2>1, <2>2, LaterEpoch
<1> QED BY <1>1, Invariance, PTL

\* beforeBroadCast adds the other hook's delay only after that hook has slept.
THEOREM BroadcastTheorem == Spec => []BroadcastKnowsDelay
<1>1. IInv => BroadcastKnowsDelay
  BY SlotsNat DEF IInv, TypeOK, DelayInv, BroadcastKnowsDelay
<1> QED BY <1>1, Invariance, PTL

\* Whatever the strategy, beforeBroadCast and delayForReceiveBlock stop the last
\* attacker of an epoch only when the head is in another epoch.
THEOREM StaleHeadTheorem == Spec => StoppedOnlyByStaleHead
<1> DEFINE A ==
      LastAttacker(slot)
      /\ \/ bcast = "idle" /\ bcast' = "stopped"
         \/ recv = "idle" /\ recv' = "stopped"
      => SlotToEpoch(head) # SlotToEpoch(slot)
<1>1. IInv /\ [Next]_vars => [A]_vars
  <2> SUFFICES ASSUME IInv, Next, LastAttacker(slot), SlotToEpoch(head) = SlotToEpoch(slot),
                      \/ bcast = "idle" /\ bcast' = "stopped"
                      \/ recv = "idle" /\ recv' = "stopped"
               PROVE  FALSE
    OBVIOUS
  <2>1. slot \in Slots BY DEF IInv, TypeOK
  <2>2. LatestAttackerVal(Proposer[slot], SlotToEpoch(head))
    BY <2>1 DEF LastAttacker, LatestAttackerVal, DutySlots
  <2>3. ASSUME NEW byDuty \in BOOLEAN, NEW listed \in BOOLEAN
        PROVE  Decision(byDuty, listed) # "stopped"
    BY <2>2 DEF Decision
  <2>4. CASE \E byDuty, listed \in BOOLEAN :
               DelayForReceiveBlock(byDuty, listed) \/ BeforeBroadCast(byDuty, listed)
    BY <2>3, <2>4 DEF DelayForReceiveBlock, BeforeBroadCast
  <2>5. CASE UNCHANGED <<recv, bcast>> BY <2>5
  <2>6. CASE ReceiveWake \/ BroadCastWake BY <2>6 DEF ReceiveWake, BroadCastWake
  <2>7. Environment => UNCHANGED <<recv, bcast>>
    BY DEF Environment, Clock, NewHead, Learn, hook
  <2>8. BeforePropose => UNCHANGED <<recv, bcast>> BY DEF BeforePropose
  <2>9. ASSUME NEW byDuty \in BOOLEAN, NEW listed \in BOOLEAN
        PROVE  BeforeMakeBlock(byDuty, listed) \/ BeforeSign(byDuty, listed)
                 \/ AfterSign(byDuty, listed) => UNCHANGED <<recv, bcast>>
    BY DEF BeforeMakeBlock, BeforeSign, AfterSign, Hook
  <2> QED BY <2>4, <2>5, <2>6, <2>7, <2>8, <2>9 DEF Next, Proposal
<1> QED BY <1>1, Invariance, PTL DEF Spec, StoppedOnlyByStaleHead
=============================================================================
