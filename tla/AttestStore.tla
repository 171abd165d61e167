---------------------------- MODULE AttestStore ----------------------------
(***************************************************************************)
(* The attestation store (validatorSet/validatorSet.go) and the goroutines *)
(* that use it at the same time:                                           *)
(*   - monitorDuties (server/server.go), which adds the validators named   *)
(*     by the attester duties, one AddValidator call after another;        *)
(*   - the attest_* requests of one attestation (server/apis/attest.go):   *)
(*     AfterSign stores an attacker's attestation, BeforePropose tells the *)
(*     client whether to broadcast it;                                     *)
(*   - one goroutine per block_beforeSign request that got as far as       *)
(*     collecting the attackers' attestations of the block's epoch         *)
(*     (modifyBlock, server/apis/block.go:136-157).                        *)
(*                                                                         *)
(* Every method of ValidatorDataSet holds vs.lock for the whole of its     *)
(* body, but the map that GetAttestSet returns is ranged over after the    *)
(* lock is released.  A map write therefore takes two steps here (AddBegin,*)
(* AddEnd), and an iteration step in between is what the Go runtime calls  *)
(* "concurrent map iteration and map write": it may abort the process.     *)
(***************************************************************************)
EXTENDS Roles

CONSTANTS
  MaxEpoch,    \* bound: the last epoch
  KeyOf,       \* the registry of the beacon state: index -> public key
  Strangers,   \* public keys of no validator
  Makers       \* goroutines serving block_beforeSign

Epochs == 0..MaxEpoch
Slots  == 0..EpochStart(MaxEpoch + 1)   \* one slot past the last epoch
Keys   == {KeyOf[v] : v \in Validators} \cup Strangers

ASSUME MaxEpochAssumption == MaxEpoch \in Nat

ASSUME KeyAssumption ==
  /\ \A v, w \in Validators : KeyOf[v] = KeyOf[w] => v = w
  /\ \A v \in Validators : KeyOf[v] \notin Strangers

VARIABLES
  byIndex,     \* ValidatorByIndex: the indices stored
  byPubkey,    \* ValidatorByPubkey: padded public key -> index, or Nil
  attestSet,   \* AttestSet: slot -> padded public keys with an attestation
  locked,      \* vs.lock is held by a write that is under way
  duties,      \* validators monitorDuties has still to add in this tick
  att,         \* how far each attestation <<slot, public key>> has come
  mk,          \* state of each block_beforeSign goroutine
  crashed      \* the Go runtime aborted the process

vars == <<byIndex, byPubkey, attestSet, locked, duties, att, mk, crashed>>

Nil == -1

(***************************************************************************)
(* A public key arrives with or without its "0x" prefix; padPubkey brings  *)
(* both spellings to the prefixed one, which is the only one stored.       *)
(***************************************************************************)
Spelling == [prefix : {"", "0x"}, hex : Keys]
Spelled(prefix, k) == [prefix |-> prefix, hex |-> k]
Padded == [prefix : {"0x"}, hex : Keys]
NoKey == Spelled("", "")

padPubkey(p) == Spelled("0x", p.hex)

Attestations == Slots \X Keys

Stages == {"new", "adding", "writing", "signed", "withheld", "broadcast"}

MkIdle == [pc |-> "idle", epoch |-> 0, i |-> 0, todo |-> {}, seen |-> {},
           key |-> NoKey, got |-> {}, before |-> {}]

Init ==
  /\ byIndex = {}
  /\ byPubkey = [k \in Padded |-> Nil]
  /\ attestSet = [s \in Slots |-> {}]
  /\ locked = FALSE
  /\ duties = {}
  /\ att = [a \in Attestations |-> "new"]
  /\ mk = [g \in Makers |-> MkIdle]
  /\ crashed = FALSE
-----------------------------------------------------------------------------
(* monitorDuties *)

\* The ticker: the duties of the current epoch name some validators.  (A
\* failed request leaves everything as it is.)
Tick(D) ==
  /\ duties = {}
  /\ duties' = D
  /\ UNCHANGED <<byIndex, byPubkey, attestSet, locked, att, mk, crashed>>

\* Mutant: every round builds a new map.
AddValidator_Forgets(v) ==
  /\ v \in duties
  /\ ~locked
  /\ duties' = duties \ {v}
  /\ byIndex' = byIndex \cup {v}
  /\ byPubkey' = [k \in Padded |-> IF k.hex = KeyOf[v] THEN v ELSE Nil]
  /\ UNCHANGED <<attestSet, locked, att, mk, crashed>>

\* One round of the loop over the duties: AddValidator under the write lock.
AddValidator(v) ==
  /\ v \in duties
  /\ ~locked
  /\ duties' = duties \ {v}
  /\ byIndex' = byIndex \cup {v}
  /\ byPubkey' = [byPubkey EXCEPT ![padPubkey(Spelled("0x", KeyOf[v]))] = v]
  /\ UNCHANGED <<attestSet, locked, att, mk, crashed>>
-----------------------------------------------------------------------------
(* attest_afterSign and attest_beforePropose.  A validator client signs at *)
(* most one attestation for a slot (its slashing protection).              *)

\* Mutant: the strategy is asked before the validator is known.
GetValidatorRoleByPubkey_Unknown(slot, p) ==
  IF \E v \in Validators : KeyOf[v] = p.hex /\ GetValidatorRole(slot, v) = AttackerRole
  THEN AttackerRole
  ELSE NormalRole

\* Server.GetValidatorRoleByPubkey: a key that is not known is a normal one.
GetValidatorRoleByPubkey(slot, p) ==
  IF byPubkey[padPubkey(p)] # Nil
  THEN GetValidatorRole(slot, byPubkey[padPubkey(p)])
  ELSE NormalRole

\* AfterSign up to AddSignedAttestation.  wellFormed says whether the data
\* decodes (base64, then protobuf); otherwise, and for a normal validator, the
\* data is returned as it is and nothing is stored.
AfterSign(slot, p, wellFormed) ==
  LET a == <<slot, p.hex>> IN
  /\ att[a] = "new"
  /\ ~locked
  /\ att' = [att EXCEPT ![a] =
       IF wellFormed /\ GetValidatorRoleByPubkey(slot, p) # NormalRole
       THEN "adding" ELSE "signed"]
  /\ UNCHANGED <<byIndex, byPubkey, attestSet, locked, duties, mk, crashed>>

\* AddSignedAttestation takes the lock and starts the map assignment ...
AddBegin(a) ==
  /\ att[a] = "adding"
  /\ ~locked
  /\ locked' = TRUE
  /\ att' = [att EXCEPT ![a] = "writing"]
  /\ UNCHANGED <<byIndex, byPubkey, attestSet, duties, mk, crashed>>

\* Mutant: a path out of AddSignedAttestation that does not unlock.
AddEnd_NoUnlock(a) ==
  /\ att[a] = "writing"
  /\ attestSet' = [attestSet EXCEPT ![a[1]] = @ \cup {padPubkey(Spelled("", a[2]))}]
  /\ att' = [att EXCEPT ![a] = "signed"]
  /\ UNCHANGED <<byIndex, byPubkey, locked, duties, mk, crashed>>

\* ... and ends it and releases the lock; AfterSign returns.
AddEnd(a) ==
  /\ att[a] = "writing"
  /\ locked' = FALSE
  /\ attestSet' = [attestSet EXCEPT ![a[1]] = @ \cup {padPubkey(Spelled("", a[2]))}]
  /\ att' = [att EXCEPT ![a] = "signed"]
  /\ UNCHANGED <<byIndex, byPubkey, duties, mk, crashed>>

\* BeforePropose: CMD_RETURN (do not broadcast) for an attacker.
BeforePropose(slot, p) ==
  LET a == <<slot, p.hex>> IN
  /\ att[a] = "signed"
  /\ ~locked
  /\ att' = [att EXCEPT ![a] =
       IF GetValidatorRoleByPubkey(slot, p) = AttackerRole
       THEN "withheld" ELSE "broadcast"]
  /\ UNCHANGED <<byIndex, byPubkey, attestSet, locked, duties, mk, crashed>>
-----------------------------------------------------------------------------
(* block_beforeSign: the collection loop of modifyBlock *)

\* The loop starts; "before" remembers what the store holds now.
StartCollect(g, e) ==
  /\ mk[g].pc = "idle"
  /\ mk' = [mk EXCEPT ![g] =
       [MkIdle EXCEPT !.pc = "slot", !.epoch = e, !.i = EpochStart(e),
          !.before = {sk \in Slots \X Padded :
                        SlotToEpoch(sk[1]) = e /\ sk[2] \in attestSet[sk[1]]}]]
  /\ UNCHANGED <<byIndex, byPubkey, attestSet, locked, duties, att, crashed>>

\* Mutant: the last slot of the epoch is left out.
InLoop_Short(m) == m.i < EpochEnd(m.epoch)

\* The loop condition i <= endEpoch.
InLoop(m) == m.i <= EpochEnd(m.epoch)

\* GetAttestSet(i) under the read lock.  A slot without a map is skipped (a
\* map exists as soon as an attestation was stored); otherwise the range over
\* the map begins.
GetAttestSet(g) ==
  LET i == mk[g].i IN
  /\ mk[g].pc = "slot" /\ InLoop(mk[g])
  /\ ~locked
  /\ mk' = [mk EXCEPT ![g] =
       IF attestSet[i] = {} THEN [@ EXCEPT !.i = i + 1]
       ELSE [@ EXCEPT !.pc = "range", !.todo = attestSet[i], !.seen = {}]]
  /\ UNCHANGED <<byIndex, byPubkey, attestSet, locked, duties, att, crashed>>

\* The next key of the range, read without the lock.  A key added since the
\* range began may or may not be met.
RangeNext(g, k) ==
  /\ mk[g].pc = "range"
  /\ k \in attestSet[mk[g].i] \ mk[g].seen
  /\ mk' = [mk EXCEPT ![g].pc = "check", ![g].seen = @ \cup {k}, ![g].key = k]
  /\ UNCHANGED <<byIndex, byPubkey, attestSet, locked, duties, att, crashed>>

\* Is some goroutine inside the assignment to the map of slot s?
Writing(s) == \E k \in Keys : att[<<s, k>>] = "writing"

\* The same access while the map is being written: the runtime may notice.
RangeCrash(g) ==
  /\ mk[g].pc = "range"
  /\ Writing(mk[g].i)
  /\ crashed' = TRUE
  /\ UNCHANGED <<byIndex, byPubkey, attestSet, locked, duties, att, mk>>

\* GetValidatorByPubkey(publicKey) under the read lock, then
\* GetValidatorRole(i, val.Index), then the test val != nil: for an unknown
\* key the second call dereferences nil and the request ends in a panic.
Collect(g) ==
  LET m   == mk[g]
      val == byPubkey[padPubkey(m.key)]
  IN
  /\ m.pc = "check"
  /\ ~locked
  /\ mk' = [mk EXCEPT
       ![g].pc  = IF val = Nil THEN "panic" ELSE "range",
       ![g].got = IF val # Nil /\ GetValidatorRole(m.i, val) = AttackerRole
                  THEN @ \cup {<<m.i, m.key>>} ELSE @]
  /\ UNCHANGED <<byIndex, byPubkey, attestSet, locked, duties, att, crashed>>

\* The range ends when every key that was there at its start was met.
RangeEnd(g) ==
  /\ mk[g].pc = "range"
  /\ mk[g].todo \subseteq mk[g].seen
  /\ mk' = [mk EXCEPT ![g].pc = "slot", ![g].i = @ + 1, ![g].todo = {}, ![g].seen = {}]
  /\ UNCHANGED <<byIndex, byPubkey, attestSet, locked, duties, att, crashed>>

\* The collected attestations go into the block ...
EndCollect(g) ==
  /\ mk[g].pc = "slot" /\ ~InLoop(mk[g])
  /\ mk' = [mk EXCEPT ![g].pc = "made"]
  /\ UNCHANGED <<byIndex, byPubkey, attestSet, locked, duties, att, crashed>>

\* ... and the request is answered, or the panic is reported as an error.
Reply(g) ==
  /\ mk[g].pc \in {"made", "panic"}
  /\ mk' = [mk EXCEPT ![g] = MkIdle]
  /\ UNCHANGED <<byIndex, byPubkey, attestSet, locked, duties, att, crashed>>
-----------------------------------------------------------------------------
Monitor ==
  \/ \E D \in SUBSET Validators : Tick(D)
  \/ \E v \in Validators : AddValidator(v)

Attest ==
  \/ \E s \in Slots, p \in Spelling, ok \in BOOLEAN : AfterSign(s, p, ok)
  \/ \E a \in Attestations : AddBegin(a) \/ AddEnd(a)
  \/ \E s \in Slots, p \in Spelling : BeforePropose(s, p)

Maker(g) ==
  \/ \E e \in Epochs : StartCollect(g, e)
  \/ GetAttestSet(g)
  \/ \E k \in Padded : RangeNext(g, k)
  \/ RangeCrash(g)
  \/ Collect(g)
  \/ RangeEnd(g)
  \/ EndCollect(g)
  \/ Reply(g)

Next == ~crashed /\ (Monitor \/ Attest \/ \E g \in Makers : Maker(g))

Spec == Init /\ [][Next]_vars

(***************************************************************************)
(* Go's RWMutex starves no reader, which is strong fairness of the steps of*)
(* a collection that take the lock; its other steps, and a write that has  *)
(* begun, need only be scheduled.                                          *)
(***************************************************************************)
Fairness ==
  /\ WF_vars(~crashed /\ \E a \in Attestations : AddEnd(a))
  /\ \A g \in Makers :
       /\ SF_vars(~crashed /\ (GetAttestSet(g) \/ Collect(g)))
       /\ WF_vars(~crashed /\ ((\E k \in Padded : RangeNext(g, k)) \/ RangeEnd(g)
                               \/ EndCollect(g) \/ Reply(g)))

FairSpec == Spec /\ Fairness
-----------------------------------------------------------------------------
MkType ==
  [pc : {"idle", "slot", "range", "check", "made", "panic"},
   epoch : Epochs, i : Nat, todo : SUBSET Padded, seen : SUBSET Padded,
   key : Padded \cup {NoKey}, got : SUBSET (Slots \X Padded),
   before : SUBSET (Slots \X Padded)]

\* Type invariant of the store and of the goroutines that use it.
TypeOK ==
  /\ byIndex \subseteq Validators
  /\ byPubkey \in [Padded -> Validators \cup {Nil}]
  /\ attestSet \in [Slots -> SUBSET Padded]
  /\ locked \in BOOLEAN
  /\ duties \subseteq Validators
  /\ att \in [Attestations -> Stages]
  /\ mk \in [Makers -> MkType]
  /\ crashed \in BOOLEAN

\* vs.lock protects the maps: a write is under way exactly while the lock is
\* held, and never two at once (a second one would be a concurrent map write).
WriteUnderLock ==
  /\ locked <=> \E a \in Attestations : att[a] = "writing"
  /\ \A a, b \in Attestations : att[a] = "writing" /\ att[b] = "writing" => a = b

\* modifyBlock dereferences the validator of every key it meets in the store
\* before it tests it for nil (block.go:150-152): no request may end in that
\* panic, because a stored key always belongs to a validator already added.
NoPanic == \A g \in Makers : mk[g].pc # "panic"

\* An attestation that went into the store, to be put into a block of the
\* attackers, was never broadcast: AfterSign and BeforePropose, two requests
\* at different times, agree on the role.
StoredNotBroadcast ==
  \A a \in Attestations :
    padPubkey(Spelled("", a[2])) \in attestSet[a[1]] => att[a] # "broadcast"

\* The block gets every attestation that the store held for its epoch when the
\* collection began, up to and including the epoch's last slot.
CollectComplete == \A g \in Makers : mk[g].pc = "made" => mk[g].before \subseteq mk[g].got

\* The block gets only attestations of its own epoch whose signer is an
\* attacker at the attested slot.
CollectSound ==
  \A g \in Makers : \A sk \in mk[g].got :
    /\ SlotToEpoch(sk[1]) = mk[g].epoch
    /\ \E v \in Validators :
         /\ KeyOf[v] = sk[2].hex
         /\ GetValidatorRole(sk[1], v) = AttackerRole

\* A collection that started comes to an end although it takes the lock again
\* and again against writers, unless the runtime aborts the process.
CollectEnds == \A g \in Makers : mk[g].pc # "idle" ~> mk[g].pc = "idle" \/ crashed

\* server/rpc: requests are served concurrently.  (Violated: a range over the
\* map of a slot that a concurrent attest_afterSign writes.)
NoCrash == ~crashed
=============================================================================
