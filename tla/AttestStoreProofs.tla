------------------------- MODULE AttestStoreProofs -------------------------
(***************************************************************************)
(* The safety properties of AttestStore for every epoch length, every set  *)
(* of validators, strategy, registry and set of concurrent requests.       *)
(*                                                                         *)
(* The inductive invariant has two halves.  StoreInv is about the store    *)
(* alone: a key is registered under its own validator, and whatever is on  *)
(* its way into the store or in it belongs to a registered attacker.       *)
(* MakerInv is about one collection: what it met so far is in "got".       *)
(***************************************************************************)
EXTENDS AttestStore, TLAPS

\* Multiplication by a natural number is monotone.
LEMMA TimesLe ==
  ASSUME NEW a \in Nat, NEW b \in Nat, NEW n \in Nat, a <= b
  PROVE  a * n <= b * n
<1>1. PICK d \in Nat : b = a + d
  <2>1. b - a \in Nat /\ b = a + (b - a) OBVIOUS
  <2> QED BY <2>1
<1>2. d * n \in Nat OBVIOUS
<1>3. b * n = a * n + d * n BY <1>1
<1> QED BY <1>2, <1>3

\* EpochStart and EpochEnd delimit exactly SlotsPerEpoch slots.
LEMMA EpochBounds ==
  ASSUME NEW e \in Nat
  PROVE  /\ EpochStart(e) \in Nat
         /\ EpochEnd(e) \in Nat
         /\ EpochEnd(e) = EpochStart(e) + SlotsPerEpoch - 1
<1>1. e * SlotsPerEpoch \in Nat BY SlotsPerEpochAssumption
<1>2. (e + 1) * SlotsPerEpoch = e * SlotsPerEpoch + SlotsPerEpoch
  BY SlotsPerEpochAssumption
<1> QED BY <1>1, <1>2, SlotsPerEpochAssumption DEF EpochStart, EpochEnd

\* EpochStart and EpochEnd enclose exactly the slots that SlotToEpoch maps to
\* the epoch.
LEMMA EpochSlots ==
  ASSUME NEW e \in Nat, NEW s \in Nat
  PROVE  SlotToEpoch(s) = e <=> EpochStart(e) <= s /\ s <= EpochEnd(e)
<1> DEFINE q == s \div SlotsPerEpoch
<1> DEFINE n == SlotsPerEpoch
<1>n. n \in Nat /\ n > 0 BY SlotsPerEpochAssumption
<1>1. q \in Nat /\ q * n <= s /\ s < q * n + n BY <1>n
<1> HIDE DEF q, n
<1>2. SlotToEpoch(s) = q /\ EpochStart(e) = e * n /\ EpochEnd(e) = e * n + n - 1
  BY EpochBounds DEF SlotToEpoch, EpochStart, q, n
<1>p. q * n \in Nat /\ e * n \in Nat BY <1>1, <1>n
<1>3. CASE q = e BY <1>3, <1>2, <1>1, <1>n, <1>p
<1>4. CASE q < e
  <2>1. (q + 1) * n <= e * n BY <1>1, <1>4, <1>n, TimesLe
  <2>2. (q + 1) * n = q * n + n BY <1>1, <1>n
  <2> QED BY <2>1, <2>2, <1>1, <1>2, <1>n, <1>p, <1>4
<1>5. CASE q > e
  <2>1. (e + 1) * n <= q * n BY <1>1, <1>5, <1>n, TimesLe
  <2>2. (e + 1) * n = e * n + n BY <1>n
  <2> QED BY <2>1, <2>2, <1>1, <1>2, <1>n, <1>p, <1>5
<1> QED BY <1>1, <1>3, <1>4, <1>5

-----------------------------------------------------------------------------
\* k is the key of a validator the store knows, an attacker at slot s.
KnownAttacker(s, k) ==
  byPubkey[k] # Nil /\ GetValidatorRole(s, byPubkey[k]) = AttackerRole

Pad(k) == padPubkey(Spelled("", k))

Registered ==
  \A k \in Padded : byPubkey[k] # Nil => KeyOf[byPubkey[k]] = k.hex

AddingKnown ==
  \A a \in Attestations :
    att[a] \in {"adding", "writing"} => KnownAttacker(a[1], Pad(a[2]))

StoredKnown ==
  \A s \in Slots : \A k \in attestSet[s] : KnownAttacker(s, k)

StoredStage ==
  \A a \in Attestations :
    Pad(a[2]) \in attestSet[a[1]] => att[a] \in {"signed", "withheld"}

StoreInv == Registered /\ AddingKnown /\ StoredKnown /\ StoredStage

MakerInv(g) ==
  LET m == mk[g] IN
  /\ m.pc = "idle" => m.got = {}
  /\ m.pc \in {"slot", "range", "check", "made"} =>
    /\ EpochStart(m.epoch) <= m.i
    /\ m.pc \in {"range", "check"} => InLoop(m)
    /\ m.pc = "made" => ~InLoop(m)
    /\ \A sk \in m.got :
         /\ EpochStart(m.epoch) <= sk[1]
         /\ sk[1] <= EpochEnd(m.epoch)
         /\ KnownAttacker(sk[1], sk[2])
    /\ \A sk \in m.before :
         /\ EpochStart(m.epoch) <= sk[1]
         /\ sk[1] <= EpochEnd(m.epoch)
         /\ sk[2] \in attestSet[sk[1]]
         /\ sk[1] < m.i => sk \in m.got
         /\ m.pc \in {"range", "check"} /\ sk[1] = m.i => sk[2] \in m.todo
    /\ m.pc = "check" => m.key \in attestSet[m.i]
    /\ m.pc \in {"range", "check"} =>
         \A k \in m.seen :
           /\ k \in attestSet[m.i]
           /\ (m.pc = "check" /\ k = m.key) \/ <<m.i, k>> \in m.got

IInv == TypeOK /\ WriteUnderLock /\ StoreInv /\ NoPanic /\ \A g \in Makers : MakerInv(g)
-----------------------------------------------------------------------------
(* Slot arithmetic *)

\* The slots modifyBlock's loop visits are slots of the model.
LEMMA LoopSlot ==
  ASSUME NEW e \in Epochs, NEW i \in Nat, i <= EpochEnd(e)
  PROVE  i \in Slots
<1>1. e + 1 \in Nat /\ MaxEpoch + 1 \in Nat /\ e + 1 <= MaxEpoch + 1
  BY MaxEpochAssumption DEF Epochs
<1>2. (e + 1) * SlotsPerEpoch <= (MaxEpoch + 1) * SlotsPerEpoch
  BY <1>1, TimesLe, SlotsPerEpochAssumption
<1>3. e \in Nat BY MaxEpochAssumption DEF Epochs
<1>4. EpochEnd(e) \in Nat /\ EpochStart(MaxEpoch + 1) \in Nat BY <1>1, <1>3, EpochBounds
<1>5. (e + 1) * SlotsPerEpoch \in Nat BY <1>1, SlotsPerEpochAssumption
<1> QED BY <1>2, <1>4, <1>5 DEF Slots, EpochEnd, EpochStart

-----------------------------------------------------------------------------
(* Public keys *)

\* padPubkey maps both spellings of a key to the prefixed one and keeps the key.
LEMMA PadSpelling ==
  ASSUME NEW p \in Spelling
  PROVE  /\ padPubkey(p) = Spelled("0x", p.hex)
         /\ padPubkey(p) \in Padded
         /\ padPubkey(p).hex = p.hex
         /\ p.hex \in Keys
         /\ Pad(p.hex) = padPubkey(p)
BY DEF Spelling, padPubkey, Spelled, Padded, Pad

\* A key without its prefix, as AddSignedAttestation gets it, is padded.
LEMMA PadKey ==
  ASSUME NEW k \in Keys
  PROVE  /\ Pad(k) = Spelled("0x", k)
         /\ Pad(k) \in Padded
         /\ Pad(k).hex = k
BY DEF padPubkey, Spelled, Padded, Pad

\* A padded key is left alone by padPubkey.
LEMMA PadPadded ==
  ASSUME NEW k \in Padded
  PROVE  padPubkey(k) = k /\ k.hex \in Keys /\ Pad(k.hex) = k /\ k \in Spelling
BY DEF padPubkey, Spelled, Padded, Pad, Spelling
-----------------------------------------------------------------------------
(* The initial states *)

\* The empty store satisfies the inductive invariant.
LEMMA InitIInv == Init => IInv
<1> SUFFICES ASSUME Init PROVE IInv OBVIOUS
<1>1. 0 \in Epochs BY MaxEpochAssumption DEF Epochs
<1>2. MkIdle \in MkType /\ MkIdle.pc = "idle" /\ MkIdle.got = {} BY <1>1 DEF MkIdle, MkType
<1>3. TypeOK BY <1>2 DEF Init, TypeOK, Stages
<1>4. WriteUnderLock BY DEF Init, WriteUnderLock
<1>5. StoreInv
  BY DEF Init, StoreInv, Registered, AddingKnown, StoredKnown, StoredStage, Attestations
<1>6. NoPanic BY <1>2 DEF Init, NoPanic
<1>7. \A g \in Makers : MakerInv(g) BY <1>2 DEF Init, MakerInv
<1> QED BY <1>3, <1>4, <1>5, <1>6, <1>7 DEF IInv
-----------------------------------------------------------------------------
(* One step *)

\* A step that leaves the makers alone and only adds to the store and to the
\* known attackers preserves what is known of every collection.
LEMMA MakerFrame ==
  ASSUME TypeOK, NEW g \in Makers, MakerInv(g), mk' = mk,
         \A s \in Slots : attestSet[s] \subseteq attestSet'[s],
         \A s \in Slots, k \in Padded : KnownAttacker(s, k) => KnownAttacker(s, k)'
  PROVE  MakerInv(g)'
<1> DEFINE m == mk[g]
<1>1. m \in MkType BY DEF TypeOK
<1>2. m.got \subseteq Slots \X Padded /\ m.before \subseteq Slots \X Padded
      /\ m.epoch \in Epochs /\ m.i \in Nat /\ m.seen \subseteq Padded
  BY <1>1 DEF MkType
<1>3. InLoop(m) => m.i \in Slots BY <1>2, LoopSlot DEF InLoop
<1> HIDE DEF m
<1>4. mk'[g] = m BY DEF m
<1>5. \A sk \in m.got : KnownAttacker(sk[1], sk[2]) => KnownAttacker(sk[1], sk[2])'
  BY <1>2
<1>6. \A sk \in m.before : sk[2] \in attestSet[sk[1]] => sk[2] \in attestSet'[sk[1]]
  BY <1>2
<1>7. InLoop(m) => attestSet[m.i] \subseteq attestSet'[m.i] BY <1>3
<1> QED BY <1>4, <1>5, <1>6, <1>7 DEF MakerInv, m, InLoop

\* Nothing about the store is disturbed by a step of a maker.
LEMMA StoreFrame ==
  ASSUME StoreInv, WriteUnderLock,
         UNCHANGED <<byIndex, byPubkey, attestSet, locked, duties, att, crashed>>
  PROVE  StoreInv' /\ WriteUnderLock'
BY DEF StoreInv, WriteUnderLock, Registered, AddingKnown, StoredKnown, StoredStage,
       KnownAttacker

\* monitorDuties and AddValidator preserve it: the known keys only grow.
LEMMA MonitorStep ==
  ASSUME IInv, Monitor
  PROVE  IInv'
<1> USE DEF IInv
<1>1. ASSUME NEW D \in SUBSET Validators, Tick(D) PROVE IInv'
  <2>1. TypeOK' BY <1>1 DEF Tick, TypeOK
  <2>2. WriteUnderLock' /\ StoreInv' /\ NoPanic'
    BY <1>1 DEF Tick, StoreInv, WriteUnderLock, Registered, AddingKnown, StoredKnown,
                StoredStage, KnownAttacker, NoPanic
  <2>3. \A g \in Makers : MakerInv(g)'
    BY <1>1, MakerFrame DEF Tick, KnownAttacker
  <2> QED BY <2>1, <2>2, <2>3
<1>2. ASSUME NEW v \in Validators, AddValidator(v) PROVE IInv'
  <2> DEFINE kv == padPubkey(Spelled("0x", KeyOf[v]))
  <2>1. /\ kv \in Padded /\ kv.hex = KeyOf[v]
        /\ v # Nil
    BY ValidatorsAssumption DEF padPubkey, Spelled, Padded, Keys, Nil
  <2>2. byPubkey' = [byPubkey EXCEPT ![kv] = v] /\ byPubkey \in [Padded -> Validators \cup {Nil}]
    BY <1>2 DEF AddValidator, TypeOK
  <2> HIDE DEF kv
  <2>3. TypeOK' BY <1>2, <2>1, <2>2 DEF AddValidator, TypeOK
  <2>4. \A k \in Padded : byPubkey[k] # Nil => byPubkey'[k] = byPubkey[k]
    <3> SUFFICES ASSUME NEW k \in Padded, byPubkey[k] # Nil PROVE byPubkey'[k] = byPubkey[k]
      OBVIOUS
    <3>1. CASE k # kv BY <3>1, <2>1, <2>2
    <3>2. CASE k = kv
      <4>1. byPubkey[k] \in Validators BY <2>2
      <4>2. KeyOf[byPubkey[k]] = KeyOf[v] BY <3>2, <2>1 DEF StoreInv, Registered
      <4> QED BY <4>1, <4>2, <3>2, <2>1, <2>2, KeyAssumption
    <3> QED BY <3>1, <3>2
  <2>5. \A s \in Slots, k \in Padded : KnownAttacker(s, k) => KnownAttacker(s, k)'
    BY <2>4 DEF KnownAttacker
  <2>6. Registered'
    BY <2>1, <2>2 DEF StoreInv, Registered
  <2>7. AddingKnown' /\ StoredKnown' /\ StoredStage'
    <3>1. \A a \in Attestations : a[1] \in Slots /\ Pad(a[2]) \in Padded
      BY PadKey DEF Attestations
    <3>2. \A s \in Slots : attestSet[s] \subseteq Padded BY DEF TypeOK
    <3>3. UNCHANGED <<att, attestSet>> BY <1>2 DEF AddValidator
    <3> QED BY <3>1, <3>2, <3>3, <2>5 DEF StoreInv, AddingKnown, StoredKnown, StoredStage
  <2>8. WriteUnderLock' /\ NoPanic' BY <1>2 DEF AddValidator, WriteUnderLock, NoPanic
  <2>9. \A g \in Makers : MakerInv(g)' BY <1>2, <2>5, MakerFrame DEF AddValidator
  <2> QED BY <2>3, <2>6, <2>7, <2>8, <2>9 DEF StoreInv
<1> QED BY <1>1, <1>2 DEF Monitor

\* The attest_* requests preserve it: only keys of known validators are stored.
LEMMA AttestStep ==
  ASSUME IInv, Attest
  PROVE  IInv'
<1> USE DEF IInv
<1>a. \A a \in Attestations : a[1] \in Slots /\ a[2] \in Keys /\ Pad(a[2]) \in Padded
                              /\ Pad(a[2]).hex = a[2]
  BY PadKey DEF Attestations
<1>b. ASSUME NEW s \in Slots, NEW p \in Spelling
      PROVE  /\ <<s, p.hex>> \in Attestations
             /\ GetValidatorRoleByPubkey(s, p) # NormalRole <=> KnownAttacker(s, Pad(p.hex))
             /\ GetValidatorRoleByPubkey(s, p) = AttackerRole <=> KnownAttacker(s, Pad(p.hex))
  BY PadSpelling DEF Attestations, GetValidatorRoleByPubkey, KnownAttacker,
                     GetValidatorRole, NormalRole, AttackerRole
<1>1. ASSUME NEW s \in Slots, NEW p \in Spelling, NEW ok \in BOOLEAN, AfterSign(s, p, ok)
      PROVE  IInv'
  <2> DEFINE a == <<s, p.hex>>
  <2>1. /\ a \in Attestations /\ a[1] = s /\ a[2] = p.hex /\ att[a] = "new"
        /\ UNCHANGED <<byIndex, byPubkey, attestSet, locked, duties, mk, crashed>>
        /\ \/ att' = [att EXCEPT ![a] = "signed"]
           \/ att' = [att EXCEPT ![a] = "adding"] /\ KnownAttacker(s, Pad(p.hex))
    BY <1>1, <1>b DEF AfterSign
  <2> HIDE DEF a
  <2>2. TypeOK' BY <2>1 DEF TypeOK, Stages
  <2>3. WriteUnderLock' BY <2>1 DEF TypeOK, WriteUnderLock
  <2>4. Registered' /\ StoredKnown' /\ NoPanic'
    BY <2>1 DEF StoreInv, Registered, StoredKnown, KnownAttacker, NoPanic
  <2>5. AddingKnown' BY <2>1 DEF TypeOK, StoreInv, AddingKnown, KnownAttacker
  <2>6. StoredStage' BY <2>1 DEF TypeOK, StoreInv, StoredStage
  <2>7. \A g \in Makers : MakerInv(g)' BY <2>1, MakerFrame DEF KnownAttacker
  <2> QED BY <2>2, <2>3, <2>4, <2>5, <2>6, <2>7 DEF StoreInv
<1>2. ASSUME NEW a \in Attestations, AddBegin(a) PROVE IInv'
  <2>1. TypeOK' BY <1>2 DEF AddBegin, TypeOK, Stages
  <2>2. WriteUnderLock' BY <1>2 DEF AddBegin, TypeOK, WriteUnderLock
  <2>3. StoreInv' /\ NoPanic'
    BY <1>2 DEF AddBegin, TypeOK, StoreInv, Registered, StoredKnown, AddingKnown, StoredStage,
                KnownAttacker, NoPanic
  <2>4. \A g \in Makers : MakerInv(g)' BY <1>2, MakerFrame DEF AddBegin, KnownAttacker
  <2> QED BY <2>1, <2>2, <2>3, <2>4
<1>3. ASSUME NEW a \in Attestations, AddEnd(a) PROVE IInv'
  <2>1. /\ att[a] = "writing" /\ att' = [att EXCEPT ![a] = "signed"] /\ locked' = FALSE
        /\ attestSet' = [attestSet EXCEPT ![a[1]] = attestSet[a[1]] \cup {Pad(a[2])}]
        /\ UNCHANGED <<byIndex, byPubkey, duties, mk, crashed>>
    BY <1>3 DEF AddEnd, Pad
  <2>2. TypeOK' BY <2>1, <1>a DEF TypeOK, Stages
  <2>3. WriteUnderLock' BY <2>1 DEF TypeOK, WriteUnderLock
  <2>4. KnownAttacker(a[1], Pad(a[2])) BY <2>1 DEF StoreInv, AddingKnown
  <2>5. Registered' /\ NoPanic' BY <2>1 DEF StoreInv, Registered, NoPanic
  <2>6. AddingKnown' BY <2>1 DEF TypeOK, StoreInv, AddingKnown, KnownAttacker
  <2>7. StoredKnown' BY <2>1, <2>4, <1>a DEF TypeOK, StoreInv, StoredKnown, KnownAttacker
  <2>8. StoredStage'
    <3> SUFFICES ASSUME NEW b \in Attestations, Pad(b[2]) \in attestSet'[b[1]], b # a
                 PROVE  att'[b] \in {"signed", "withheld"}
      BY <2>1 DEF TypeOK, StoredStage
    <3>1. a[1] # b[1] \/ a[2] # b[2] BY DEF Attestations
    <3>2. Pad(b[2]) \in attestSet[b[1]] BY <3>1, <2>1, <1>a DEF TypeOK
    <3> QED BY <3>2, <2>1 DEF TypeOK, StoreInv, StoredStage
  <2>9. \A g \in Makers : MakerInv(g)' 
    <3>1. \A s \in Slots : attestSet[s] \subseteq attestSet'[s] BY <2>1, <1>a DEF TypeOK
    <3> QED BY <3>1, <2>1, MakerFrame DEF KnownAttacker
  <2> QED BY <2>2, <2>3, <2>5, <2>6, <2>7, <2>8, <2>9 DEF StoreInv
<1>4. ASSUME NEW s \in Slots, NEW p \in Spelling, BeforePropose(s, p) PROVE IInv'
  <2> DEFINE a == <<s, p.hex>>
  <2>1. /\ a \in Attestations /\ a[1] = s /\ a[2] = p.hex /\ att[a] = "signed"
        /\ UNCHANGED <<byIndex, byPubkey, attestSet, locked, duties, mk, crashed>>
        /\ \/ att' = [att EXCEPT ![a] = "withheld"]
           \/ att' = [att EXCEPT ![a] = "broadcast"] /\ ~KnownAttacker(a[1], Pad(a[2]))
    BY <1>4, <1>b DEF BeforePropose
  <2> HIDE DEF a
  <2>2. TypeOK' BY <2>1 DEF TypeOK, Stages
  <2>3. WriteUnderLock' BY <2>1 DEF TypeOK, WriteUnderLock
  <2>4. Registered' /\ StoredKnown' /\ NoPanic'
    BY <2>1 DEF StoreInv, Registered, StoredKnown, KnownAttacker, NoPanic
  <2>5. AddingKnown' BY <2>1 DEF TypeOK, StoreInv, AddingKnown, KnownAttacker
  <2>6. StoredStage' BY <2>1, <1>a DEF TypeOK, StoreInv, StoredStage, StoredKnown
  <2>7. \A g \in Makers : MakerInv(g)' BY <2>1, MakerFrame DEF KnownAttacker
  <2> QED BY <2>2, <2>3, <2>4, <2>5, <2>6, <2>7 DEF StoreInv
<1> QED BY <1>1, <1>2, <1>3, <1>4 DEF Attest

\* A step of maker g gives mk[g] a new value; the other makers, and the store,
\* are as before, so only MakerInv(g) and the absence of a panic are at stake.
LEMMA MakerOnly ==
  ASSUME IInv, NEW g \in Makers, NEW m \in MkType, m.pc # "panic",
         mk' = [mk EXCEPT ![g] = m],
         UNCHANGED <<byIndex, byPubkey, attestSet, locked, duties, att, crashed>>,
         MakerInv(g)'
  PROVE  IInv'
<1> USE DEF IInv
<1>1. TypeOK' BY DEF TypeOK
<1>2. StoreInv' /\ WriteUnderLock' BY StoreFrame
<1>3. \A h \in Makers : h # g => mk'[h] = mk[h] BY DEF TypeOK
<1>4. NoPanic' BY <1>3 DEF TypeOK, NoPanic
<1>5. ASSUME NEW h \in Makers, h # g PROVE MakerInv(h)'
  BY <1>5, <1>3 DEF MakerInv, KnownAttacker
<1> QED BY <1>1, <1>2, <1>4, <1>5

\* The collection loop of modifyBlock preserves it.
LEMMA MakerStep ==
  ASSUME IInv, NEW g \in Makers, Maker(g)
  PROVE  IInv'
<1> USE DEF IInv
<1> DEFINE m == mk[g]
<1>m. m \in MkType BY DEF TypeOK
<1>t. /\ m.epoch \in Epochs /\ m.epoch \in Nat /\ m.i \in Nat
      /\ m.got \subseteq Slots \X Padded /\ m.before \subseteq Slots \X Padded
      /\ m.seen \subseteq Padded /\ m.todo \subseteq Padded
  BY <1>m, MaxEpochAssumption DEF MkType, Epochs
<1>l. InLoop(m) => m.i \in Slots BY <1>t, LoopSlot DEF InLoop
<1>b. EpochStart(m.epoch) \in Nat /\ EpochEnd(m.epoch) \in Nat BY <1>t, EpochBounds
<1>s. /\ attestSet \in [Slots -> SUBSET Padded] /\ Slots \subseteq Nat
      /\ mk \in [Makers -> MkType]
  BY DEF TypeOK, Slots
<1>i. MakerInv(g) OBVIOUS
<1>1. ASSUME NEW e \in Epochs, StartCollect(g, e) PROVE IInv'
  <2> DEFINE B == {sk \in Slots \X Padded :
                     SlotToEpoch(sk[1]) = e /\ sk[2] \in attestSet[sk[1]]}
  <2> DEFINE n == [MkIdle EXCEPT !.pc = "slot", !.epoch = e, !.i = EpochStart(e), !.before = B]
  <2>e. e \in Nat BY MaxEpochAssumption DEF Epochs
  <2>1. /\ mk' = [mk EXCEPT ![g] = n]
        /\ UNCHANGED <<byIndex, byPubkey, attestSet, locked, duties, att, crashed>>
    BY <1>1 DEF StartCollect
  <2>2. /\ n \in MkType /\ n.pc = "slot" /\ n.i = EpochStart(e) /\ n.epoch = e
        /\ n.got = {} /\ n.before = B
    BY <2>e, EpochBounds DEF MkIdle, MkType
  <2>3. \A sk \in B : /\ EpochStart(e) <= sk[1] /\ sk[1] <= EpochEnd(e)
                      /\ sk[2] \in attestSet[sk[1]] /\ sk[1] \in Nat
    BY <2>e, <1>s, EpochSlots
  <2>4. EpochStart(e) \in Nat BY <2>e, EpochBounds
  <2> HIDE DEF n, B
  <2>5. mk'[g] = n BY <2>1, <1>s
  <2>6. MakerInv(g)' BY <2>1, <2>2, <2>3, <2>4, <2>5 DEF MakerInv
  <2> QED BY <2>1, <2>2, <2>6, MakerOnly
<1>2. ASSUME GetAttestSet(g) PROVE IInv'
  <2> DEFINE n == IF attestSet[m.i] = {} THEN [m EXCEPT !.i = m.i + 1]
                  ELSE [m EXCEPT !.pc = "range", !.todo = attestSet[m.i], !.seen = {}]
  <2>1. /\ m.pc = "slot" /\ InLoop(m) /\ m.i \in Slots
        /\ mk' = [mk EXCEPT ![g] = n]
        /\ UNCHANGED <<byIndex, byPubkey, attestSet, locked, duties, att, crashed>>
    BY <1>2, <1>l DEF GetAttestSet
  <2>2. /\ n \in MkType /\ n.pc \in {"slot", "range"}
        /\ n.epoch = m.epoch /\ n.got = m.got /\ n.before = m.before
        /\ n.pc = "slot" => n.i = m.i + 1 /\ attestSet[m.i] = {}
        /\ n.pc = "range" => n.i = m.i /\ n.todo = attestSet[m.i] /\ n.seen = {}
    <3>1. m.i + 1 \in Nat /\ attestSet[m.i] \in SUBSET Padded BY <1>t, <1>s, <2>1
    <3> HIDE DEF m
    <3>2. CASE attestSet[m.i] = {} BY <3>2, <3>1, <2>1, <1>m DEF MkType
    <3>3. CASE attestSet[m.i] # {} BY <3>3, <3>1, <2>1, <1>m DEF MkType
    <3> QED BY <3>2, <3>3
  <2>3. \A sk \in m.before : sk[1] \in Nat /\ sk[2] \in attestSet[sk[1]] BY <1>t, <1>s, <1>i, <2>1 DEF MakerInv
  <2> HIDE DEF n
  <2>4. mk'[g] = n BY <2>1, <1>s
  <2> HIDE DEF m
  <2>5. MakerInv(g)'
    <3>1. CASE n.pc = "slot"
      BY <3>1, <1>t, <1>b, <1>i, <2>1, <2>2, <2>3, <2>4 DEF MakerInv, m, KnownAttacker
    <3>2. CASE n.pc = "range"
      BY <3>2, <1>t, <1>b, <1>i, <2>1, <2>2, <2>3, <2>4 DEF MakerInv, m, KnownAttacker, InLoop
    <3> QED BY <3>1, <3>2, <2>2
  <2> QED BY <2>1, <2>2, <2>5, MakerOnly
<1>3. ASSUME NEW k \in Padded, RangeNext(g, k) PROVE IInv'
  <2> DEFINE n == [m EXCEPT !.pc = "check", !.seen = m.seen \cup {k}, !.key = k]
  <2>1. /\ m.pc = "range" /\ k \in attestSet[m.i]
        /\ mk' = [mk EXCEPT ![g] = n]
        /\ UNCHANGED <<byIndex, byPubkey, attestSet, locked, duties, att, crashed>>
    BY <1>3, <1>s, <1>m DEF RangeNext, MkType
  <2>2. /\ n \in MkType /\ n.pc = "check" /\ n.i = m.i /\ n.key = k /\ n.todo = m.todo
        /\ n.epoch = m.epoch /\ n.got = m.got /\ n.before = m.before
        /\ n.seen = m.seen \cup {k}
    BY <1>m, <1>t DEF MkType
  <2> HIDE DEF n
  <2>4. mk'[g] = n BY <2>1, <1>s
  <2> HIDE DEF m
  <2>5. MakerInv(g)'
    BY <1>t, <1>b, <1>i, <2>1, <2>2, <2>4 DEF MakerInv, m, KnownAttacker, InLoop
  <2> QED BY <2>1, <2>2, <2>5, MakerOnly
<1>4. ASSUME RangeCrash(g) PROVE IInv'
  BY <1>4, MakerFrame
     DEF RangeCrash, TypeOK, WriteUnderLock, StoreInv, Registered, AddingKnown, StoredKnown,
         StoredStage, KnownAttacker, NoPanic
<1>5. ASSUME Collect(g) PROVE IInv'
  <2>1. m.pc = "check" /\ m.key \in attestSet[m.i] /\ m.i \in Slots /\ InLoop(m)
    BY <1>5, <1>i, <1>l DEF Collect, MakerInv
  <2>2. m.key \in Padded /\ KnownAttacker(m.i, m.key) BY <2>1, <1>s DEF StoreInv, StoredKnown
  <2> DEFINE n == [m EXCEPT !.pc = "range", !.got = m.got \cup {<<m.i, m.key>>}]
  <2>3. /\ mk' = [mk EXCEPT ![g] = n]
        /\ UNCHANGED <<byIndex, byPubkey, attestSet, locked, duties, att, crashed>>
    BY <1>5, <1>s, <1>m, <2>2, PadPadded DEF Collect, KnownAttacker, MkType
  <2>4. /\ n \in MkType /\ n.pc = "range" /\ n.i = m.i /\ n.todo = m.todo
        /\ n.epoch = m.epoch /\ n.got = m.got \cup {<<m.i, m.key>>} /\ n.before = m.before
        /\ n.seen = m.seen
    <3>1. m.got \cup {<<m.i, m.key>>} \in SUBSET (Slots \X Padded) BY <1>t, <2>1, <2>2
    <3> HIDE DEF m
    <3> QED BY <3>1, <1>m DEF MkType
  <2> HIDE DEF n
  <2>5. mk'[g] = n BY <2>3, <1>s
  <2> HIDE DEF m
  <2>6. MakerInv(g)'
    BY <1>t, <1>b, <1>i, <2>1, <2>2, <2>3, <2>4, <2>5 DEF MakerInv, m, KnownAttacker, InLoop
  <2> QED BY <2>3, <2>4, <2>6, MakerOnly
<1>6. ASSUME RangeEnd(g) PROVE IInv'
  <2> DEFINE n == [m EXCEPT !.pc = "slot", !.i = m.i + 1, !.todo = {}, !.seen = {}]
  <2>1. /\ m.pc = "range" /\ m.todo \subseteq m.seen
        /\ mk' = [mk EXCEPT ![g] = n]
        /\ UNCHANGED <<byIndex, byPubkey, attestSet, locked, duties, att, crashed>>
    BY <1>6, <1>s, <1>m DEF RangeEnd, MkType
  <2>2. /\ n \in MkType /\ n.pc = "slot" /\ n.i = m.i + 1
        /\ n.epoch = m.epoch /\ n.got = m.got /\ n.before = m.before
    <3>1. m.i + 1 \in Nat BY <1>t
    <3> HIDE DEF m
    <3> QED BY <3>1, <1>m DEF MkType
  <2>3. \A sk \in m.before : sk[1] <= m.i => sk \in m.got
    <3> SUFFICES ASSUME NEW sk \in m.before, sk[1] <= m.i PROVE sk \in m.got OBVIOUS
    <3>1. sk[1] \in Nat /\ sk = <<sk[1], sk[2]>> BY <1>t, <1>s
    <3>2. CASE sk[1] < m.i BY <3>2, <1>i, <2>1 DEF MakerInv
    <3>3. CASE sk[1] = m.i
      <4>1. sk[2] \in m.seen BY <3>3, <1>i, <2>1 DEF MakerInv
      <4>2. <<m.i, sk[2]>> \in m.got BY <4>1, <1>i, <2>1 DEF MakerInv
      <4> QED BY <4>2, <3>1, <3>3
    <3> QED BY <3>1, <3>2, <3>3, <1>t
  <2>4. \A sk \in m.before : sk[1] \in Nat BY <1>t, <1>s
  <2> HIDE DEF n
  <2>5. mk'[g] = n BY <2>1, <1>s
  <2> HIDE DEF m
  <2>6. MakerInv(g)'
    BY <1>t, <1>b, <1>i, <2>1, <2>2, <2>3, <2>4, <2>5 DEF MakerInv, m, KnownAttacker
  <2> QED BY <2>1, <2>2, <2>6, MakerOnly
<1>7. ASSUME EndCollect(g) PROVE IInv'
  <2> DEFINE n == [m EXCEPT !.pc = "made"]
  <2>1. /\ m.pc = "slot" /\ ~InLoop(m)
        /\ mk' = [mk EXCEPT ![g] = n]
        /\ UNCHANGED <<byIndex, byPubkey, attestSet, locked, duties, att, crashed>>
    BY <1>7, <1>s, <1>m DEF EndCollect, MkType
  <2>2. /\ n \in MkType /\ n.pc = "made" /\ n.i = m.i
        /\ n.epoch = m.epoch /\ n.got = m.got /\ n.before = m.before
    BY <1>m, <1>t DEF MkType
  <2> HIDE DEF n
  <2>5. mk'[g] = n BY <2>1, <1>s
  <2> HIDE DEF m
  <2>6. MakerInv(g)'
    BY <1>t, <1>b, <1>i, <2>1, <2>2, <2>5 DEF MakerInv, m, KnownAttacker, InLoop
  <2> QED BY <2>1, <2>2, <2>6, MakerOnly
<1>8. ASSUME Reply(g) PROVE IInv'
  <2>1. /\ mk' = [mk EXCEPT ![g] = MkIdle]
        /\ UNCHANGED <<byIndex, byPubkey, attestSet, locked, duties, att, crashed>>
    BY <1>8 DEF Reply
  <2>2. MkIdle \in MkType /\ MkIdle.pc = "idle" /\ MkIdle.got = {}
    BY MaxEpochAssumption DEF MkIdle, MkType, Epochs
  <2>3. MakerInv(g)' BY <2>1, <2>2, <1>s DEF MakerInv
  <2> QED BY <2>1, <2>2, <2>3, MakerOnly
<1> QED BY <1>1, <1>2, <1>3, <1>4, <1>5, <1>6, <1>7, <1>8 DEF Maker
-----------------------------------------------------------------------------
(* The theorems *)

\* Every step of the service preserves the inductive invariant.
LEMMA Inductive == IInv /\ [Next]_vars => IInv'
<1> SUFFICES ASSUME IInv, [Next]_vars PROVE IInv' OBVIOUS
<1>1. CASE Monitor BY <1>1, MonitorStep
<1>2. CASE Attest BY <1>2, AttestStep
<1>3. CASE \E g \in Makers : Maker(g) BY <1>3, MakerStep
<1>4. CASE UNCHANGED vars
  <2> USE <1>4 DEF vars, IInv
  <2>1. TypeOK' /\ WriteUnderLock' /\ NoPanic' BY DEF TypeOK, WriteUnderLock, NoPanic
  <2>2. StoreInv' BY StoreFrame
  <2>3. \A g \in Makers : MakerInv(g)' BY MakerFrame DEF KnownAttacker
  <2> QED BY <2>1, <2>2, <2>3
<1> QED BY <1>1, <1>2, <1>3, <1>4 DEF Next

\* The inductive invariant holds in every reachable state.
LEMMA Invariance == Spec => []IInv
BY InitIInv, Inductive, PTL DEF Spec

\* The store and the goroutines of monitorDuties, attest_* and block_beforeSign
\* keep their types.
THEOREM TypeCorrect == Spec => []TypeOK
<1>1. IInv => TypeOK BY DEF IInv
<1> QED BY <1>1, Invariance, PTL

\* vs.lock is held exactly while one AddSignedAttestation writes.
THEOREM Exclusion == Spec => []WriteUnderLock
<1>1. IInv => WriteUnderLock BY DEF IInv
<1> QED BY <1>1, Invariance, PTL

\* The nil dereference of block.go:151 is never reached.
THEOREM PanicFree == Spec => []NoPanic
<1>1. IInv => NoPanic BY DEF IInv
<1> QED BY <1>1, Invariance, PTL

\* What AfterSign stored, BeforePropose did not let out.
THEOREM StoredStaysPrivate == Spec => []StoredNotBroadcast
<1>1. IInv => StoredNotBroadcast
  BY DEF IInv, StoreInv, StoredStage, StoredNotBroadcast, Pad
<1> QED BY <1>1, Invariance, PTL

\* modifyBlock misses no attestation stored before its collection began.
THEOREM CollectionComplete == Spec => []CollectComplete
<1>1. IInv => CollectComplete
  <2> SUFFICES ASSUME IInv, NEW g \in Makers, mk[g].pc = "made", NEW sk \in mk[g].before
               PROVE  sk \in mk[g].got
    BY DEF CollectComplete
  <2>1. mk[g] \in MkType BY DEF IInv, TypeOK
  <2>2. mk[g].i \in Nat /\ mk[g].epoch \in Nat /\ sk[1] \in Nat
    BY <2>1, MaxEpochAssumption DEF MkType, Epochs, Slots
  <2>3. EpochEnd(mk[g].epoch) \in Nat BY <2>2, EpochBounds
  <2>4. sk[1] <= EpochEnd(mk[g].epoch) /\ ~InLoop(mk[g]) BY DEF IInv, MakerInv
  <2>5. sk[1] < mk[g].i BY <2>2, <2>3, <2>4 DEF InLoop
  <2> QED BY <2>5 DEF IInv, MakerInv
<1> QED BY <1>1, Invariance, PTL

\* modifyBlock takes only attackers' attestations of the block's epoch.
THEOREM CollectionSound == Spec => []CollectSound
<1>1. IInv => CollectSound
  <2> SUFFICES ASSUME IInv, NEW g \in Makers, NEW sk \in mk[g].got
               PROVE  /\ SlotToEpoch(sk[1]) = mk[g].epoch
                      /\ \E v \in Validators :
                           KeyOf[v] = sk[2].hex /\ GetValidatorRole(sk[1], v) = AttackerRole
    BY DEF CollectSound
  <2>1. mk[g] \in MkType BY DEF IInv, TypeOK
  <2>2. mk[g].epoch \in Nat /\ sk[1] \in Nat /\ sk[2] \in Padded
    BY <2>1, MaxEpochAssumption DEF MkType, Epochs, Slots
  <2>3. mk[g].pc \in {"slot", "range", "check", "made"}
    BY <2>1 DEF IInv, MakerInv, NoPanic, MkType
  <2>4. /\ EpochStart(mk[g].epoch) <= sk[1] /\ sk[1] <= EpochEnd(mk[g].epoch)
        /\ KnownAttacker(sk[1], sk[2])
    BY <2>3 DEF IInv, MakerInv
  <2>5. SlotToEpoch(sk[1]) = mk[g].epoch BY <2>2, <2>4, EpochSlots
  <2>6. byPubkey[sk[2]] \in Validators /\ KeyOf[byPubkey[sk[2]]] = sk[2].hex
    BY <2>2, <2>4 DEF IInv, TypeOK, StoreInv, Registered, KnownAttacker
  <2> QED BY <2>4, <2>5, <2>6 DEF KnownAttacker
<1> QED BY <1>1, Invariance, PTL
=============================================================================
