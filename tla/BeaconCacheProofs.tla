------------------------- MODULE BeaconCacheProofs --------------------------
(***************************************************************************)
(* What it takes for a division by zero and for a cache that stays         *)
(* incomplete, for any number of hooks, keys and maps.  Neither property is*)
(* inductive: both rest on what a fill that meets no other has copied so   *)
(* far (FillInv), and the first also on the map a lookup holds being out of*)
(* reach of later fills (LookupInv).                                       *)
(***************************************************************************)
EXTENDS BeaconCache, TLAPS

\* Until two fills meet there is one at a time, ...
OneFill == \A p, q \in Callers : Filling(p) /\ Filling(q) => p = q

\* ... the cache is empty while it has not made its map, and then what is in the
\* map and what is left to copy are everything, or nothing if the fetch failed.
FillInv(p) ==
  /\ pc[p] = "fetch" => keys[config] = {}
  /\ pc[p] = "make" =>
       keys[config] = {} /\ (left[p] = Keys \/ (left[p] = {} /\ failed[p]))
  /\ pc[p] \in {"fill", "write"} =>
       \/ keys[config] \cup left[p] = Keys
       \/ keys[config] \cup left[p] = {} /\ failed[p]
  /\ pc[p] = "write" => ref[p] = config

\* While no call meets a fill, a caller whose own fetch has not failed returns a
\* cache that is complete for good, and looks a key up where it is, in a map that
\* nobody writes.
LookupInv(p) ==
  /\ pc[p] = "return" =>
       \/ failed[p]
       \/ keys[config] = Keys /\ \A q \in Callers : ~Filling(q)
  /\ pc[p] = "lookup" =>
       \/ failed[p]
       \/ /\ want[p] \in keys[ref[p]]
          /\ \A q \in Callers : pc[q] \in {"fill", "write"} => ref[p] # config

IInv ==
  /\ TypeOK
  /\ overlap < 2 => OneFill /\ PoisonNeedsOverlap /\ \A p \in Callers : FillInv(p)
  /\ overlap = 0 => \A p \in Callers : LookupInv(p)
  /\ ZeroNeedsFault

\* A cache that nobody has asked for satisfies the invariant.
LEMMA InitIInv == Init => IInv
<1> SUFFICES ASSUME Init PROVE IInv OBVIOUS
<1>2. TypeOK
  <2>1. pc = [p \in Callers |-> "idle"] /\ res = [p \in Callers |-> "none"] BY DEF Init
  <2>2. left \in [Callers -> SUBSET Keys] /\ keys \in [Maps -> SUBSET Keys] BY DEF Init
  <2>3. failed \in [Callers -> BOOLEAN] /\ dead \in BOOLEAN BY DEF Init
  <2>4. ref \in [Callers -> Maps] /\ want \in [Callers -> Keys] /\ config \in Maps BY DEF Init
  <2>5. fails \in 0..MaxFails /\ overlap \in 0..2 BY CacheAssumption DEF Init
  <2> QED BY <2>1, <2>2, <2>3, <2>4, <2>5 DEF TypeOK
<1>3. \A p \in Callers : pc[p] = "idle" /\ res[p] = "none" BY DEF Init
<1>4. overlap = 0 /\ keys[config] = {} BY DEF Init
<1>5. PoisonNeedsOverlap BY <1>4 DEF PoisonNeedsOverlap
<1> QED BY <1>2, <1>3, <1>5 DEF IInv, OneFill, FillInv, LookupInv, ZeroNeedsFault, Filling

\* Every step of a call preserves the invariant.
LEMMA Inductive == IInv /\ [Next]_vars => IInv'
<1> SUFFICES ASSUME IInv, [Next]_vars PROVE IInv' OBVIOUS
<1> USE DEF IInv, Goes
<1>0. overlap \in 0..2 BY DEF TypeOK
<1>1. ASSUME NEW p \in Callers, NEW k \in Keys, Call(p, k) PROVE IInv'
  <2>1. TypeOK' BY <1>1, CacheAssumption DEF Call, TypeOK
  <2>2. overlap' < 2 => OneFill' BY <1>1, <1>0 DEF Call, TypeOK, OneFill, Filling
  <2>3. overlap' < 2 => PoisonNeedsOverlap'
    BY <1>1, <1>0, CacheAssumption
    DEF Call, TypeOK, OneFill, PoisonNeedsOverlap, FillInv, Filling
  <2>4. ASSUME NEW q \in Callers, overlap' < 2 PROVE FillInv(q)'
    BY <1>1, <1>0, <2>4, CacheAssumption
    DEF Call, TypeOK, OneFill, PoisonNeedsOverlap, FillInv, Filling
  <2>5. ASSUME NEW q \in Callers, overlap' = 0 PROVE LookupInv(q)'
    BY <1>1, <1>0, <2>5, CacheAssumption
    DEF Call, TypeOK, OneFill, PoisonNeedsOverlap, FillInv, LookupInv, Filling
  <2>6. ZeroNeedsFault'
    BY <1>1, <1>0, CacheAssumption
    DEF Call, TypeOK, OneFill, FillInv, LookupInv, ZeroNeedsFault, Filling
  <2> QED BY <2>1, <2>2, <2>3, <2>4, <2>5, <2>6
<1>2. ASSUME NEW p \in Callers, Check(p) PROVE IInv'
  <2>1. TypeOK' BY <1>2, CacheAssumption DEF Check, TypeOK, Cached
  <2>2. overlap' < 2 => OneFill' BY <1>2, <1>0 DEF Check, TypeOK, OneFill, Filling, Cached
  <2>3. overlap' < 2 => PoisonNeedsOverlap'
    BY <1>2, <1>0, CacheAssumption
    DEF Check, TypeOK, OneFill, PoisonNeedsOverlap, FillInv, Filling, Cached
  <2>4. ASSUME NEW q \in Callers, overlap' < 2 PROVE FillInv(q)'
    BY <1>2, <1>0, <2>4, CacheAssumption
    DEF Check, TypeOK, OneFill, PoisonNeedsOverlap, FillInv, Filling, Cached
  <2>5. ASSUME NEW q \in Callers, overlap' = 0 PROVE LookupInv(q)'
    BY <1>2, <1>0, <2>5, CacheAssumption
    DEF Check, TypeOK, OneFill, PoisonNeedsOverlap, FillInv, LookupInv, Filling, Cached
  <2>6. ZeroNeedsFault'
    BY <1>2, <1>0, CacheAssumption
    DEF Check, TypeOK, OneFill, FillInv, LookupInv, ZeroNeedsFault, Filling, Cached
  <2> QED BY <2>1, <2>2, <2>3, <2>4, <2>5, <2>6
<1>3. ASSUME NEW p \in Callers, FetchFails(p) PROVE IInv'
  <2>1. TypeOK' BY <1>3, CacheAssumption DEF FetchFails, TypeOK
  <2>2. overlap' < 2 => OneFill' BY <1>3, <1>0 DEF FetchFails, TypeOK, OneFill, Filling
  <2>3. overlap' < 2 => PoisonNeedsOverlap'
    BY <1>3, <1>0, CacheAssumption
    DEF FetchFails, TypeOK, OneFill, PoisonNeedsOverlap, FillInv, Filling
  <2>4. ASSUME NEW q \in Callers, overlap' < 2 PROVE FillInv(q)'
    BY <1>3, <1>0, <2>4, CacheAssumption
    DEF FetchFails, TypeOK, OneFill, PoisonNeedsOverlap, FillInv, Filling
  <2>5. ASSUME NEW q \in Callers, overlap' = 0 PROVE LookupInv(q)'
    BY <1>3, <1>0, <2>5, CacheAssumption
    DEF FetchFails, TypeOK, OneFill, PoisonNeedsOverlap, FillInv, LookupInv, Filling
  <2>6. ZeroNeedsFault'
    BY <1>3, <1>0, CacheAssumption
    DEF FetchFails, TypeOK, OneFill, FillInv, LookupInv, ZeroNeedsFault, Filling
  <2> QED BY <2>1, <2>2, <2>3, <2>4, <2>5, <2>6
<1>4. ASSUME NEW p \in Callers, Fetch(p) PROVE IInv'
  <2>1. TypeOK' BY <1>4, CacheAssumption DEF Fetch, TypeOK
  <2>2. overlap' < 2 => OneFill' BY <1>4, <1>0 DEF Fetch, TypeOK, OneFill, Filling
  <2>3. overlap' < 2 => PoisonNeedsOverlap'
    BY <1>4, <1>0, CacheAssumption
    DEF Fetch, TypeOK, OneFill, PoisonNeedsOverlap, FillInv, Filling
  <2>4. ASSUME NEW q \in Callers, overlap' < 2 PROVE FillInv(q)'
    BY <1>4, <1>0, <2>4, CacheAssumption
    DEF Fetch, TypeOK, OneFill, PoisonNeedsOverlap, FillInv, Filling
  <2>5. ASSUME NEW q \in Callers, overlap' = 0 PROVE LookupInv(q)'
    BY <1>4, <1>0, <2>5, CacheAssumption
    DEF Fetch, TypeOK, OneFill, PoisonNeedsOverlap, FillInv, LookupInv, Filling
  <2>6. ZeroNeedsFault'
    BY <1>4, <1>0, CacheAssumption
    DEF Fetch, TypeOK, OneFill, FillInv, LookupInv, ZeroNeedsFault, Filling
  <2> QED BY <2>1, <2>2, <2>3, <2>4, <2>5, <2>6
<1>5. ASSUME NEW p \in Callers, Make(p) PROVE IInv'
  <2>1. TypeOK' BY <1>5, CacheAssumption DEF Make, TypeOK
  <2>2. overlap' < 2 => OneFill' BY <1>5, <1>0 DEF Make, TypeOK, OneFill, Filling
  <2>3. overlap' < 2 => PoisonNeedsOverlap'
    BY <1>5, <1>0, CacheAssumption
    DEF Make, TypeOK, OneFill, PoisonNeedsOverlap, FillInv, Filling
  <2>4. ASSUME NEW q \in Callers, overlap' < 2 PROVE FillInv(q)'
    BY <1>5, <1>0, <2>4, CacheAssumption
    DEF Make, TypeOK, OneFill, PoisonNeedsOverlap, FillInv, Filling
  <2>5. ASSUME NEW q \in Callers, overlap' = 0 PROVE LookupInv(q)'
    BY <1>5, <1>0, <2>5, CacheAssumption
    DEF Make, TypeOK, OneFill, PoisonNeedsOverlap, FillInv, LookupInv, Filling
  <2>6. ZeroNeedsFault'
    BY <1>5, <1>0, CacheAssumption
    DEF Make, TypeOK, OneFill, FillInv, LookupInv, ZeroNeedsFault, Filling
  <2> QED BY <2>1, <2>2, <2>3, <2>4, <2>5, <2>6
<1>6. ASSUME NEW p \in Callers, WriteBegins(p) PROVE IInv'
  <2>1. TypeOK' BY <1>6, CacheAssumption DEF WriteBegins, TypeOK, Raced, Writing
  <2>2. overlap' < 2 => OneFill' BY <1>6, <1>0 DEF WriteBegins, TypeOK, OneFill, Filling
  <2>3. overlap' < 2 => PoisonNeedsOverlap'
    BY <1>6, <1>0, CacheAssumption
    DEF WriteBegins, TypeOK, OneFill, PoisonNeedsOverlap, FillInv, Filling, Raced, Writing
  <2>4. ASSUME NEW q \in Callers, overlap' < 2 PROVE FillInv(q)'
    BY <1>6, <1>0, <2>4, CacheAssumption
    DEF WriteBegins, TypeOK, OneFill, PoisonNeedsOverlap, FillInv, Filling, Raced, Writing
  <2>5. ASSUME NEW q \in Callers, overlap' = 0 PROVE LookupInv(q)'
    BY <1>6, <1>0, <2>5, CacheAssumption
    DEF WriteBegins, TypeOK, OneFill, FillInv, LookupInv, Filling, Raced, Writing
  <2>6. ZeroNeedsFault'
    BY <1>6, <1>0, CacheAssumption
    DEF WriteBegins, TypeOK, OneFill, FillInv, LookupInv, ZeroNeedsFault, Filling, Raced, Writing
  <2> QED BY <2>1, <2>2, <2>3, <2>4, <2>5, <2>6
<1>7. ASSUME NEW p \in Callers, WriteEnds(p) PROVE IInv'
  <2>1. TypeOK'
    <3>1. dead' \in BOOLEAN BY <1>7 DEF WriteEnds, Raced
    <3>2. PICK k \in left[p] :
            /\ left' = [left EXCEPT ![p] = @ \ {k}]
            /\ keys' = [keys EXCEPT ![ref[p]] = @ \cup {k}] \/ UNCHANGED keys
      BY <1>7 DEF WriteEnds
    <3>3. left' \in [Callers -> SUBSET Keys] /\ keys' \in [Maps -> SUBSET Keys]
      BY <3>2 DEF TypeOK
    <3> QED BY <1>7, <3>1, <3>3 DEF WriteEnds, TypeOK
  <2>2. overlap' < 2 => OneFill' BY <1>7, <1>0 DEF WriteEnds, TypeOK, OneFill, Filling
  <2>3. overlap' < 2 => PoisonNeedsOverlap'
    BY <1>7, <1>0, CacheAssumption
    DEF WriteEnds, TypeOK, OneFill, PoisonNeedsOverlap, FillInv, Filling, Raced, Writing
  <2>4. ASSUME NEW q \in Callers, overlap' < 2 PROVE FillInv(q)'
    BY <1>7, <1>0, <2>4, CacheAssumption
    DEF WriteEnds, TypeOK, OneFill, PoisonNeedsOverlap, FillInv, Filling, Raced, Writing
  <2>5. ASSUME NEW q \in Callers, overlap' = 0 PROVE LookupInv(q)'
    BY <1>7, <1>0, <2>5, CacheAssumption
    DEF WriteEnds, TypeOK, OneFill, PoisonNeedsOverlap, FillInv, LookupInv, Filling, Raced, Writing
  <2>6. ZeroNeedsFault'
    BY <1>7, <1>0, CacheAssumption
    DEF WriteEnds, TypeOK, OneFill, FillInv, LookupInv, ZeroNeedsFault, Filling, Raced, Writing
  <2> QED BY <2>1, <2>2, <2>3, <2>4, <2>5, <2>6
<1>8. ASSUME NEW p \in Callers, FillDone(p) PROVE IInv'
  <2>1. TypeOK' BY <1>8, CacheAssumption DEF FillDone, TypeOK
  <2>2. overlap' < 2 => OneFill' BY <1>8, <1>0 DEF FillDone, TypeOK, OneFill, Filling
  <2>3. overlap' < 2 => PoisonNeedsOverlap'
    BY <1>8, <1>0, CacheAssumption
    DEF FillDone, TypeOK, OneFill, PoisonNeedsOverlap, FillInv, Filling
  <2>4. ASSUME NEW q \in Callers, overlap' < 2 PROVE FillInv(q)'
    BY <1>8, <1>0, <2>4, CacheAssumption
    DEF FillDone, TypeOK, OneFill, PoisonNeedsOverlap, FillInv, Filling
  <2>5. ASSUME NEW q \in Callers, overlap' = 0 PROVE LookupInv(q)'
    <3>1. /\ pc[p] = "fill" /\ left[p] = {} /\ pc' = [pc EXCEPT ![p] = "return"] /\ Filling(p)
          /\ UNCHANGED <<config, keys, want, left, ref, failed>> /\ overlap = 0
      BY <1>8, <2>5 DEF FillDone, Filling
    <3>2. pc \in [Callers -> {"idle", "check", "fetch", "make", "fill", "write", "return", "lookup"}]
      BY DEF TypeOK
    <3>3. CASE q = p
      <4>1. failed[p] \/ keys[config] = Keys BY <3>1 DEF FillInv
      <4>2. \A r \in Callers : ~Filling(r)' BY <3>1, <3>2 DEF OneFill, Filling
      <4> QED BY <3>1, <3>2, <3>3, <4>1, <4>2 DEF LookupInv
    <3>4. CASE q # p BY <3>1, <3>2, <3>4 DEF LookupInv, Filling
    <3> QED BY <3>3, <3>4
  <2>6. ZeroNeedsFault'
    BY <1>8, <1>0, CacheAssumption
    DEF FillDone, TypeOK, OneFill, FillInv, LookupInv, ZeroNeedsFault, Filling
  <2> QED BY <2>1, <2>2, <2>3, <2>4, <2>5, <2>6
<1>9. ASSUME NEW p \in Callers, Return(p) PROVE IInv'
  <2>1. TypeOK' BY <1>9, CacheAssumption DEF Return, TypeOK
  <2>2. overlap' < 2 => OneFill' BY <1>9, <1>0 DEF Return, TypeOK, OneFill, Filling
  <2>3. overlap' < 2 => PoisonNeedsOverlap'
    BY <1>9, <1>0, CacheAssumption
    DEF Return, TypeOK, OneFill, PoisonNeedsOverlap, FillInv, Filling
  <2>4. ASSUME NEW q \in Callers, overlap' < 2 PROVE FillInv(q)'
    BY <1>9, <1>0, <2>4, CacheAssumption
    DEF Return, TypeOK, OneFill, PoisonNeedsOverlap, FillInv, Filling
  <2>5. ASSUME NEW q \in Callers, overlap' = 0 PROVE LookupInv(q)'
    BY <1>9, <1>0, <2>5, CacheAssumption
    DEF Return, TypeOK, OneFill, PoisonNeedsOverlap, FillInv, LookupInv, Filling
  <2>6. ZeroNeedsFault'
    BY <1>9, <1>0, CacheAssumption
    DEF Return, TypeOK, OneFill, FillInv, LookupInv, ZeroNeedsFault, Filling
  <2> QED BY <2>1, <2>2, <2>3, <2>4, <2>5, <2>6
<1>10. ASSUME NEW p \in Callers, Lookup(p) PROVE IInv'
  <2>1. TypeOK' BY <1>10, CacheAssumption DEF Lookup, TypeOK, Raced, Writing
  <2>2. overlap' < 2 => OneFill' BY <1>10, <1>0 DEF Lookup, TypeOK, OneFill, Filling
  <2>3. overlap' < 2 => PoisonNeedsOverlap'
    BY <1>10, <1>0, CacheAssumption
    DEF Lookup, TypeOK, OneFill, PoisonNeedsOverlap, FillInv, Filling, Raced, Writing
  <2>4. ASSUME NEW q \in Callers, overlap' < 2 PROVE FillInv(q)'
    BY <1>10, <1>0, <2>4, CacheAssumption
    DEF Lookup, TypeOK, OneFill, PoisonNeedsOverlap, FillInv, Filling, Raced, Writing
  <2>5. ASSUME NEW q \in Callers, overlap' = 0 PROVE LookupInv(q)'
    BY <1>10, <1>0, <2>5, CacheAssumption
    DEF Lookup, TypeOK, OneFill, PoisonNeedsOverlap, FillInv, LookupInv, Filling, Raced, Writing
  <2>6. ZeroNeedsFault'
    BY <1>10, <1>0, CacheAssumption
    DEF Lookup, TypeOK, OneFill, FillInv, LookupInv, ZeroNeedsFault, Filling, Raced, Writing
  <2> QED BY <2>1, <2>2, <2>3, <2>4, <2>5, <2>6
<1>11. CASE UNCHANGED vars
  BY <1>11 DEF vars, TypeOK, OneFill, PoisonNeedsOverlap, FillInv, LookupInv, ZeroNeedsFault,
             Filling
<1> QED BY <1>1, <1>2, <1>3, <1>4, <1>5, <1>6, <1>7, <1>8, <1>9, <1>10, <1>11 DEF Next, GetIntConfig

\* The inductive invariant holds in every reachable state.
LEMMA Invariance == Spec => []IInv
BY InitIInv, Inductive, PTL DEF Spec

\* The cache, its maps and its callers keep their types.
THEOREM TypeCorrect == Spec => []TypeOK
<1>1. IInv => TypeOK BY DEF IInv
<1> QED BY <1>1, Invariance, PTL

\* GetIntConfig yields 0 only to a caller whose own fetch failed, or after a call
\* has met the fill of another.
THEOREM ZeroTheorem == Spec => []ZeroNeedsFault
<1>1. IInv => ZeroNeedsFault BY DEF IInv
<1> QED BY <1>1, Invariance, PTL

\* GetBeaconConfig leaves a cache that lacks a key for good only if two fills met.
THEOREM PoisonTheorem == Spec => []PoisonNeedsOverlap
<1>1. IInv => PoisonNeedsOverlap BY DEF IInv, TypeOK, PoisonNeedsOverlap
<1> QED BY <1>1, Invariance, PTL
=============================================================================
