---------------------------- MODULE BeaconCache -----------------------------
(***************************************************************************)
(* The configuration that BeaconGwClient (beaconapi/beaconclient.go) caches*)
(* and the callers that divide by what they find in it: monitorDuties,     *)
(* which nothing recovers, and the hooks, whose panics service.call        *)
(* recovers.  GetBeaconConfig takes no lock: it looks at the map, fetches, *)
(* replaces the map by an empty one and fills that, key by key, through    *)
(* the field b.config.                                                     *)
(*                                                                         *)
(* Maps are numbered and a number is used again when nobody refers to the  *)
(* map.  Only which keys are present matters: the values never change.     *)
(***************************************************************************)
EXTENDS Integers, FiniteSets

CONSTANTS
  Hooks,      \* goroutines that serve hooks
  Monitor,    \* the goroutine of monitorDuties
  Keys,       \* the keys of the configuration
  SLOTS_PER_EPOCH,  \* the one that is divided by
  Maps,       \* numbers of maps
  MaxFails    \* bound: the number of fetches that fail

Callers == Hooks \cup {Monitor}

ASSUME CacheAssumption ==
  /\ Monitor \notin Hooks /\ SLOTS_PER_EPOCH \in Keys /\ Maps # {} /\ MaxFails \in Nat

VARIABLES
  config,   \* b.config
  keys,     \* map -> the keys present in it
  pc,       \* caller -> where its GetIntConfig is
  want,     \* caller -> the key it asks for
  left,     \* caller -> the keys fetched and not yet copied
  ref,      \* caller -> the map it writes to or reads from
  failed,   \* caller -> its fetch has failed
  res,      \* caller -> what the last call returned: "none", "value" or "zero"
  fails,    \* the number of failed fetches
  overlap,  \* 1: a call met the fill of another; 2: two fills met
  dead      \* the process has ended

vars == <<config, keys, pc, want, left, ref, failed, res, fails, overlap, dead>>

Init ==
  /\ config \in Maps /\ keys = [m \in Maps |-> {}]
  /\ pc = [p \in Callers |-> "idle"]
  /\ want \in [Callers -> Keys] /\ left = [p \in Callers |-> {}]
  /\ ref = [p \in Callers |-> config]
  /\ failed = [p \in Callers |-> FALSE] /\ res = [p \in Callers |-> "none"]
  /\ fails = 0 /\ overlap = 0 /\ dead = FALSE

\* p has found the map empty and not yet copied what it fetches.
Filling(p) == pc[p] \in {"fetch", "make", "fill", "write"}

\* p is in the middle of a write of map m.
Writing(p, m) == pc[p] = "write" /\ ref[p] = m

\* Another goroutine is: the runtime may notice, and end the process.
Raced(p, m) == \E q \in Callers \ {p} : Writing(q, m)

Goes(p, l) == pc' = [pc EXCEPT ![p] = l]
-----------------------------------------------------------------------------
\* A hook asks for the slots of an epoch or the seconds of a slot; the monitor
\* does when its ticker fires and GetLatestBeaconHeader has succeeded.
Call(p, k) ==
  /\ pc[p] = "idle" /\ Goes(p, "check")
  /\ p = Monitor => k = SLOTS_PER_EPOCH
  /\ want' = [want EXCEPT ![p] = k]
  /\ failed' = [failed EXCEPT ![p] = FALSE] /\ res' = [res EXCEPT ![p] = "none"]
  /\ UNCHANGED <<config, keys, left, ref, fails, overlap, dead>>

\* Mutant: a map that was made counts as fetched, empty or not.
Cached_Made == keys[config] # {} \/ fails > 0

\* len(b.config) # 0
Cached == keys[config] # {}

Check(p) ==
  /\ pc[p] = "check"
  /\ Goes(p, IF Cached THEN "return" ELSE "fetch")
  /\ overlap' = IF \A q \in Callers \ {p} : ~Filling(q) THEN overlap
                ELSE IF Cached /\ overlap < 2 THEN 1 ELSE 2
  /\ UNCHANGED <<config, keys, want, left, ref, failed, res, fails, dead>>

\* Mutant: of an answer that was cut short, the first keys are kept.
FetchFails_Partial(p) ==
  /\ pc[p] = "fetch" /\ Goes(p, "make")
  /\ fails < MaxFails /\ fails' = fails + 1
  /\ failed' = [failed EXCEPT ![p] = TRUE]
  /\ \E K \in SUBSET Keys : left' = [left EXCEPT ![p] = K]
  /\ UNCHANGED <<config, keys, want, ref, res, overlap, dead>>

\* getBeaconConfig returns no error, and an empty configuration when the request
\* or the decoding of its answer fails.
FetchFails(p) ==
  /\ pc[p] = "fetch" /\ Goes(p, "make")
  /\ fails < MaxFails /\ fails' = fails + 1
  /\ failed' = [failed EXCEPT ![p] = TRUE]
  /\ left' = [left EXCEPT ![p] = {}]
  /\ UNCHANGED <<config, keys, want, ref, res, overlap, dead>>

Fetch(p) ==
  /\ pc[p] = "fetch" /\ Goes(p, "make")
  /\ left' = [left EXCEPT ![p] = Keys]
  /\ UNCHANGED <<config, keys, want, ref, failed, res, fails, overlap, dead>>

\* b.config = make(map[string]string)
Make(p) ==
  /\ pc[p] = "make" /\ Goes(p, "fill")
  /\ \E m \in Maps \ ({config} \cup {ref[q] : q \in Callers}) :
       config' = m /\ keys' = [keys EXCEPT ![m] = {}]
  /\ UNCHANGED <<want, left, ref, failed, res, fails, overlap, dead>>

\* b.config[key] = v begins: b.config may be another map than the one p made.
WriteBegins(p) ==
  /\ pc[p] = "fill" /\ left[p] # {} /\ Goes(p, "write")
  /\ ref' = [ref EXCEPT ![p] = config]
  /\ dead' \in {FALSE, Raced(p, config)}
  /\ UNCHANGED <<config, keys, want, left, failed, res, fails, overlap>>

\* ... and ends.  The key may be lost when another write of the map is under way.
WriteEnds(p) ==
  /\ pc[p] = "write" /\ Goes(p, "fill")
  /\ \E k \in left[p] :
       /\ left' = [left EXCEPT ![p] = @ \ {k}]
       /\ \/ keys' = [keys EXCEPT ![ref[p]] = @ \cup {k}]
          \/ Raced(p, ref[p]) /\ UNCHANGED keys
  /\ dead' \in {FALSE, Raced(p, ref[p])}
  /\ UNCHANGED <<config, want, ref, failed, res, fails, overlap>>

FillDone(p) ==
  /\ pc[p] = "fill" /\ left[p] = {} /\ Goes(p, "return")
  /\ UNCHANGED <<config, keys, want, left, ref, failed, res, fails, overlap, dead>>

\* return b.config, which may be another map than the one that was looked at
Return(p) ==
  /\ pc[p] = "return" /\ Goes(p, "lookup")
  /\ ref' = [ref EXCEPT ![p] = config]
  /\ UNCHANGED <<config, keys, want, left, failed, res, fails, overlap, dead>>

\* GetIntConfig: a key that is missing yields 0 and no error.  The division by 0
\* makes a hook answer with an error; in the monitor it ends the process.
Lookup(p) ==
  /\ pc[p] = "lookup" /\ Goes(p, "idle")
  /\ \E found \in BOOLEAN :
       /\ found = (want[p] \in keys[ref[p]]) \/ Raced(p, ref[p])
       /\ res' = [res EXCEPT ![p] = IF found THEN "value" ELSE "zero"]
       /\ LET divides == p = Monitor /\ ~found
          IN  dead' \in {divides, divides \/ Raced(p, ref[p])}
  /\ UNCHANGED <<config, keys, want, left, ref, failed, fails, overlap>>
-----------------------------------------------------------------------------
GetIntConfig(p) ==
  \/ Check(p) \/ FetchFails(p) \/ Fetch(p) \/ Make(p)
  \/ WriteBegins(p) \/ WriteEnds(p) \/ FillDone(p) \/ Return(p) \/ Lookup(p)

Next == ~dead /\ \E p \in Callers : GetIntConfig(p) \/ \E k \in Keys : Call(p, k)

Spec == Init /\ [][Next]_vars

\* The goroutines are scheduled, and the monitor's ticker fires again and again.
FairSpec ==
  /\ Spec
  /\ \A p \in Callers : WF_vars(~dead /\ GetIntConfig(p))
  /\ WF_vars(~dead /\ \E k \in Keys : Call(Monitor, k))
-----------------------------------------------------------------------------
\* Type invariant of the cache.
TypeOK ==
  /\ config \in Maps /\ keys \in [Maps -> SUBSET Keys]
  /\ pc \in [Callers -> {"idle", "check", "fetch", "make", "fill", "write", "return", "lookup"}]
  /\ want \in [Callers -> Keys] /\ left \in [Callers -> SUBSET Keys]
  /\ ref \in [Callers -> Maps] /\ failed \in [Callers -> BOOLEAN]
  /\ res \in [Callers -> {"none", "value", "zero"}]
  /\ fails \in 0..MaxFails /\ overlap \in 0..2 /\ dead \in BOOLEAN

\* A caller divides by zero only if its own fetch has failed or if some call met
\* the fill of another: a failed fetch spoils no other call, and what one call
\* has cached every later one finds.
ZeroNeedsFault == \A p \in Callers : res[p] = "zero" => failed[p] \/ overlap > 0

\* Between fills the cache is empty, to be fetched again, or complete, unless two
\* fills have met: a cache that lacks a key is never fetched again.
PoisonNeedsOverlap ==
  (\A p \in Callers : ~Filling(p)) =>
    keys[config] \in {{}, Keys} \/ overlap = 2

\* Failed fetches are made up for: while no call meets the fill of another and
\* the process lives, the cache is complete in the end, and stays it.
Repaired == [](overlap = 0 /\ ~dead) => <>[](keys[config] = Keys)
=============================================================================
