---------------------------- MODULE ProposerAtts ----------------------------
(***************************************************************************)
(* The attestation list of a block (ProposerAtts, types/atts.go) and what  *)
(* modifyBlock does with it (server/apis/block.go): the block's own        *)
(* attestations and the ones collected from attackers are deduplicated,    *)
(* aggregated by data root, deduplicated again, sorted and cut off.        *)
(*                                                                         *)
(* An attestation is [root, len, bits]: its data, the length of its        *)
(* bitlist and the positions set in it.  Two attestations with the same    *)
(* data root have the same data, hence the same slot.  Lists start at 1.   *)
(***************************************************************************)
EXTENDS Integers, Sequences, FiniteSets

CONSTANTS
  Roots,      \* attestation data
  BadRoots,   \* those whose HashTreeRoot fails
  SlotOf,     \* root -> Data.Slot
  Lens,       \* lengths of bitlists
  MaxAttestations,  \* of the beacon configuration
  MaxList,    \* bound: the length of the list modifyBlock starts from
  Sources     \* the attestations that list is made of

Attestation == [root : Roots, len : Lens, bits : SUBSET Nat]

ASSUME ListAssumption ==
  /\ BadRoots \subseteq Roots /\ SlotOf \in [Roots -> Nat]
  /\ MaxAttestations \in Nat /\ MaxList \in Nat
  /\ Sources \subseteq Attestation

VARIABLES
  orig,    \* what modifyBlock starts from
  stage,   \* where modifyBlock is
  a,       \* the list Dedup was called on
  n,       \* Dedup: the attestation to be grouped next
  groups,  \* attsByDataRoot
  todo,    \* the data roots that the range over attsByDataRoot has left
  atts,    \* the group being reduced
  i, j,    \* and the two attestations of it being compared
  uniq,    \* uniqAtts, then the result
  kept,    \* modifyBlock's atts: the first result, and at last the sorted one
  lost     \* an error made modifyBlock drop attestations

dedupVars == <<a, n, groups, todo, atts, i, j>>
vars == <<orig, stage, dedupVars, uniq, kept, lost>>

Items(s) == {s[k] : k \in 1..Len(s)}

\* y carries every vote of x.
Covers(y, x) == y.root = x.root /\ y.len = x.len /\ x.bits \subseteq y.bits

Init ==
  /\ orig \in UNION {[1..k -> Sources] : k \in 0..MaxList}
  /\ stage = "dedup1"
  /\ a = orig /\ n = 1 /\ groups = [r \in Roots |-> <<>>] /\ todo = {}
  /\ atts = <<>> /\ i = 1 /\ j = 1 /\ uniq = <<>> /\ kept = <<>> /\ lost = FALSE
-----------------------------------------------------------------------------
(* Dedup.  It runs in the stages "dedup1" (grouping), "reduce1" (the loops)  *)
(* and "end1" (returning), or their second copies.                           *)

Grouping == stage \in {"dedup1", "dedup2"}
Reducing == stage \in {"reduce1", "reduce2"}

After(s) ==
  CASE s = "dedup1" -> "reduce1" [] s = "reduce1" -> "end1"
    [] s = "dedup2" -> "reduce2" [] s = "reduce2" -> "end2"

\* A list of fewer than two is returned as it is.
Short ==
  /\ Grouping /\ Len(a) < 2
  /\ stage' = After(After(stage))
  /\ uniq' = a
  /\ UNCHANGED <<orig, dedupVars, kept, lost>>

\* for _, att := range a
Group ==
  /\ Grouping /\ Len(a) >= 2 /\ n <= Len(a)
  /\ n' = n + 1
  /\ groups' = IF a[n].root \in BadRoots
               THEN groups
               ELSE [groups EXCEPT ![a[n].root] = Append(@, a[n])]
  /\ UNCHANGED <<orig, stage, a, todo, atts, i, j, uniq, kept, lost>>

Grouped ==
  /\ Grouping /\ Len(a) >= 2 /\ n > Len(a)
  /\ stage' = After(stage)
  /\ todo' = {r \in Roots : groups[r] # <<>>}
  /\ atts' = <<>> /\ i' = 1 /\ j' = 2
  /\ UNCHANGED <<orig, a, n, groups, uniq, kept, lost>>

\* The range takes the groups in any order.
NextGroup ==
  /\ Reducing /\ atts = <<>>
  /\ \E r \in todo : todo' = todo \ {r} /\ atts' = groups[r]
  /\ i' = 1 /\ j' = 2
  /\ UNCHANGED <<orig, stage, a, n, groups, uniq, kept, lost>>

\* Mutant: the redundant one is overwritten, and the list not cut.
Without_Uncut(s, k) == [s EXCEPT ![k] = s[Len(s)]]

\* s[k] is overwritten with the last attestation, and the last one cut off.
Without(s, k) ==
  [l \in 1..(Len(s) - 1) |-> IF l = k THEN s[Len(s)] ELSE s[l]]

Comparing == Reducing /\ i <= Len(atts) /\ j <= Len(atts)

\* Mutant: the second index is not taken back, and the moved one is skipped.
Compare_Skips ==
  /\ Comparing /\ atts[i].len = atts[j].len
  /\ \/ Covers(atts[i], atts[j])
        /\ atts' = Without(atts, j) /\ j' = j + 1 /\ UNCHANGED i
     \/ ~Covers(atts[i], atts[j]) /\ Covers(atts[j], atts[i])
        /\ atts' = Without(atts, i) /\ j' = i + 1 /\ UNCHANGED i
     \/ ~Covers(atts[i], atts[j]) /\ ~Covers(atts[j], atts[i])
        /\ j' = j + 1 /\ UNCHANGED <<atts, i>>
  /\ UNCHANGED <<orig, stage, a, n, groups, todo, uniq, kept, lost>>

\* Mutant: of two attestations one of which contains the other, the larger goes.
Compare_Larger ==
  /\ Comparing /\ atts[i].len = atts[j].len
  /\ \/ Covers(atts[j], atts[i])
        /\ atts' = Without(atts, j) /\ UNCHANGED <<i, j>>
     \/ ~Covers(atts[j], atts[i]) /\ Covers(atts[i], atts[j])
        /\ atts' = Without(atts, i) /\ j' = i + 1 /\ UNCHANGED i
     \/ ~Covers(atts[i], atts[j]) /\ ~Covers(atts[j], atts[i])
        /\ j' = j + 1 /\ UNCHANGED <<atts, i>>
  /\ UNCHANGED <<orig, stage, a, n, groups, todo, uniq, kept, lost>>

\* The body of the inner loop: the redundant one of the two is removed.
Compare ==
  /\ Comparing /\ atts[i].len = atts[j].len
  /\ \/ Covers(atts[i], atts[j])
        /\ atts' = Without(atts, j) /\ UNCHANGED <<i, j>>
     \/ ~Covers(atts[i], atts[j]) /\ Covers(atts[j], atts[i])
        /\ atts' = Without(atts, i) /\ j' = i + 1 /\ UNCHANGED i
     \/ ~Covers(atts[i], atts[j]) /\ ~Covers(atts[j], atts[i])
        /\ j' = j + 1 /\ UNCHANGED <<atts, i>>
  /\ UNCHANGED <<orig, stage, a, n, groups, todo, uniq, kept, lost>>

\* Contains fails on bitlists of different lengths, Dedup returns nil and the
\* error, and modifyBlock ignores the error.
CompareFails ==
  /\ Comparing /\ atts[i].len # atts[j].len
  /\ stage' = After(stage)
  /\ uniq' = <<>> /\ lost' = TRUE
  /\ UNCHANGED <<orig, dedupVars, kept>>

\* The inner loop ends.
NextI ==
  /\ Reducing /\ i <= Len(atts) /\ j > Len(atts)
  /\ i' = i + 1 /\ j' = i + 2
  /\ UNCHANGED <<orig, stage, a, n, groups, todo, atts, uniq, kept, lost>>

\* The outer loop ends.
GroupDone ==
  /\ Reducing /\ atts # <<>> /\ i > Len(atts)
  /\ uniq' = uniq \o atts
  /\ atts' = <<>> /\ i' = 1 /\ j' = 2
  /\ UNCHANGED <<orig, stage, a, n, groups, todo, kept, lost>>

DedupReturns ==
  /\ Reducing /\ atts = <<>> /\ todo = {}
  /\ stage' = After(stage)
  /\ UNCHANGED <<orig, dedupVars, uniq, kept, lost>>
-----------------------------------------------------------------------------
(* modifyBlock, between the two calls of Dedup *)

\* Any list of the members of S, each once.
Lists(S) == {s \in [1..Cardinality(S) -> S] : Items(s) = S}

\* What is left of disjoint attestations x of a group: one with all their votes.
Merge(D) == [(CHOOSE x \in D : TRUE) EXCEPT !.bits = UNION {x.bits : x \in D}]

Disjoint(D) == \A x, y \in D : x # y => x.bits \cap y.bits = {}

\* External: attaggregation.Aggregate.  Its results are made of attestations
\* without a common vote, and carry every vote of the group.
Aggregate(g) ==
  LET merged == {Merge(D) : D \in {D \in SUBSET g : D # {} /\ Disjoint(D)}}
  IN  UNION {Lists(S) : S \in {S \in SUBSET merged :
                                 \A x \in g : \E y \in S : Covers(y, x)}}

\* attsByDataRoot is built again, from the first result.
Regroup ==
  /\ stage = "end1" /\ stage' = "aggregate"
  /\ kept' = uniq /\ a' = <<>>
  /\ todo' = {x.root : x \in Items(uniq)}
  /\ n' = 1 /\ groups' = [r \in Roots |-> <<>>]
  /\ UNCHANGED <<orig, atts, i, j, uniq, lost>>

RootGroup(r) == {x \in Items(uniq) : x.root = r}

\* A group that cannot be aggregated is dropped.
AggregateFails ==
  /\ stage = "aggregate"
  /\ \E r \in todo : todo' = todo \ {r}
  /\ lost' = TRUE
  /\ UNCHANGED <<orig, stage, a, n, groups, atts, i, j, uniq, kept>>

AggregateGroup ==
  /\ stage = "aggregate"
  /\ \E r \in todo : \E s \in Aggregate(RootGroup(r)) :
       todo' = todo \ {r} /\ a' = a \o s
  /\ UNCHANGED <<orig, stage, n, groups, atts, i, j, uniq, kept, lost>>

\* The second call of Dedup, on attsForInclusion
Aggregated ==
  /\ stage = "aggregate" /\ todo = {} /\ stage' = "dedup2"
  /\ uniq' = <<>>
  /\ UNCHANGED <<orig, a, n, groups, todo, atts, i, j, kept, lost>>
-----------------------------------------------------------------------------
(* SortByProfitability and LimitToMaxAttestations *)

SlotAt(s, k) == SlotOf[s[k].root]

SlotsOrdered(s) ==
  \A k, l \in 1..Len(s) : k < l => SlotAt(s, k) >= SlotAt(s, l)

\* selectAtts: the attestations of one slot that the (external) maximum cover
\* selects, which have every position set in one of that slot, come first; both
\* parts have the larger counts first.
Profitable(s, selected) ==
  /\ \A x \in Items(s) :
       x.bits \subseteq UNION {y.bits : y \in {y \in selected : SlotOf[y.root] = SlotOf[x.root]}}
  /\ \A k, l \in 1..Len(s) : k < l /\ SlotAt(s, k) = SlotAt(s, l) =>
       /\ s[l] \in selected => s[k] \in selected
       /\ (s[k] \in selected <=> s[l] \in selected) =>
            Cardinality(s[k].bits) >= Cardinality(s[l].bits)

Limit(s) == SubSeq(s, 1, IF Len(s) > MaxAttestations THEN MaxAttestations ELSE Len(s))

\* The bitlists of a slot may have different lengths, when there is no maximum
\* cover and they stay in the order in which they came.
Sort ==
  /\ stage = "end2" /\ stage' = "done"
  /\ \E s \in Lists(Items(uniq)) :
       /\ SlotsOrdered(s)
       /\ \/ \E selected \in SUBSET Items(s) : Profitable(s, selected)
          \/ \E x, y \in Items(s) : SlotOf[x.root] = SlotOf[y.root] /\ x.len # y.len
       /\ kept' = Limit(s)
  /\ UNCHANGED <<orig, dedupVars, uniq, lost>>

\* ToBitlist64 fails: the block gets the first result.
SortFails ==
  /\ stage = "end2" /\ stage' = "done"
  /\ Len(uniq) >= 2
  /\ UNCHANGED <<orig, dedupVars, uniq, kept, lost>>
-----------------------------------------------------------------------------
Dedup ==
  Short \/ Group \/ Grouped \/ NextGroup \/ Compare \/ CompareFails \/ NextI
        \/ GroupDone \/ DedupReturns

Next ==
  \/ Dedup
  \/ Regroup \/ AggregateFails \/ AggregateGroup \/ Aggregated
  \/ Sort \/ SortFails

Spec == Init /\ [][Next]_vars

\* modifyBlock runs to its end.
FairSpec == Spec /\ WF_vars(Next)
-----------------------------------------------------------------------------
\* Type invariant of the lists.
TypeOK ==
  /\ orig \in Seq(Attestation) /\ a \in Seq(Attestation) /\ atts \in Seq(Attestation)
  /\ uniq \in Seq(Attestation) /\ kept \in Seq(Attestation)
  /\ groups \in [Roots -> Seq(Attestation)] /\ todo \subseteq Roots
  /\ n \in Nat \ {0} /\ i \in Nat \ {0} /\ j \in Nat \ {0} /\ lost \in BOOLEAN
  /\ stage \in {"dedup1", "reduce1", "end1", "aggregate",
                "dedup2", "reduce2", "end2", "done"}

\* Dedup: "not only exact duplicates are removed, but proper subsets are removed
\* too", although the list is permuted and shortened under both loops: of the
\* attestations it returns, none carries the votes of another.
DedupMinimal ==
  stage \in {"end1", "end2"} =>
    \A k, l \in 1..Len(uniq) : k # l => ~Covers(uniq[k], uniq[l])

\* Unless an error made modifyBlock drop attestations, every vote it started
\* from is in the block, or the block is full and holds no older one.
NoVoteLost ==
  stage = "done" /\ ~lost =>
    \A x \in Items(orig) : x.root \notin BadRoots =>
      \/ \E y \in Items(kept) : Covers(y, x)
      \/ /\ Len(kept) = MaxAttestations
         /\ \A y \in Items(kept) : SlotOf[y.root] >= SlotOf[x.root]

\* The loops of Dedup end although their indices are taken back: the block gets
\* its list.
ListBuilt == <>(stage = "done")
=============================================================================
