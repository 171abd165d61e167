------------------------- MODULE ProposerAttsProofs -------------------------
(***************************************************************************)
(* Dedup's result is minimal and no vote is lost, for any attestations,    *)
(* lists and limit.  LoopInv is the invariant of Dedup's two loops, which  *)
(* shorten and permute the list they run over; KeptInv says that what has  *)
(* been removed so far is covered by what remains; VotesInv follows the    *)
(* votes of the original list through the stages of modifyBlock.           *)
(***************************************************************************)
EXTENDS ProposerAtts, FiniteSetTheorems, TLAPS

\* Neither attestation carries the votes of the other.
Apart(x, y) == ~Covers(x, y) /\ ~Covers(y, x)

AllApart(s) == \A k, l \in 1..Len(s) : k # l => ~Covers(s[k], s[l])

\* Every vote of the list modifyBlock started from is in s.
VotesIn(s) ==
  \A x \in Items(orig) : x.root \notin BadRoots => \E y \in Items(s) : Covers(y, x)

\* A group holds attestations of its root.
GroupInv ==
  /\ \A r \in Roots : \A x \in Items(groups[r]) : x.root = r
  /\ Grouping => \A k \in 1..(n - 1) :
       k \in 1..Len(a) /\ a[k].root \notin BadRoots => a[k] \in Items(groups[a[k].root])
  /\ stage = "aggregate" => n = 1

\* Those before the i-th are apart from all others, the i-th from those between
\* it and the j-th.
LoopInv ==
  Reducing =>
    /\ i < j
    /\ \A k, l \in 1..Len(atts) : k < l /\ (k < i \/ (k = i /\ l < j)) => Apart(atts[k], atts[l])

\* The result so far is minimal, and of roots whose groups are done.
DoneInv ==
  /\ Grouping => uniq = <<>>
  /\ Reducing \/ stage \in {"end1", "end2"} => AllApart(uniq)
  /\ Reducing =>
       /\ \A x \in Items(uniq) \cup Items(atts) : x.root \notin todo
       /\ \A x \in Items(uniq), y \in Items(atts) : x.root # y.root
       /\ \A x, y \in Items(atts) : x.root = y.root

\* What Dedup has removed is covered by what it has kept.
KeptInv ==
  Reducing =>
    \A x \in Items(a) : x.root \notin BadRoots =>
      \/ \E y \in Items(uniq) \cup Items(atts) : Covers(y, x)
      \/ x.root \in todo /\ x \in Items(groups[x.root])

\* The votes, stage by stage.
VotesInv ==
  ~lost =>
    /\ Grouping \/ Reducing => VotesIn(a)
    /\ stage \in {"end1", "aggregate", "end2"} => VotesIn(uniq)
    /\ stage \in {"aggregate", "dedup2", "reduce2", "end2"} => VotesIn(kept)
    /\ stage = "aggregate" =>
         \A x \in Items(uniq) : x.root \notin todo => \E y \in Items(a) : Covers(y, x)

IInv ==
  TypeOK /\ GroupInv /\ LoopInv /\ DoneInv /\ KeptInv /\ VotesInv /\ NoVoteLost
-----------------------------------------------------------------------------
(* Attestations and lists *)

\* Covering is transitive.
LEMMA CoversTrans ==
  ASSUME NEW x, NEW y, NEW z, Covers(z, y), Covers(y, x)
  PROVE  Covers(z, x)
BY DEF Covers

\* A longer list has one item more.
LEMMA AppendItems ==
  ASSUME NEW s \in Seq(Attestation), NEW x \in Attestation
  PROVE  /\ Append(s, x) \in Seq(Attestation)
         /\ Items(Append(s, x)) = Items(s) \cup {x}
<1>1. /\ Append(s, x) \in Seq(Attestation)
      /\ Len(s) \in Nat /\ Len(Append(s, x)) = Len(s) + 1
      /\ \A k \in 1..Len(s) : Append(s, x)[k] = s[k]
      /\ Append(s, x)[Len(s) + 1] = x
  OBVIOUS
<1>2. 1..(Len(s) + 1) = 1..Len(s) \cup {Len(s) + 1} BY <1>1
<1> QED BY <1>1, <1>2 DEF Items

\* A concatenation has the items of both lists.
LEMMA ConcatItems ==
  ASSUME NEW s \in Seq(Attestation), NEW t \in Seq(Attestation)
  PROVE  /\ s \o t \in Seq(Attestation)
         /\ Items(s \o t) = Items(s) \cup Items(t)
<1>1. /\ s \o t \in Seq(Attestation)
      /\ Len(s) \in Nat /\ Len(t) \in Nat /\ Len(s \o t) = Len(s) + Len(t)
      /\ \A k \in 1..(Len(s) + Len(t)) :
           (s \o t)[k] = IF k <= Len(s) THEN s[k] ELSE t[k - Len(s)]
  OBVIOUS
<1>2. \A x \in Items(s) : x \in Items(s \o t) BY <1>1 DEF Items
<1>3. ASSUME NEW x \in Items(t) PROVE x \in Items(s \o t)
  <2>1. PICK k \in 1..Len(t) : t[k] = x BY DEF Items
  <2>2. Len(s) + k \in 1..(Len(s) + Len(t)) /\ (s \o t)[Len(s) + k] = x BY <1>1, <2>1
  <2> QED BY <1>1, <2>2 DEF Items
<1>4. ASSUME NEW x \in Items(s \o t) PROVE x \in Items(s) \cup Items(t)
  <2>1. PICK k \in 1..(Len(s) + Len(t)) : (s \o t)[k] = x BY <1>1 DEF Items
  <2>2. CASE k <= Len(s) BY <1>1, <2>1, <2>2 DEF Items
  <2>3. CASE k > Len(s)
    <3>1. k - Len(s) \in 1..Len(t) /\ t[k - Len(s)] = x BY <1>1, <2>1, <2>3
    <3> QED BY <3>1 DEF Items
  <2> QED BY <1>1, <2>2, <2>3
<1> QED BY <1>1, <1>2, <1>3, <1>4

\* The removal in place of Dedup: the last attestation takes the place of the
\* removed one, and only that one is gone.
LEMMA WithoutProps ==
  ASSUME NEW s \in Seq(Attestation), NEW k \in 1..Len(s)
  PROVE  /\ Without(s, k) \in Seq(Attestation)
         /\ Len(Without(s, k)) = Len(s) - 1
         /\ \A l \in 1..(Len(s) - 1) : Without(s, k)[l] = IF l = k THEN s[Len(s)] ELSE s[l]
         /\ Items(Without(s, k)) \subseteq Items(s)
         /\ \A x \in Items(s) : x \in Items(Without(s, k)) \/ x = s[k]
<1>1. Len(s) \in Nat /\ Len(s) >= 1 /\ \A l \in 1..Len(s) : s[l] \in Attestation OBVIOUS
<1>2. /\ Without(s, k) \in Seq(Attestation)
      /\ Len(Without(s, k)) = Len(s) - 1
      /\ \A l \in 1..(Len(s) - 1) : Without(s, k)[l] = IF l = k THEN s[Len(s)] ELSE s[l]
  BY <1>1 DEF Without
<1>3. Items(Without(s, k)) \subseteq Items(s) BY <1>1, <1>2 DEF Items
<1>4. ASSUME NEW x \in Items(s), x # s[k] PROVE x \in Items(Without(s, k))
  <2>1. PICK l \in 1..Len(s) : s[l] = x BY DEF Items
  <2>2. CASE l = Len(s)
    <3>1. k \in 1..(Len(s) - 1) /\ Without(s, k)[k] = x BY <1>1, <1>2, <1>4, <2>1, <2>2
    <3> QED BY <1>2, <3>1 DEF Items
  <2>3. CASE l # Len(s)
    <3>1. l \in 1..(Len(s) - 1) /\ Without(s, k)[l] = x BY <1>1, <1>2, <1>4, <2>1, <2>3
    <3> QED BY <1>2, <3>1 DEF Items
  <2> QED BY <2>2, <2>3
<1> QED BY <1>2, <1>3, <1>4

\* A list has finitely many items.
LEMMA ItemsFinite ==
  ASSUME NEW s \in Seq(Attestation)
  PROVE  IsFiniteSet(Items(s)) /\ Items(s) \subseteq Attestation
<1> DEFINE f == [k \in 1..Len(s) |-> s[k]]
<1>1. Len(s) \in Nat /\ \A k \in 1..Len(s) : s[k] \in Attestation OBVIOUS
<1>2. IsFiniteSet(1..Len(s)) BY <1>1, FS_Interval
<1>3. f \in Surjection(1..Len(s), Items(s)) BY DEF Surjection, Items
<1> HIDE DEF f
<1>4. IsFiniteSet(Items(s)) BY <1>2, <1>3, FS_Surjection
<1> QED BY <1>1, <1>4 DEF Items

\* The lists of a finite set.
LEMMA ListsProps ==
  ASSUME NEW S \in SUBSET Attestation, IsFiniteSet(S), NEW s \in Lists(S)
  PROVE  s \in Seq(Attestation) /\ Items(s) = S
<1>1. Cardinality(S) \in Nat BY FS_CardinalityType
<1>2. s \in [1..Cardinality(S) -> S] /\ Items(s) = S BY DEF Lists
<1> QED BY <1>1, <1>2

\* Aggregation returns attestations, and loses no vote of the group.
LEMMA AggregateProps ==
  ASSUME NEW g \in SUBSET Attestation, IsFiniteSet(g), NEW s \in Aggregate(g)
  PROVE  s \in Seq(Attestation) /\ \A x \in g : \E y \in Items(s) : Covers(y, x)
<1> DEFINE parts  == {D \in SUBSET g : D # {} /\ Disjoint(D)}
<1> DEFINE merged == {Merge(D) : D \in parts}
<1>1. PICK S \in SUBSET merged : (\A x \in g : \E y \in S : Covers(y, x)) /\ s \in Lists(S)
  BY DEF Aggregate
<1>2. IsFiniteSet(S)
  <2> DEFINE f == [D \in parts |-> Merge(D)]
  <2>1. IsFiniteSet(SUBSET g) BY FS_SUBSET
  <2>2. IsFiniteSet(parts) BY <2>1, FS_Subset
  <2>3. f \in Surjection(parts, merged) BY DEF Surjection
  <2> HIDE DEF f, parts, merged
  <2>4. IsFiniteSet(merged) BY <2>2, <2>3, FS_Surjection
  <2> QED BY <2>4, FS_Subset
<1>3. ASSUME NEW D \in parts PROVE Merge(D) \in Attestation
  <2> DEFINE x == CHOOSE x \in D : TRUE
  <2>1. x \in D /\ x \in Attestation OBVIOUS
  <2>2. UNION {y.bits : y \in D} \in SUBSET Nat BY DEF Attestation
  <2>3. Merge(D) = [x EXCEPT !.bits = UNION {y.bits : y \in D}] BY DEF Merge
  <2> HIDE DEF x
  <2> QED BY <2>1, <2>2, <2>3 DEF Attestation
<1>4. S \subseteq Attestation BY <1>3
<1> QED BY <1>1, <1>2, <1>4, ListsProps
-----------------------------------------------------------------------------
(* The invariant *)

\* The stages of Dedup follow one another.
LEMMA Stages ==
  /\ After("dedup1") = "reduce1" /\ After("reduce1") = "end1"
  /\ After("dedup2") = "reduce2" /\ After("reduce2") = "end2"
BY DEF After

\* The data of an attestation.
LEMMA RootType == \A x \in Attestation : x.root \in Roots
BY DEF Attestation

\* A list that Dedup has not looked at satisfies the invariant.
LEMMA InitIInv == Init => IInv
<1> SUFFICES ASSUME Init PROVE IInv OBVIOUS
<1>1. orig \in Seq(Attestation)
  <2>1. PICK k \in 0..MaxList : orig \in [1..k -> Sources] BY DEF Init
  <2>2. k \in Nat BY ListAssumption
  <2> QED BY <2>1, <2>2, ListAssumption
<1>2. TypeOK
  <2>1. groups \in [Roots -> Seq(Attestation)] BY DEF Init
  <2>2. lost \in BOOLEAN /\ todo \subseteq Roots BY DEF Init
  <2>3. <<>> \in Seq(Attestation) OBVIOUS
  <2> QED BY <1>1, <2>1, <2>2, <2>3 DEF Init, TypeOK
<1>3. Items(<<>>) = {} BY DEF Items
<1>4. GroupInv BY <1>3 DEF Init, GroupInv
<1>5. VotesIn(orig) BY DEF VotesIn, Covers
<1>6. LoopInv /\ DoneInv /\ KeptInv /\ VotesInv /\ NoVoteLost
  BY <1>5 DEF Init, LoopInv, DoneInv, KeptInv, VotesInv, NoVoteLost, Grouping, Reducing
<1> QED BY <1>2, <1>4, <1>6 DEF IInv

\* Short preserves the invariant.
LEMMA ShortStep == IInv /\ Short => IInv'
<1> SUFFICES ASSUME IInv, Short PROVE IInv' OBVIOUS
<1> USE Stages DEF IInv
<1>1. /\ \/ stage = "dedup1" /\ stage' = "end1"
         \/ stage = "dedup2" /\ stage' = "end2"
      /\ uniq' = a /\ Len(a) < 2
      /\ UNCHANGED <<orig, a, n, groups, todo, atts, i, j, kept, lost>>
  BY DEF Short, Grouping, dedupVars
<1>2. TypeOK' BY <1>1 DEF TypeOK
<1>3. AllApart(uniq)' BY <1>1 DEF AllApart, TypeOK
<1>4. GroupInv' /\ LoopInv' /\ DoneInv' /\ KeptInv' /\ NoVoteLost'
  BY <1>1, <1>3 DEF GroupInv, LoopInv, DoneInv, KeptInv, NoVoteLost, Grouping, Reducing
<1>5. VotesInv' BY <1>1 DEF VotesInv, VotesIn, Grouping, Reducing
<1> QED BY <1>2, <1>4, <1>5

\* Group preserves the invariant.
LEMMA GroupStep == IInv /\ Group => IInv'
<1> SUFFICES ASSUME IInv, Group PROVE IInv' OBVIOUS
<1> USE DEF IInv
<1>1. /\ Grouping /\ n \in 1..Len(a) /\ n' = n + 1
      /\ UNCHANGED <<orig, stage, a, todo, atts, i, j, uniq, kept, lost>>
  BY DEF Group, TypeOK
<1>2. a[n] \in Attestation /\ a[n].root \in Roots BY <1>1, RootType DEF TypeOK
<1>3. CASE a[n].root \in BadRoots
  <2>1. groups' = groups BY <1>3 DEF Group
  <2> QED BY <1>1, <1>3, <2>1
          DEF TypeOK, GroupInv, LoopInv, DoneInv, KeptInv, VotesInv, VotesIn, NoVoteLost,
              Grouping, Reducing, AllApart
<1>4. CASE a[n].root \notin BadRoots
  <2> DEFINE r == a[n].root
  <2>1. groups' = [groups EXCEPT ![r] = Append(groups[r], a[n])] BY <1>4 DEF Group
  <2>2. groups[r] \in Seq(Attestation) BY <1>2 DEF TypeOK
  <2>3. /\ groups'[r] \in Seq(Attestation)
        /\ Items(groups'[r]) = Items(groups[r]) \cup {a[n]}
        /\ \A q \in Roots : q # r => groups'[q] = groups[q]
    BY <1>2, <2>1, <2>2, AppendItems DEF TypeOK
  <2>4. groups' \in [Roots -> Seq(Attestation)] BY <1>2, <2>1, <2>3 DEF TypeOK
  <2>5. TypeOK' BY <1>1, <2>4 DEF TypeOK
  <2>6. GroupInv'
    <3>1. \A q \in Roots : \A x \in Items(groups'[q]) : x.root = q
      BY <2>3 DEF GroupInv
    <3>2. ASSUME NEW k \in 1..(n' - 1), k \in 1..Len(a), a[k].root \notin BadRoots
          PROVE  a[k] \in Items(groups'[a[k].root])
      <4>1. a[k].root \in Roots BY <3>2, RootType DEF TypeOK
      <4>2. CASE k = n BY <2>3, <4>2
      <4>3. CASE k # n
        <5>1. k \in 1..(n - 1) BY <1>1, <4>3 DEF TypeOK
        <5>2. a[k] \in Items(groups[a[k].root]) BY <1>1, <3>2, <5>1 DEF GroupInv
        <5> QED BY <2>3, <4>1, <5>2
      <4> QED BY <4>2, <4>3
    <3> QED BY <1>1, <3>1, <3>2 DEF GroupInv, Grouping
  <2> QED BY <1>1, <2>5, <2>6
          DEF LoopInv, DoneInv, KeptInv, VotesInv, VotesIn, NoVoteLost, Grouping, Reducing
<1> QED BY <1>3, <1>4

\* Grouped preserves the invariant.
LEMMA GroupedStep == IInv /\ Grouped => IInv'
<1> SUFFICES ASSUME IInv, Grouped PROVE IInv' OBVIOUS
<1> USE Stages DEF IInv
<1>1. /\ Grouping /\ n > Len(a)
      /\ \/ stage = "dedup1" /\ stage' = "reduce1"
         \/ stage = "dedup2" /\ stage' = "reduce2"
      /\ todo' = {r \in Roots : groups[r] # <<>>}
      /\ atts' = <<>> /\ i' = 1 /\ j' = 2
      /\ UNCHANGED <<orig, a, n, groups, uniq, kept, lost>>
  BY DEF Grouped, Grouping
<1>2. TypeOK' BY <1>1 DEF TypeOK
<1>3. Items(<<>>) = {} BY DEF Items
<1>4. GroupInv' /\ LoopInv' /\ NoVoteLost'
  BY <1>1 DEF GroupInv, LoopInv, NoVoteLost, Grouping, Reducing
<1>5. DoneInv'
  <2>1. uniq' = <<>> BY <1>1 DEF DoneInv
  <2> QED BY <1>1, <1>3, <2>1 DEF DoneInv, AllApart, Grouping, Reducing
<1>6. KeptInv'
  <2>1. ASSUME NEW x \in Items(a), x.root \notin BadRoots
        PROVE  x.root \in todo' /\ x \in Items(groups[x.root])
    <3>1. PICK k \in 1..Len(a) : a[k] = x BY DEF Items
    <3>2. k \in 1..(n - 1) BY <1>1 DEF TypeOK
    <3>3. x \in Items(groups[x.root]) BY <1>1, <2>1, <3>1, <3>2 DEF GroupInv
    <3>4. x.root \in Roots BY <3>1, RootType DEF TypeOK
    <3> QED BY <1>1, <1>3, <3>3, <3>4
  <2> QED BY <1>1, <2>1 DEF KeptInv
<1>7. VotesInv' BY <1>1 DEF VotesInv, VotesIn, Grouping, Reducing
<1> QED BY <1>2, <1>4, <1>5, <1>6, <1>7

\* NextGroup preserves the invariant.
LEMMA NextGroupStep == IInv /\ NextGroup => IInv'
<1> SUFFICES ASSUME IInv, NextGroup PROVE IInv' OBVIOUS
<1> USE DEF IInv
<1>1. PICK r \in todo : todo' = todo \ {r} /\ atts' = groups[r] BY DEF NextGroup
<1>2. /\ Reducing /\ Reducing' /\ atts = <<>> /\ i' = 1 /\ j' = 2
      /\ UNCHANGED <<orig, stage, a, n, groups, uniq, kept, lost>>
  BY DEF NextGroup, Reducing
<1>3. r \in Roots BY DEF TypeOK
<1>4. TypeOK' BY <1>1, <1>2, <1>3 DEF TypeOK
<1>5. Items(<<>>) = {} BY DEF Items
<1>6. GroupInv' /\ NoVoteLost' BY <1>2 DEF GroupInv, NoVoteLost, Grouping, Reducing
<1>7. LoopInv' BY <1>2, <1>4 DEF LoopInv, TypeOK
<1>8. DoneInv'
  <2>1. \A x \in Items(atts') : x.root = r BY <1>1, <1>3 DEF GroupInv
  <2> QED BY <1>1, <1>2, <1>5, <2>1 DEF DoneInv, AllApart, Grouping, Reducing
<1>9. KeptInv'
  <2>1. ASSUME NEW x \in Items(a), x.root \notin BadRoots, x.root \in todo,
               x \in Items(groups[x.root])
        PROVE  x \in Items(atts') \/ x.root \in todo'
    BY <1>1, <2>1
  <2>2. \A x \in Items(a) : x.root \notin BadRoots =>
          \/ \E y \in Items(uniq) : Covers(y, x)
          \/ x.root \in todo /\ x \in Items(groups[x.root])
    BY <1>2, <1>5 DEF KeptInv
  <2>3. \A x : Covers(x, x) BY DEF Covers
  <2> QED BY <1>2, <2>1, <2>2, <2>3 DEF KeptInv
<1>10. VotesInv' BY <1>2 DEF VotesInv, VotesIn, Grouping, Reducing
<1> QED BY <1>4, <1>6, <1>7, <1>8, <1>9, <1>10

\* Removing an attestation that another one of the list covers loses no vote.
LEMMA RemoveCovered ==
  ASSUME NEW s \in Seq(Attestation), NEW k \in 1..Len(s), NEW w \in 1..Len(s), w # k,
         Covers(s[w], s[k])
  PROVE  \A x \in Items(s) : \E y \in Items(Without(s, k)) : Covers(y, x)
<1>1. Len(s) \in Nat OBVIOUS
<1>2. s[w] \in Items(Without(s, k))
  <2>1. CASE w = Len(s)
    <3>1. k \in 1..(Len(s) - 1) /\ Without(s, k)[k] = s[w] BY <1>1, <2>1, WithoutProps
    <3> QED BY <3>1, WithoutProps DEF Items
  <2>2. CASE w # Len(s)
    <3>1. w \in 1..(Len(s) - 1) BY <1>1, <2>2
    <3>2. Without(s, k)[w] = s[w] BY <3>1, WithoutProps
    <3> QED BY <3>1, <3>2, WithoutProps DEF Items
  <2> QED BY <2>1, <2>2
<1>3. ASSUME NEW x \in Items(s) PROVE \E y \in Items(Without(s, k)) : Covers(y, x)
  <2>1. CASE x = s[k] BY <1>2, <2>1
  <2>2. CASE x \in Items(Without(s, k)) BY <2>2 DEF Covers
  <2> QED BY <2>1, <2>2, WithoutProps
<1> QED BY <1>3

\* What Dedup keeps covers the list, whichever covered attestation it removes.
LEMMA RemoveKeeps ==
  ASSUME TypeOK, KeptInv, DoneInv, GroupInv, VotesInv, NoVoteLost, Reducing,
         NEW k \in 1..Len(atts), atts' = Without(atts, k),
         NEW w \in 1..Len(atts), w # k, Covers(atts[w], atts[k]),
         UNCHANGED <<orig, stage, a, n, groups, todo, uniq, kept, lost>>
  PROVE  KeptInv' /\ DoneInv' /\ GroupInv' /\ VotesInv' /\ NoVoteLost'
<1>0. atts \in Seq(Attestation) BY DEF TypeOK
<1>1. Items(atts') \subseteq Items(atts) BY <1>0, WithoutProps
<1>2. \A x \in Items(atts) : \E y \in Items(atts') : Covers(y, x) BY <1>0, RemoveCovered
<1>3. KeptInv'
  <2>1. ASSUME NEW x \in Items(a), NEW y \in Items(uniq) \cup Items(atts), Covers(y, x)
        PROVE  \E z \in Items(uniq) \cup Items(atts') : Covers(z, x)
    <3>1. CASE y \in Items(uniq) BY <2>1, <3>1
    <3>2. CASE y \in Items(atts)
      <4>1. PICK z \in Items(atts') : Covers(z, y) BY <1>2, <3>2
      <4> QED BY <2>1, <4>1, CoversTrans
    <3> QED BY <3>1, <3>2
  <2> QED BY <2>1 DEF KeptInv, Reducing
<1>4. DoneInv' BY <1>1 DEF DoneInv, AllApart, Grouping, Reducing
<1>5. GroupInv' /\ VotesInv' /\ NoVoteLost'
  BY DEF GroupInv, VotesInv, VotesIn, NoVoteLost, Grouping, Reducing
<1> QED BY <1>3, <1>4, <1>5

\* The body of the inner loop preserves the invariant.
LEMMA CompareStep == IInv /\ Compare => IInv'
<1> SUFFICES ASSUME IInv, Compare PROVE IInv' OBVIOUS
<1> USE DEF IInv
<1> DEFINE N == Len(atts)
<1>1. /\ Reducing /\ Reducing'
      /\ UNCHANGED <<orig, stage, a, n, groups, todo, uniq, kept, lost>>
  BY DEF Compare, Comparing, Reducing
<1>2. N \in Nat /\ i \in 1..N /\ j \in 1..N /\ i < j /\ atts \in Seq(Attestation)
  BY DEF Compare, Comparing, LoopInv, TypeOK
<1>3. \A k, l \in 1..N : k < l /\ (k < i \/ (k = i /\ l < j)) => Apart(atts[k], atts[l])
  BY <1>1 DEF LoopInv
<1> HIDE DEF N
<1>4. CASE Covers(atts[i], atts[j]) /\ atts' = Without(atts, j) /\ UNCHANGED <<i, j>>
  <2>1. TypeOK' BY <1>1, <1>2, <1>4, WithoutProps DEF TypeOK, N
  <2>2. LoopInv'
    <3>1. Len(atts') = N - 1 BY <1>2, <1>4, WithoutProps DEF N
    <3>2. ASSUME NEW k \in 1..(N - 1), NEW l \in 1..(N - 1), k < l,
                 k < i \/ (k = i /\ l < j)
          PROVE  Apart(atts'[k], atts'[l])
      <4>1. atts'[k] = atts[k] /\ atts'[l] = IF l = j THEN atts[N] ELSE atts[l]
        BY <1>2, <1>4, <3>2, WithoutProps DEF N
      <4>2. k \in 1..N /\ l \in 1..N /\ N \in 1..N /\ k < N BY <1>2
      <4>3. CASE l = j BY <1>2, <1>3, <3>2, <4>1, <4>2, <4>3
      <4>4. CASE l # j BY <1>3, <3>2, <4>1, <4>2, <4>4
      <4> QED BY <4>3, <4>4
    <3> QED BY <1>2, <1>4, <3>1, <3>2 DEF LoopInv
  <2>3. j \in 1..Len(atts) /\ i \in 1..Len(atts) /\ i # j BY <1>2 DEF N
  <2> QED BY <1>1, <1>4, <2>1, <2>2, <2>3, RemoveKeeps
<1>5. CASE Covers(atts[j], atts[i]) /\ atts' = Without(atts, i) /\ j' = i + 1 /\ UNCHANGED i
  <2>0. /\ atts' \in Seq(Attestation) /\ Len(atts') = N - 1
        /\ \A l \in 1..(N - 1) : atts'[l] = IF l = i THEN atts[N] ELSE atts[l]
    BY <1>2, <1>5, WithoutProps DEF N
  <2>1. TypeOK' BY <1>1, <1>5, <2>0 DEF TypeOK
  <2>2. LoopInv'
    <3>1. ASSUME NEW k \in 1..(N - 1), NEW l \in 1..(N - 1), k < l, k < i
          PROVE  Apart(atts'[k], atts'[l])
      <4>1. atts'[k] = atts[k] /\ atts'[l] = IF l = i THEN atts[N] ELSE atts[l]
        BY <1>2, <2>0, <3>1
      <4>2. k \in 1..N /\ l \in 1..N /\ N \in 1..N /\ k < N BY <1>2
      <4>3. CASE l = i BY <1>2, <1>3, <3>1, <4>1, <4>2, <4>3
      <4>4. CASE l # i BY <1>3, <3>1, <4>1, <4>2, <4>4
      <4> QED BY <4>3, <4>4
    <3>2. ASSUME NEW k \in 1..(N - 1), NEW l \in 1..(N - 1), k < l,
                 k < i' \/ (k = i' /\ l < j')
          PROVE  k < i
      BY <1>2, <1>5, <3>2
    <3> QED BY <1>2, <1>5, <2>0, <3>1, <3>2 DEF LoopInv
  <2>3. j \in 1..Len(atts) /\ i \in 1..Len(atts) /\ i # j BY <1>2 DEF N
  <2> QED BY <1>1, <1>5, <2>1, <2>2, <2>3, RemoveKeeps
<1>6. CASE Apart(atts[i], atts[j]) /\ j' = j + 1 /\ UNCHANGED <<atts, i>>
  <2>1. TypeOK' BY <1>1, <1>6 DEF TypeOK
  <2>2. ASSUME NEW k \in 1..N, NEW l \in 1..N, k < l, k < i \/ (k = i /\ l < j + 1)
        PROVE  Apart(atts[k], atts[l])
    <3>1. CASE k = i /\ l = j BY <1>6, <3>1
    <3>2. CASE ~(k = i /\ l = j)
      <4>1. k < i \/ (k = i /\ l < j) BY <1>2, <2>2, <3>2
      <4> QED BY <1>3, <2>2, <4>1
    <3> QED BY <3>1, <3>2
  <2>3. LoopInv' BY <1>2, <1>6, <2>2 DEF LoopInv, N
  <2> QED BY <1>1, <1>6, <2>1, <2>3
          DEF GroupInv, DoneInv, KeptInv, VotesInv, VotesIn, NoVoteLost, AllApart,
              Grouping, Reducing
<1> QED BY <1>4, <1>5, <1>6 DEF Compare, Apart

\* A comparison that fails preserves the invariant: votes are lost.
LEMMA CompareFailsStep == IInv /\ CompareFails => IInv'
<1> SUFFICES ASSUME IInv, CompareFails PROVE IInv' OBVIOUS
<1> USE Stages DEF IInv
<1>1. /\ \/ stage = "reduce1" /\ stage' = "end1"
         \/ stage = "reduce2" /\ stage' = "end2"
      /\ uniq' = <<>> /\ lost' = TRUE
      /\ UNCHANGED <<orig, a, n, groups, todo, atts, i, j, kept>>
  BY DEF CompareFails, Comparing, Reducing, dedupVars
<1>2. TypeOK' BY <1>1 DEF TypeOK
<1> QED BY <1>1, <1>2
        DEF GroupInv, LoopInv, DoneInv, KeptInv, VotesInv, NoVoteLost, AllApart,
            Grouping, Reducing

\* The end of the inner loop preserves the invariant.
LEMMA NextIStep == IInv /\ NextI => IInv'
<1> SUFFICES ASSUME IInv, NextI PROVE IInv' OBVIOUS
<1> USE DEF IInv
<1>1. /\ Reducing /\ i <= Len(atts) /\ j > Len(atts) /\ i' = i + 1 /\ j' = i + 2
      /\ UNCHANGED <<orig, stage, a, n, groups, todo, atts, uniq, kept, lost>>
  BY DEF NextI
<1>2. TypeOK' BY <1>1 DEF TypeOK
<1>3. LoopInv'
  <2>1. ASSUME NEW k \in 1..Len(atts), NEW l \in 1..Len(atts), k < l,
               k < i + 1 \/ (k = i + 1 /\ l < i + 2)
        PROVE  Apart(atts[k], atts[l])
    <3>1. k < i \/ (k = i /\ l < j) BY <1>1, <2>1 DEF TypeOK
    <3> QED BY <1>1, <2>1, <3>1 DEF LoopInv
  <2>2. i + 1 < i + 2 BY DEF TypeOK
  <2> QED BY <1>1, <2>1, <2>2 DEF LoopInv
<1> QED BY <1>1, <1>2, <1>3
        DEF GroupInv, DoneInv, KeptInv, VotesInv, VotesIn, NoVoteLost, AllApart,
            Grouping, Reducing

\* The end of the outer loop preserves the invariant: the group is minimal.
LEMMA GroupDoneStep == IInv /\ GroupDone => IInv'
<1> SUFFICES ASSUME IInv, GroupDone PROVE IInv' OBVIOUS
<1> USE DEF IInv
<1>1. /\ Reducing /\ Reducing' /\ i > Len(atts) /\ uniq' = uniq \o atts
      /\ atts' = <<>> /\ i' = 1 /\ j' = 2
      /\ UNCHANGED <<orig, stage, a, n, groups, todo, kept, lost>>
  BY DEF GroupDone, Reducing
<1>2. uniq \in Seq(Attestation) /\ atts \in Seq(Attestation) BY DEF TypeOK
<1>3. uniq' \in Seq(Attestation) /\ Items(uniq') = Items(uniq) \cup Items(atts)
  BY <1>1, <1>2, ConcatItems
<1>4. TypeOK' BY <1>1, <1>3 DEF TypeOK
<1>5. Items(<<>>) = {} BY DEF Items
<1>6. GroupInv' /\ LoopInv' /\ NoVoteLost'
  BY <1>1 DEF GroupInv, LoopInv, NoVoteLost, Grouping, Reducing
<1>7. AllApart(uniq')
  <2> SUFFICES ASSUME NEW k \in 1..Len(uniq'), NEW l \in 1..Len(uniq'), k # l
               PROVE  ~Covers(uniq'[k], uniq'[l])
    BY DEF AllApart
  <2> DEFINE U == Len(uniq)
  <2>1. /\ U \in Nat /\ Len(atts) \in Nat /\ Len(uniq') = U + Len(atts)
        /\ uniq'[k] = IF k <= U THEN uniq[k] ELSE atts[k - U]
        /\ uniq'[l] = IF l <= U THEN uniq[l] ELSE atts[l - U]
    BY <1>1, <1>2
  <2> HIDE DEF U
  <2>2. CASE k <= U /\ l <= U
    <3>1. k \in 1..Len(uniq) /\ l \in 1..Len(uniq) BY <2>1, <2>2 DEF U
    <3> QED BY <1>1, <2>1, <2>2, <3>1 DEF DoneInv, AllApart
  <2>3. CASE k > U /\ l > U
    <3>1. k - U \in 1..Len(atts) /\ l - U \in 1..Len(atts) /\ k - U # l - U
      BY <2>1, <2>3
    <3>2. \A v, w \in 1..Len(atts) : v < w => Apart(atts[v], atts[w])
      BY <1>1, <2>1 DEF LoopInv, TypeOK
    <3>3. Apart(atts[k - U], atts[l - U]) \/ Apart(atts[l - U], atts[k - U])
      BY <3>1, <3>2
    <3> QED BY <2>1, <2>3, <3>3 DEF Apart
  <2>4. CASE k <= U /\ l > U
    <3>1. k \in 1..Len(uniq) /\ l - U \in 1..Len(atts) BY <2>1, <2>4 DEF U
    <3>2. uniq[k] \in Items(uniq) /\ atts[l - U] \in Items(atts) BY <3>1 DEF Items
    <3> QED BY <1>1, <2>1, <2>4, <3>2 DEF DoneInv, Covers
  <2>5. CASE k > U /\ l <= U
    <3>1. l \in 1..Len(uniq) /\ k - U \in 1..Len(atts) BY <2>1, <2>5 DEF U
    <3>2. uniq[l] \in Items(uniq) /\ atts[k - U] \in Items(atts) BY <3>1 DEF Items
    <3> QED BY <1>1, <2>1, <2>5, <3>2 DEF DoneInv, Covers
  <2> QED BY <2>1, <2>2, <2>3, <2>4, <2>5
<1>8. DoneInv' BY <1>1, <1>3, <1>5, <1>7 DEF DoneInv, AllApart, Grouping, Reducing
<1>9. KeptInv' BY <1>1, <1>3, <1>5 DEF KeptInv
<1>10. VotesInv' BY <1>1 DEF VotesInv, VotesIn, Grouping, Reducing
<1> QED BY <1>4, <1>6, <1>8, <1>9, <1>10

\* Dedup returns what covers the list it was given.
LEMMA DedupReturnsStep == IInv /\ DedupReturns => IInv'
<1> SUFFICES ASSUME IInv, DedupReturns PROVE IInv' OBVIOUS
<1> USE Stages DEF IInv
<1>1. /\ Reducing /\ atts = <<>> /\ todo = {}
      /\ \/ stage = "reduce1" /\ stage' = "end1"
         \/ stage = "reduce2" /\ stage' = "end2"
      /\ UNCHANGED <<orig, a, n, groups, todo, atts, i, j, uniq, kept, lost>>
  BY DEF DedupReturns, Reducing, dedupVars
<1>2. TypeOK' BY <1>1 DEF TypeOK
<1>3. GroupInv' /\ LoopInv' /\ DoneInv' /\ KeptInv' /\ NoVoteLost'
  BY <1>1 DEF GroupInv, LoopInv, DoneInv, KeptInv, NoVoteLost, AllApart, Grouping, Reducing
<1>4. VotesInv'
  <2>1. \A x \in Items(a) : x.root \notin BadRoots => \E y \in Items(uniq) : Covers(y, x)
    BY <1>1 DEF KeptInv, Items
  <2>2. VotesIn(a) => VotesIn(uniq)
    <3> SUFFICES ASSUME VotesIn(a), NEW x \in Items(orig), x.root \notin BadRoots
                 PROVE  \E z \in Items(uniq) : Covers(z, x)
      BY DEF VotesIn
    <3>1. PICK y \in Items(a) : Covers(y, x) BY DEF VotesIn
    <3>2. PICK z \in Items(uniq) : Covers(z, y) BY <2>1, <3>1 DEF Covers
    <3> QED BY <3>1, <3>2, CoversTrans
  <2> QED BY <1>1, <2>2 DEF VotesInv, VotesIn, Grouping, Reducing
<1> QED BY <1>2, <1>3, <1>4

\* The second grouping begins with the first result.
LEMMA RegroupStep == IInv /\ Regroup => IInv'
<1> SUFFICES ASSUME IInv, Regroup PROVE IInv' OBVIOUS
<1> USE DEF IInv
<1>1. /\ stage = "end1" /\ stage' = "aggregate" /\ kept' = uniq /\ a' = <<>>
      /\ todo' = {x.root : x \in Items(uniq)}
      /\ n' = 1 /\ groups' = [r \in Roots |-> <<>>]
      /\ UNCHANGED <<orig, atts, i, j, uniq, lost>>
  BY DEF Regroup
<1>2. TypeOK'
  <2>1. todo' \subseteq Roots BY <1>1, ItemsFinite, RootType DEF TypeOK
  <2>2. groups' \in [Roots -> Seq(Attestation)] BY <1>1
  <2> QED BY <1>1, <2>1, <2>2 DEF TypeOK
<1>3. Items(<<>>) = {} BY DEF Items
<1>4. GroupInv' BY <1>1, <1>3 DEF GroupInv, Grouping
<1>5. LoopInv' /\ DoneInv' /\ KeptInv' /\ NoVoteLost'
  BY <1>1 DEF LoopInv, DoneInv, KeptInv, NoVoteLost, Grouping, Reducing
<1>6. VotesInv' BY <1>1 DEF VotesInv, VotesIn, Grouping, Reducing
<1> QED BY <1>2, <1>4, <1>5, <1>6

\* A group that is dropped counts as lost.
LEMMA AggregateFailsStep == IInv /\ AggregateFails => IInv'
<1> SUFFICES ASSUME IInv, AggregateFails PROVE IInv' OBVIOUS
<1> USE DEF IInv
<1>1. /\ stage = "aggregate" /\ todo' \subseteq todo /\ lost' = TRUE
      /\ UNCHANGED <<orig, stage, a, n, groups, atts, i, j, uniq, kept>>
  BY DEF AggregateFails
<1>2. TypeOK' BY <1>1 DEF TypeOK
<1> QED BY <1>1, <1>2
        DEF GroupInv, LoopInv, DoneInv, KeptInv, VotesInv, NoVoteLost, Grouping, Reducing

\* A group that is aggregated keeps its votes.
LEMMA AggregateGroupStep == IInv /\ AggregateGroup => IInv'
<1> SUFFICES ASSUME IInv, AggregateGroup PROVE IInv' OBVIOUS
<1> USE DEF IInv
<1>0. PICK r \in todo :
        \E s \in Aggregate(RootGroup(r)) : todo' = todo \ {r} /\ a' = a \o s
  BY DEF AggregateGroup
<1>1. PICK s \in Aggregate(RootGroup(r)) : todo' = todo \ {r} /\ a' = a \o s
  BY <1>0
<1>2. /\ stage = "aggregate"
      /\ UNCHANGED <<orig, stage, n, groups, atts, i, j, uniq, kept, lost>>
  BY DEF AggregateGroup
<1>3. RootGroup(r) \in SUBSET Attestation /\ IsFiniteSet(RootGroup(r))
  <2>1. IsFiniteSet(Items(uniq)) /\ Items(uniq) \subseteq Attestation
    BY ItemsFinite DEF TypeOK
  <2>2. RootGroup(r) \in SUBSET Items(uniq) BY DEF RootGroup
  <2> QED BY <2>1, <2>2, FS_Subset
<1>4. s \in Seq(Attestation) /\ \A x \in RootGroup(r) : \E y \in Items(s) : Covers(y, x)
  BY <1>1, <1>3, AggregateProps
<1>5. a' \in Seq(Attestation) /\ Items(a') = Items(a) \cup Items(s)
  BY <1>1, <1>4, ConcatItems DEF TypeOK
<1>6. TypeOK' BY <1>1, <1>2, <1>5 DEF TypeOK
<1>7. GroupInv' /\ LoopInv' /\ DoneInv' /\ KeptInv' /\ NoVoteLost'
  BY <1>2 DEF GroupInv, LoopInv, DoneInv, KeptInv, NoVoteLost, Grouping, Reducing
<1>8. VotesInv'
  <2>1. ASSUME ~lost, NEW x \in Items(uniq), x.root \notin todo'
        PROVE  \E y \in Items(a') : Covers(y, x)
    <3>1. CASE x.root = r BY <1>4, <1>5, <3>1 DEF RootGroup
    <3>2. CASE x.root # r BY <1>1, <1>2, <1>5, <2>1, <3>2 DEF VotesInv
    <3> QED BY <3>1, <3>2
  <2> QED BY <1>2, <2>1 DEF VotesInv, VotesIn, Grouping, Reducing
<1> QED BY <1>6, <1>7, <1>8

\* All groups are aggregated: their list has the votes of the first result.
LEMMA AggregatedStep == IInv /\ Aggregated => IInv'
<1> SUFFICES ASSUME IInv, Aggregated PROVE IInv' OBVIOUS
<1> USE DEF IInv
<1>1. /\ stage = "aggregate" /\ todo = {} /\ stage' = "dedup2" /\ uniq' = <<>>
      /\ UNCHANGED <<orig, a, n, groups, todo, atts, i, j, kept, lost>>
  BY DEF Aggregated
<1>2. TypeOK' BY <1>1 DEF TypeOK
<1>3. GroupInv' BY <1>1 DEF GroupInv
<1>4. LoopInv' /\ DoneInv' /\ KeptInv' /\ NoVoteLost'
  BY <1>1 DEF LoopInv, DoneInv, KeptInv, NoVoteLost, Grouping, Reducing
<1>5. ~lost => VotesIn(a)
  <2> SUFFICES ASSUME ~lost, NEW x \in Items(orig), x.root \notin BadRoots
               PROVE  \E z \in Items(a) : Covers(z, x)
    BY DEF VotesIn
  <2>1. PICK y \in Items(uniq) : Covers(y, x) BY <1>1 DEF VotesInv, VotesIn
  <2>2. PICK z \in Items(a) : Covers(z, y) BY <1>1 DEF VotesInv
  <2> QED BY <2>1, <2>2, CoversTrans
<1>6. VotesInv' BY <1>1, <1>5 DEF VotesInv, VotesIn, Grouping, Reducing
<1> QED BY <1>2, <1>3, <1>4, <1>6

\* Sorting and cutting off loses only votes of slots no newer than those kept.
LEMMA SortStep == IInv /\ Sort => IInv'
<1> SUFFICES ASSUME IInv, Sort PROVE IInv' OBVIOUS
<1> USE DEF IInv
<1>1. PICK s \in Lists(Items(uniq)) : SlotsOrdered(s) /\ kept' = Limit(s) BY DEF Sort
<1>2. /\ stage = "end2" /\ stage' = "done"
      /\ UNCHANGED <<orig, a, n, groups, todo, atts, i, j, uniq, lost>>
  BY DEF Sort, dedupVars
<1>3. s \in Seq(Attestation) /\ Items(s) = Items(uniq)
  BY <1>1, ItemsFinite, ListsProps DEF TypeOK
<1> DEFINE L == IF Len(s) > MaxAttestations THEN MaxAttestations ELSE Len(s)
<1>4. L \in Nat /\ L <= Len(s) /\ Len(s) \in Nat BY <1>3, ListAssumption
<1>5. /\ kept' \in Seq(Attestation) /\ Len(kept') = L
      /\ \A k \in 1..L : kept'[k] = s[k]
  BY <1>1, <1>3, <1>4 DEF Limit
<1>6. TypeOK' BY <1>2, <1>5 DEF TypeOK
<1>7. GroupInv' /\ LoopInv' /\ DoneInv' /\ KeptInv' /\ VotesInv'
  BY <1>2 DEF GroupInv, LoopInv, DoneInv, KeptInv, VotesInv, Grouping, Reducing
<1>8. NoVoteLost'
  <2> SUFFICES ASSUME ~lost, NEW x \in Items(orig), x.root \notin BadRoots
               PROVE  \/ \E y \in Items(kept') : Covers(y, x)
                      \/ /\ Len(kept') = MaxAttestations
                         /\ \A y \in Items(kept') : SlotOf[y.root] >= SlotOf[x.root]
    BY <1>2 DEF NoVoteLost
  <2>1. PICK y \in Items(s) : Covers(y, x) BY <1>2, <1>3 DEF VotesInv, VotesIn
  <2>2. PICK k \in 1..Len(s) : s[k] = y BY DEF Items
  <2>3. CASE k <= L
    <3>1. k \in 1..Len(kept') /\ kept'[k] = y BY <1>4, <1>5, <2>2, <2>3
    <3> QED BY <2>1, <3>1 DEF Items
  <2>4. CASE k > L
    <3>1. L = MaxAttestations BY <1>4, <2>4
    <3>2. ASSUME NEW z \in Items(kept') PROVE SlotOf[z.root] >= SlotOf[x.root]
      <4>1. PICK l \in 1..L : s[l] = z BY <1>5 DEF Items
      <4>2. l \in 1..Len(s) /\ l < k BY <1>4, <2>4
      <4>3. SlotAt(s, l) >= SlotAt(s, k) BY <1>1, <4>2 DEF SlotsOrdered
      <4> QED BY <2>1, <2>2, <4>1, <4>3 DEF SlotAt, Covers
    <3> QED BY <1>5, <3>1, <3>2
  <2> QED BY <1>4, <2>3, <2>4
<1> QED BY <1>6, <1>7, <1>8

\* A sort that fails leaves the first result in the block.
LEMMA SortFailsStep == IInv /\ SortFails => IInv'
<1> SUFFICES ASSUME IInv, SortFails PROVE IInv' OBVIOUS
<1> USE DEF IInv
<1>1. /\ stage = "end2" /\ stage' = "done"
      /\ UNCHANGED <<orig, a, n, groups, todo, atts, i, j, uniq, kept, lost>>
  BY DEF SortFails, dedupVars
<1>2. TypeOK' BY <1>1 DEF TypeOK
<1>3. NoVoteLost' BY <1>1 DEF VotesInv, VotesIn, NoVoteLost
<1> QED BY <1>1, <1>2, <1>3
        DEF GroupInv, LoopInv, DoneInv, KeptInv, VotesInv, Grouping, Reducing

\* The inductive invariant holds in every reachable state.
LEMMA Invariance == Spec => []IInv
<1>1. ASSUME IInv, UNCHANGED vars PROVE IInv'
  <2>1. UNCHANGED <<orig, stage, a, n, groups, todo, atts, i, j, uniq, kept, lost>>
    BY <1>1 DEF vars, dedupVars
  <2>2. (TypeOK /\ GroupInv /\ LoopInv)' BY <1>1, <2>1
    DEF IInv, TypeOK, GroupInv, LoopInv, Grouping, Reducing
  <2>3. (DoneInv /\ KeptInv)' BY <1>1, <2>1
    DEF IInv, DoneInv, KeptInv, AllApart, Grouping, Reducing
  <2>4. (VotesInv /\ NoVoteLost)' BY <1>1, <2>1
    DEF IInv, VotesInv, VotesIn, NoVoteLost, Grouping, Reducing
  <2> QED BY <2>2, <2>3, <2>4 DEF IInv
<1>2. IInv /\ [Next]_vars => IInv'
  BY <1>1, ShortStep, GroupStep, GroupedStep, NextGroupStep, CompareStep, CompareFailsStep,
     NextIStep, GroupDoneStep, DedupReturnsStep, RegroupStep, AggregateFailsStep,
     AggregateGroupStep, AggregatedStep, SortStep, SortFailsStep
  DEF Next, Dedup
<1> QED BY <1>2, InitIInv, PTL DEF Spec

\* The lists of Dedup and modifyBlock keep their types.
THEOREM TypeCorrect == Spec => []TypeOK
<1>1. IInv => TypeOK BY DEF IInv
<1> QED BY <1>1, Invariance, PTL

\* Dedup returns no attestation that carries the votes of another, although its
\* loops shorten and permute the list they run over.
THEOREM DedupTheorem == Spec => []DedupMinimal
<1>1. IInv => DedupMinimal BY DEF IInv, DoneInv, AllApart, DedupMinimal
<1> QED BY <1>1, Invariance, PTL

\* No vote modifyBlock starts from is lost without an error, unless the block is
\* full of votes that are as recent.
THEOREM VotesTheorem == Spec => []NoVoteLost
<1>1. IInv => NoVoteLost BY DEF IInv
<1> QED BY <1>1, Invariance, PTL
=============================================================================


