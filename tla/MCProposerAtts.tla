-------------------------- MODULE MCProposerAtts ---------------------------
(* Data of two slots, and one that cannot be hashed; attestations that       *)
(* contain, overlap and miss one another, of two lengths.                    *)
EXTENDS ProposerAtts, TLC

CONSTANTS r1, r2, bad

MCSlotOf == r1 :> 1 @@ r2 :> 2 @@ bad :> 2

Att(r, l, b) == [root |-> r, len |-> l, bits |-> b]

MCSources ==
  {Att(r1, 3, b) : b \in {{1}, {1, 2}, {2, 3}}} \cup
  {Att(r1, 2, {1}), Att(r2, 3, {1}), Att(bad, 3, {1})}
=============================================================================
