------------------------------- MODULE Stream -------------------------------
(***************************************************************************)
(* What a subscription promises its user, whatever goroutines, buffers and *)
(* connections lie in between: notifications are delivered in the order in *)
(* which the service published them, none twice and none left out, and     *)
(* none after the user has ended the subscription.                         *)
(***************************************************************************)
EXTENDS Naturals, Sequences

VARIABLES
  published,  \* the number of notifications published
  delivered,  \* what the user has received
  over        \* the user has ended the subscription

vars == <<published, delivered, over>>

Init == published = 0 /\ delivered = <<>> /\ over = FALSE

Publish ==
  /\ published' = published + 1
  /\ UNCHANGED <<delivered, over>>

Deliver ==
  /\ ~over /\ Len(delivered) < published
  /\ delivered' = Append(delivered, Len(delivered) + 1)
  /\ UNCHANGED <<published, over>>

End ==
  /\ over' = TRUE
  /\ UNCHANGED <<published, delivered>>

Next == Publish \/ Deliver \/ End

Spec == Init /\ [][Next]_vars
=============================================================================
