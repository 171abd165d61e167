----------------------------- MODULE MCHandler -----------------------------
(***************************************************************************)
(* One message, or any batch of up to four messages, one more than the     *)
(* limit, with a limit of two result bytes.                                *)
(***************************************************************************)
EXTENDS Handler

MCBatches == UNION {[1..n -> {"call", "notif"}] : n \in 0..4}
=============================================================================
