---------------------------- MODULE MCBatchCall ----------------------------
(***************************************************************************)
(* All batches of up to four messages, one more than the limit, and a      *)
(* limit of two result bytes.                                              *)
(***************************************************************************)
EXTENDS BatchCall

MCBatches == UNION {[1..n -> {"call", "notif"}] : n \in 0..4}
=============================================================================
