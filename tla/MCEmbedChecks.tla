---------------------------- MODULE MCEmbedChecks ----------------------------
(* The small instances of EmbedReconcile, with the history of EmbedChecks. *)
EXTENDS MCEmbedReconcile, EmbedChecks
=============================================================================
