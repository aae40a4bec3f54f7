-------------------------- MODULE MCEmbedReconcile --------------------------
(* Small instances of EmbedReconcile: one or two types, one or two models. *)
EXTENDS EmbedReconcile, TLC

CONSTANTS t1, t2, m1, m2

OneType == <<t1>>
TwoTypes == <<t1, t2>>

Keep(m) == [model |-> m, remodel |-> FALSE]
OneModel == {Keep(m1)}
TwoModels == {Keep(m1), Keep(m2)}
Remodelling == {Keep(m1), [model |-> m2, remodel |-> TRUE]}

Symmetric == Permutations(Reconciles) \cup Permutations(Keys)
=============================================================================
