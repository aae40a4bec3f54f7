-------------------------- MODULE MCActionRuntime --------------------------
(* Small instances of ActionRuntime: two keys, two values, jobs of every kind. *)
EXTENDS ActionRuntime, TLC

CONSTANTS k1, k2, v1, v2

Call(op, key, allowed, effect) ==
    [op |-> op, key |-> key, binds |-> TRUE, allowed |-> allowed, effect |-> effect,
     hidden |-> {}, dry |-> FALSE, recordRefusals |-> FALSE]

To(v) == [c \in Cell |-> v]

\* The effect reads the object it changes, so a write from a stale read shows.
Flip == [c \in Cell |-> IF c = v1 THEN v2 ELSE v1]

CreateCall == Call("create", k1, Cell, To(v2))
ModifyCall == Call("modify", k1, {v1, Null}, Flip)
DeleteCall == Call("delete", k1, Cell, Flip)
GovernedModify == [Call("modify", k1, Cell, Flip) EXCEPT !.hidden = {v2}]
GovernedDelete == [DeleteCall EXCEPT !.hidden = {v1}]
OtherModify == Call("modify", k2, Cell, Flip)
UnboundCall == [ModifyCall EXCEPT !.binds = FALSE]
PreviewCall == [ModifyCall EXCEPT !.dry = TRUE]
RecordedPreview == [PreviewCall EXCEPT !.recordRefusals = TRUE]

\* What other writers load: the property and the unmapped column tell two rows apart.
Loads == {[c \in Columns |-> IF c = Property THEN v1 ELSE v2],
          [c \in Columns |-> IF c = Property THEN v2 ELSE v1]}

CoreJobs == {CreateCall, ModifyCall, GovernedDelete, GovernedModify, OtherModify, PreviewCall}
FewJobs == {CreateCall, ModifyCall, DeleteCall}
RacingJobs == {ModifyCall, DeleteCall}
FaultJobs == {CreateCall, DeleteCall, UnboundCall, RecordedPreview}

Symmetric == Permutations(Runs) \cup Permutations(Outsiders)
=============================================================================
