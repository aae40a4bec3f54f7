----------------------------- MODULE EmbedChecks -----------------------------
(* EmbedReconcile with a history: what each run had seen of a sidecar when it   *)
(* checked its model (_check_model), which is before it writes any of them. No  *)
(* action reads it; it tells what a run stores in spite of its check from what   *)
(* it could not know.                                                           *)
EXTENDS EmbedReconcile

VARIABLE checked    \* per run and type, the commits of the sidecar its check has seen

Unchecked == [t \in Types |-> 0]

ChecksInit == Init /\ checked = [p \in Reconciles |-> Unchecked]

(* A run passes the check of a type. One whose probe is told that there is no      *)
(* sidecar has seen none of its commits.                                         *)
Passes(p, found) ==
    /\ CheckFound(p, found)
    /\ recon'[p].pc # "done"
    /\ checked' = [checked EXCEPT ![p][TypeAt(p)] = SnapshotId(TypeAt(p), found)]

NobodyPasses ==
    \A p \in Reconciles :
        recon[p].pc = "check" => recon'[p] = recon[p] \/ recon'[p].pc \in {"done", "dead"}

ChecksNext ==
    \/ \E p \in Reconciles, found \in BOOLEAN : Passes(p, found)
    \/ Next /\ NobodyPasses /\ UNCHANGED checked

ChecksSpec == ChecksInit /\ [][ChecksNext]_<<vars, checked>>

-----------------------------------------------------------------------------

(* A run stores a vector beside those of another model only when it was told to      *)
(* --remodel, or had not seen them at its check: they were stored after it, or the    *)
(* probe ahead of it hid them (_check_model). Whatever the runs' number, order and    *)
(* answers, nothing is stored beside what the check should have refused.              *)
ModelsMeetUnseen ==
    [][\A p \in Reconciles, t \in Types : recon'[p] # recon[p] =>
          \A v \in sidecar[t] \cap sidecar'[t], w \in sidecar'[t] \ sidecar[t] :
              v.model # w.model
                  => recon[p].option.remodel \/ v.commit > checked[p][t]]_<<vars, checked>>
=============================================================================
