------------------------ MODULE EmbedReconcileProof ------------------------
(* Proofs about EmbedReconcile, for any types, keys, texts, models, processes   *)
(* and bounds: it is well typed; a vector that outlives an erased row comes      *)
(* from a run the delete overtook; while the existence probe is truthful a run   *)
(* is never refused by its own commits; a run refused for its model has written  *)
(* nothing; and no run stores a vector beside one its check should have refused. *)
EXTENDS EmbedChecks, FiniteSetTheorems, TLAPS

-----------------------------------------------------------------------------
(* Types. *)

(* What a run becomes when it starts, moves on or ends is a reconcile state. *)
LEMMA BegunTyped ==
    ASSUME NEW option \in Options, NEW dry \in BOOLEAN
    PROVE  Begun(option, dry) \in ReconcileState
<1>1. 1 \in DOMAIN Targets
    BY EmbedAssumption
<1>. QED
    BY <1>1 DEF Begun, ReconcileState, PCs, Statuses

LEMMA OnwardTyped ==
    ASSUME NEW s \in ReconcileState
    PROVE  Onward(s) \in ReconcileState
<1>1. Kept(s) \in ReconcileState
    <2>1. Begun(s.option, s.dry) \in ReconcileState
        BY BegunTyped DEF ReconcileState
    <2>. QED
        BY <2>1 DEF Kept, ReconcileState
<1>2. Kept(s).at = s.at
    BY DEF Kept, Begun
<1>3. DOMAIN Targets = 1..Len(Targets) /\ Len(Targets) \in Nat
    BY EmbedAssumption
<1>4. s.at < Len(Targets) => s.at + 1 \in DOMAIN Targets
    BY <1>3 DEF ReconcileState
<1>. QED
    BY <1>1, <1>2, <1>4 DEF Onward, ReconcileState, PCs, Statuses

LEMMA PlannedTyped ==
    ASSUME NEW s \in ReconcileState
    PROVE  AfterPrune(s) \in ReconcileState /\ Planned(s) \in ReconcileState
<1>1. AfterPrune(s) \in ReconcileState
    BY OnwardTyped DEF AfterPrune, ReconcileState, PCs
<1>2. [s EXCEPT !.pc = "prune"] \in ReconcileState
    BY DEF ReconcileState, PCs
<1>. QED
    BY <1>1, <1>2, OnwardTyped DEF Planned, ReconcileState

LEMMA ForgetsTyped ==
    ASSUME NEW s \in ReconcileState
    PROVE  Forgets(s) \in ReconcileState
BY DEF Forgets, ReconcileState

LEMMA BecomesTyped ==
    ASSUME NEW p \in Reconciles, NEW s \in ReconcileState,
           recon \in [Reconciles -> ReconcileState], Becomes(p, s)
    PROVE  recon' \in [Reconciles -> ReconcileState]
BY DEF Becomes

LEMMA EndsTyped ==
    ASSUME NEW p \in Reconciles, NEW status \in Statuses,
           recon \in [Reconciles -> ReconcileState], Ends(p, status)
    PROVE  recon' \in [Reconciles -> ReconcileState]
<1>1. recon[p] \in ReconcileState
    OBVIOUS
<1>2. [Forgets(recon[p]) EXCEPT !.pc = "done", !.status = status] \in ReconcileState
    BY <1>1, ForgetsTyped DEF ReconcileState, PCs
<1>. QED
    BY <1>2, BecomesTyped DEF Ends

LEMMA RemoveTyped ==
    ASSUME TypeOK, NEW t \in Types, NEW keys, Remove(t, keys)
    PROVE  /\ created' \in [Types -> BOOLEAN]
           /\ sidecar' \in [Types -> SUBSET Vector]
           /\ commits' \in [Types -> Nat]
BY DEF TypeOK, Remove

LEMMA TypeAtTyped ==
    ASSUME TypeOK, NEW p \in Reconciles
    PROVE  recon[p] \in ReconcileState /\ TypeAt(p) \in Types
BY DEF TypeOK, TypeAt, Types, ReconcileState

LEMMA PlanTyped ==
    ASSUME TypeOK, NEW p \in Reconciles, NEW found \in BOOLEAN
    PROVE  Plan(p, Existing(TypeAt(p), found)) \in ReconcileState
<1>. DEFINE s == recon[p]
            t == TypeAt(p)
            stored == Existing(t, found)
<1>1. s \in ReconcileState /\ t \in Types
    BY TypeAtTyped
<1>2. stored \subseteq Vector /\ commits[t] \in Nat
    BY <1>1 DEF Existing, TypeOK
<1>3. Keyed(stored) \subseteq Keys /\ Pending(s.current, stored, s.option.model) \subseteq Keys
    BY <1>1, <1>2 DEF Keyed, Pending, Vector, ReconcileState
<1>. HIDE DEF stored, s, t
<1>4. [s EXCEPT !.orphans = Keyed(stored) \ Keyed(s.current),
                !.pending = Pending(s.current, stored, s.option.model),
                !.since = commits[t]] \in ReconcileState
    BY <1>1, <1>2, <1>3 DEF ReconcileState
<1>. QED
    BY <1>4 DEF Plan, stored, s, t

(* The steps of a reconcile keep the types. *)
LEMMA ReconcileTyped ==
    ASSUME TypeOK, NEW p \in Reconciles, ReconcileStep(p)
    PROVE  TypeOK'
<1>. DEFINE s == recon[p]
            t == TypeAt(p)
<1>1. s \in ReconcileState /\ t \in Types
    BY TypeAtTyped
<1>2. recon \in [Reconciles -> ReconcileState] /\ created \in [Types -> BOOLEAN]
      /\ sidecar \in [Types -> SUBSET Vector] /\ commits \in [Types -> Nat]
      /\ moved \in [Types -> Nat] /\ faults \in 0..MaxFaults /\ MaxFaults \in Nat
    BY EmbedAssumption DEF TypeOK
<1>3. Fault => faults' \in 0..MaxFaults
    BY <1>2 DEF Fault
<1>4. {"applied", "previewed", "model_changed", "conflict", "failed"} \subseteq Statuses
    BY DEF Statuses
<1>. HIDE DEF s, t
<1>5. CASE CheckModel(p)
    <2>1. recon' \in [Reconciles -> ReconcileState]
        <3>1. CASE Ends(p, "model_changed")
            BY <1>2, <1>4, <3>1, EndsTyped
        <3>2. CASE recon[p].at < Len(Targets) /\ Becomes(p, [recon[p] EXCEPT !.at = @ + 1])
            <4>1. DOMAIN Targets = 1..Len(Targets) /\ Len(Targets) \in Nat
                BY EmbedAssumption
            <4>2. s.at + 1 \in DOMAIN Targets
                BY <1>1, <3>2, <4>1 DEF ReconcileState, s
            <4>3. [s EXCEPT !.at = @ + 1] \in ReconcileState
                BY <1>1, <4>2 DEF ReconcileState
            <4>. QED
                BY <1>2, <3>2, <4>3, BecomesTyped DEF s
        <3>3. CASE Becomes(p, [recon[p] EXCEPT !.at = 1, !.pc = "text"])
            <4>1. 1 \in DOMAIN Targets
                BY EmbedAssumption
            <4>2. [recon[p] EXCEPT !.at = 1, !.pc = "text"] \in ReconcileState
                BY <1>1, <4>1 DEF ReconcileState, PCs, s
            <4>. QED
                BY <1>2, <3>3, <4>2, BecomesTyped
        <3>. QED
            BY <1>5, <3>1, <3>2, <3>3 DEF CheckModel, CheckFound
    <2>. QED
        BY <2>1, <1>5 DEF CheckModel, CheckFound, TypeOK, base, side
<1>6. CASE ReadText(p)
    <2>1. [s EXCEPT !.pc = "stored", !.read = moved[t], !.current = CurrentText(t)]
          \in ReconcileState
        BY <1>1, <1>2 DEF ReconcileState, PCs, CurrentText
    <2>2. recon' \in [Reconciles -> ReconcileState]
        BY <1>2, <1>6, <2>1, BecomesTyped DEF ReadText, s, t
    <2>. QED
        BY <2>2, <1>6 DEF ReadText, TypeOK, base, side
<1>7. CASE ReadStored(p)
    <2>1. PICK found \in BOOLEAN : Becomes(p, Planned(Plan(p, Existing(TypeAt(p), found))))
        BY <1>7 DEF ReadStored
    <2>2. Planned(Plan(p, Existing(TypeAt(p), found))) \in ReconcileState
        BY PlanTyped, PlannedTyped
    <2>3. recon' \in [Reconciles -> ReconcileState]
        BY <1>2, <2>1, <2>2, BecomesTyped
    <2>. QED
        BY <2>3, <1>7 DEF ReadStored, TypeOK, base, side
<1>8. CASE Prune(p)
    <2>1. /\ created' \in [Types -> BOOLEAN]
          /\ sidecar' \in [Types -> SUBSET Vector]
          /\ commits' \in [Types -> Nat]
        BY <1>1, <1>8, RemoveTyped DEF Prune, t
    <2>2. commits'[t] - commits[t] \in Nat
        BY <1>1, <1>2, <1>8 DEF Prune, Remove, t
    <2>3. [s EXCEPT !.own = commits'[t] - commits[t], !.pruned = TRUE, !.orphans = {}]
          \in ReconcileState
        BY <1>1, <2>2 DEF ReconcileState
    <2>4. AfterPrune([s EXCEPT !.own = commits'[t] - commits[t], !.pruned = TRUE, !.orphans = {}])
          \in ReconcileState
        BY <2>3, PlannedTyped
    <2>5. recon' \in [Reconciles -> ReconcileState] /\ faults' \in 0..MaxFaults
        BY <1>2, <1>3, <1>4, <1>8, <2>4, BecomesTyped, EndsTyped DEF Prune, s, t
    <2>. QED
        BY <2>1, <2>5, <1>8 DEF Prune, TypeOK, base
<1>9. CASE Ensure(p)
    <2>1. [s EXCEPT !.pc = "embed"] \in ReconcileState
          /\ [s EXCEPT !.pc = "create"] \in ReconcileState
        BY <1>1 DEF ReconcileState, PCs
    <2>2. recon' \in [Reconciles -> ReconcileState]
        <3>1. PICK found \in BOOLEAN :
                 Becomes(p, [recon[p] EXCEPT !.pc = IF found THEN "embed" ELSE "create"])
            BY <1>9 DEF Ensure
        <3>2. [s EXCEPT !.pc = IF found THEN "embed" ELSE "create"] \in ReconcileState
            BY <2>1
        <3>. QED
            BY <1>2, <3>1, <3>2, BecomesTyped DEF s
    <2>. QED
        BY <2>2, <1>9 DEF Ensure, TypeOK, base, side
<1>10. CASE CreateSidecar(p)
    <2>1. [s EXCEPT !.pc = "embed"] \in ReconcileState
        BY <1>1 DEF ReconcileState, PCs
    <2>2. recon' \in [Reconciles -> ReconcileState]
        BY <1>2, <1>4, <1>10, <2>1, BecomesTyped, EndsTyped DEF CreateSidecar, s
    <2>3. created' \in [Types -> BOOLEAN]
        BY <1>2, <1>10 DEF CreateSidecar
    <2>. QED
        BY <2>2, <2>3, <1>10 DEF CreateSidecar, TypeOK, base
<1>11. CASE ReadSnapshot(p)
    <2>1. PICK found \in BOOLEAN :
             Becomes(p, [recon[p] EXCEPT !.pc = "merge",
                                         !.snap = IF found THEN commits[TypeAt(p)] ELSE 0])
        BY <1>11 DEF ReadSnapshot, SnapshotId
    <2>2. [s EXCEPT !.pc = "merge", !.snap = IF found THEN commits[t] ELSE 0] \in ReconcileState
        BY <1>1, <1>2 DEF ReconcileState, PCs
    <2>3. recon' \in [Reconciles -> ReconcileState]
        BY <1>2, <2>1, <2>2, BecomesTyped DEF s, t
    <2>. QED
        BY <2>3, <1>11 DEF ReadSnapshot, TypeOK, base, side
<1>12. CASE Merge(p)
    <2>1. PICK batch \in Batches(s.pending) :
             /\ Stored(p, batch)
             /\ \/ /\ Becomes(p, IF Merged(p, batch).pending = {}
                                 THEN Onward([Merged(p, batch) EXCEPT !.counted = Merged(p, batch).landed])
                                 ELSE [Merged(p, batch) EXCEPT !.pc = "embed", !.snap = 0])
                   /\ UNCHANGED faults
                \/ Ends(p, "failed") /\ Fault
        BY <1>12 DEF Merge, s
    <2>2. batch \subseteq s.pending /\ Cardinality(batch) \in Nat
        BY <1>1, <2>1, EmbedAssumption, FS_Subset, FS_CardinalityType DEF Batches, ReconcileState
    <2>3. Merged(p, batch) \in ReconcileState
        <3>1. /\ s.pending \ batch \subseteq Keys
              /\ s.landed + Cardinality(batch) \in Nat
              /\ s.own + 1 \in Nat
            BY <1>1, <2>2 DEF ReconcileState
        <3>2. [s EXCEPT !.pending = s.pending \ batch, !.landed = s.landed + Cardinality(batch),
                        !.own = s.own + 1] \in ReconcileState
            BY <1>1, <3>1 DEF ReconcileState
        <3>. QED
            BY <3>2 DEF Merged, s
    <2>. DEFINE m == Merged(p, batch)
    <2>4. [m EXCEPT !.counted = m.landed] \in ReconcileState
          /\ [m EXCEPT !.pc = "embed", !.snap = 0] \in ReconcileState
        <3>. HIDE DEF m
        <3>. QED
            BY <2>3 DEF ReconcileState, PCs, m
    <2>5. recon' \in [Reconciles -> ReconcileState] /\ faults' \in 0..MaxFaults
        <3>. HIDE DEF m
        <3>. QED
            BY <1>2, <1>3, <1>4, <2>1, <2>4, OnwardTyped, BecomesTyped, EndsTyped DEF m
    <2>6. \A e \in s.current :
             [key |-> e.key, text |-> e.text, model |-> s.option.model, read |-> s.read,
              commit |-> commits[t] + 1] \in Vector
        <3>1. s.option.model \in Models
            BY <1>1, EmbedAssumption DEF ReconcileState
        <3>2. \A e \in s.current : e.key \in Keys /\ e.text \in Texts
            BY <1>1 DEF ReconcileState
        <3>3. s.read \in Nat /\ commits[t] + 1 \in Nat
            BY <1>1, <1>2 DEF ReconcileState
        <3>. QED
            BY <3>1, <3>2, <3>3 DEF Vector
    <2>7. /\ created' \in [Types -> BOOLEAN]
          /\ sidecar' \in [Types -> SUBSET Vector]
          /\ commits' \in [Types -> Nat]
        BY <1>1, <1>2, <2>1, <2>6 DEF Stored, s, t
    <2>. QED
        BY <2>5, <2>7, <1>12 DEF Merge, TypeOK, base
<1>13. CASE MergeConflicts(p)
    <2>1. recon' \in [Reconciles -> ReconcileState]
        BY <1>2, <1>4, <1>13, EndsTyped DEF MergeConflicts
    <2>. QED
        BY <2>1, <1>13 DEF MergeConflicts, TypeOK, base, side
<1>14. CASE CallFails(p)
    <2>1. recon' \in [Reconciles -> ReconcileState] /\ faults' \in 0..MaxFaults
        BY <1>2, <1>3, <1>4, <1>14, EndsTyped DEF CallFails
    <2>. QED
        BY <2>1, <1>14 DEF CallFails, TypeOK, base, side
<1>15. CASE Die(p)
    <2>1. [Forgets(s) EXCEPT !.pc = "dead"] \in ReconcileState
        BY <1>1, ForgetsTyped DEF ReconcileState, PCs
    <2>2. recon' \in [Reconciles -> ReconcileState] /\ faults' \in 0..MaxFaults
        BY <1>2, <1>3, <1>15, <2>1, BecomesTyped DEF Die, s
    <2>. QED
        BY <2>2, <1>15 DEF Die, TypeOK, base, side
<1>. QED
    BY <1>5, <1>6, <1>7, <1>8, <1>9, <1>10, <1>11, <1>12, <1>13, <1>14, <1>15
    DEF ReconcileStep

(* The steps of a delete action keep the types. *)
LEMMA ErasureTyped ==
    ASSUME TypeOK, NEW e \in Deletes, ErasureStep(e)
    PROVE  TypeOK'
<1>1. /\ erasure \in [Deletes -> ErasureState] /\ erasure[e] \in ErasureState
      /\ erasure[e].type \in Types /\ erasure[e].key \in Keys
    BY DEF TypeOK, ErasureState
<1>2. moved \in [Types -> Nat] /\ commits \in [Types -> Nat]
      /\ rows \in [Types -> [Keys -> SUBSET Cell]]
    BY DEF TypeOK
<1>3. CASE ReadRow(e)
    <2>1. erasure' \in [Deletes -> ErasureState]
        BY <1>1, <1>2, <1>3 DEF ReadRow, ErasureState
    <2>. QED
        BY <2>1, <1>3 DEF ReadRow, TypeOK, base, side
<1>4. CASE PruneVector(e)
    <2>1. /\ created' \in [Types -> BOOLEAN]
          /\ sidecar' \in [Types -> SUBSET Vector]
          /\ commits' \in [Types -> Nat]
        BY <1>1, <1>4, RemoveTyped DEF PruneVector, side, TypeOK
    <2>2. erasure' \in [Deletes -> ErasureState]
        BY <1>1, <2>1, <1>4 DEF PruneVector, ErasureState
    <2>3. faults' \in 0..MaxFaults
        BY <1>4, EmbedAssumption DEF PruneVector, Fault, TypeOK
    <2>. QED
        BY <2>1, <2>2, <2>3, <1>4 DEF PruneVector, TypeOK, base
<1>5. CASE EraseRow(e)
    <2>1. erasure' \in [Deletes -> ErasureState]
        BY <1>1, <1>5 DEF EraseRow, ErasureState
    <2>2. rows' \in [Types -> [Keys -> SUBSET Cell]] /\ moved' \in [Types -> Nat]
        BY <1>1, <1>2, <1>5 DEF EraseRow
    <2>. QED
        BY <2>1, <2>2, <1>5 DEF EraseRow, TypeOK, side
<1>6. CASE EraseConflicts(e)
    <2>1. erasure' \in [Deletes -> ErasureState]
        <3>1. [erasure[e] EXCEPT !.pc = "stopped"] \in ErasureState
            BY <1>1 DEF ErasureState
        <3>2. erasure[e].attempt < MaxAttempts =>
                 [erasure[e] EXCEPT !.pc = "read", !.attempt = erasure[e].attempt + 1] \in ErasureState
            <4>1. erasure[e].attempt < MaxAttempts => erasure[e].attempt + 1 \in 1..MaxAttempts
                BY <1>1, EmbedAssumption DEF ErasureState
            <4>. QED
                BY <1>1, <4>1 DEF ErasureState
        <3>. QED
            BY <1>1, <1>6, <3>1, <3>2 DEF EraseConflicts
    <2>. QED
        BY <2>1, <1>6 DEF EraseConflicts, TypeOK, base, side
<1>. QED
    BY <1>3, <1>4, <1>5, <1>6 DEF ErasureStep

LEMMA InitTyped == ASSUME Init PROVE TypeOK
<1>1. rows \in [Types -> [Keys -> SUBSET Cell]]
    BY DEF Init, Cell
<1>2. recon \in [Reconciles -> ReconcileState]
    <2>1. PICK option \in Options :
             recon = [p \in Reconciles |-> [Begun(option, FALSE) EXCEPT !.pc = "idle"]]
        BY DEF Init
    <2>2. [Begun(option, FALSE) EXCEPT !.pc = "idle"] \in ReconcileState
        <3>1. FALSE \in BOOLEAN
            OBVIOUS
        <3>2. Begun(option, FALSE) \in ReconcileState
            BY <3>1, BegunTyped
        <3>. QED
            BY <3>2 DEF ReconcileState, PCs
    <2>. QED
        BY <2>1, <2>2
<1>3. erasure \in [Deletes -> ErasureState]
    BY EmbedAssumption DEF Init, ErasureState
<1>. QED
    <2>1. /\ moved \in [Types -> Nat] /\ commits \in [Types -> Nat]
          /\ created \in [Types -> BOOLEAN] /\ sidecar \in [Types -> SUBSET Vector]
        BY DEF Init
    <2>2. edits \in 0..MaxEdits /\ faults \in 0..MaxFaults
        BY EmbedAssumption DEF Init
    <2>. QED
        BY <1>1, <1>2, <1>3, <2>1, <2>2 DEF TypeOK

LEMMA NextTyped == ASSUME TypeOK, [Next]_vars PROVE TypeOK'
<1>1. ASSUME NEW p \in Reconciles, NEW option \in Options, NEW dry \in BOOLEAN,
             Start(p, option, dry)
      PROVE  TypeOK'
    <2>1. recon' \in [Reconciles -> ReconcileState]
        BY <1>1, BegunTyped, BecomesTyped DEF Start, TypeOK
    <2>. QED
        BY <2>1, <1>1 DEF Start, TypeOK, base, side
<1>2. ASSUME NEW t \in Types, NEW k \in Keys, NEW texts \in SUBSET Cell, Edit(t, k, texts)
      PROVE  TypeOK'
    <2>1. rows' \in [Types -> [Keys -> SUBSET Cell]] /\ moved' \in [Types -> Nat]
        BY <1>2 DEF Edit, TypeOK
    <2>2. edits' \in 0..MaxEdits
        BY <1>2, EmbedAssumption DEF Edit, TypeOK
    <2>. QED
        BY <2>1, <2>2, <1>2 DEF Edit, TypeOK, side
<1>3. CASE UNCHANGED vars
    BY <1>3 DEF vars, TypeOK
<1>. QED
    BY <1>1, <1>2, <1>3, ReconcileTyped, ErasureTyped DEF Next

(* Every reachable state is well typed. *)
THEOREM TypeCorrect == Spec => []TypeOK
<1>1. Init => TypeOK
    BY InitTyped
<1>2. TypeOK /\ [Next]_vars => TypeOK'
    BY NextTyped
<1>. QED
    BY <1>1, <1>2, PTL DEF Spec

-----------------------------------------------------------------------------
(* What a step of a reconcile does to its own state. *)

Reading == {"stored", "prune", "ensure", "create", "embed", "merge"}

(* Moving on forgets what was read of the type, and ends well if it ends. *)
LEMMA OnwardIs ==
    ASSUME NEW s \in ReconcileState
    PROVE  /\ Onward(s).pc \in {"text", "done"}
           /\ Onward(s).own = 0
           /\ Onward(s).status \in {"none", "applied", "previewed"}
           /\ Onward(s).pc = "text" => Onward(s).status = "none"
BY DEF Onward, Kept, Begun

(* A plan is to move on, to prune or to write. *)
LEMMA PlannedIs ==
    ASSUME NEW s \in ReconcileState
    PROVE  /\ AfterPrune(s) \in {Onward(s), [s EXCEPT !.pc = "ensure"]}
           /\ Planned(s) \in {Onward(s), [s EXCEPT !.pc = "prune"], [s EXCEPT !.pc = "ensure"]}
<1>1. s.dry \in BOOLEAN
    BY DEF ReconcileState
<1>2. AfterPrune(s) \in {Onward(s), [s EXCEPT !.pc = "ensure"]}
    BY DEF AfterPrune
<1>. QED
    BY <1>1, <1>2 DEF Planned

(* An ended run keeps its counts, and takes the status it is given. *)
LEMMA EndsIs ==
    ASSUME NEW p \in Reconciles, NEW status, recon \in [Reconciles -> ReconcileState],
           Ends(p, status)
    PROVE  /\ recon'[p].pc = "done" /\ recon'[p].status = status
           /\ recon'[p].at = recon[p].at
           /\ recon'[p].since = recon[p].since /\ recon'[p].own = recon[p].own
           /\ recon'[p].landed = recon[p].landed /\ recon'[p].pruned = recon[p].pruned
           /\ \A q \in Reconciles : q # p => recon'[q] = recon[q]
BY DEF Ends, Becomes, Forgets, ReconcileState

(* Pruning and merging: what is in a sidecar afterwards, and commits only grow. *)
LEMMA RemoveIs ==
    ASSUME TypeOK, NEW t \in Types, NEW keys, Remove(t, keys)
    PROVE  /\ \A u \in Types : sidecar'[u] \subseteq sidecar[u] /\ commits'[u] >= commits[u]
           /\ \A v \in sidecar'[t] : v.key \notin keys
           /\ UNCHANGED created
BY DEF TypeOK, Remove

LEMMA StoredIs ==
    ASSUME TypeOK, NEW p \in Reconciles, NEW batch, Stored(p, batch)
    PROVE  /\ \A u \in Types : commits'[u] >= commits[u]
           /\ commits'[TypeAt(p)] = commits[TypeAt(p)] + 1
           /\ \A u \in Types : \A v \in sidecar'[u] :
                 \/ v \in sidecar[u]
                 \/ /\ u = TypeAt(p)
                    /\ v.read = recon[p].read /\ v.commit = commits[u] + 1
                    /\ \E e \in recon[p].current : e.key = v.key
           /\ UNCHANGED created
<1>1. TypeAt(p) \in Types
    BY TypeAtTyped
<1>2. sidecar \in [Types -> SUBSET Vector] /\ commits \in [Types -> Nat]
    BY DEF TypeOK
<1>. QED
    BY <1>1, <1>2 DEF Stored

(* A step of a reconcile either leaves what it read alone, or has just read the text. *)
LEMMA ReconcileReads ==
    ASSUME TypeOK, NEW p \in Reconciles, ReconcileStep(p)
    PROVE  /\ UNCHANGED <<base, erasure>>
           /\ \A q \in Reconciles : q # p => recon'[q] = recon[q]
           /\ \/ recon'[p].pc \notin Reading
              \/ /\ recon'[p].at = recon[p].at
                 /\ recon'[p].read = moved[TypeAt(p)]
                 /\ recon'[p].current = CurrentText(TypeAt(p))
              \/ /\ recon[p].pc \in Reading
                 /\ recon'[p].at = recon[p].at
                 /\ recon'[p].read = recon[p].read
                 /\ recon'[p].current = recon[p].current
<1>. DEFINE Unread == recon'[p].pc \notin Reading
            Kept1 == /\ recon'[p].at = recon[p].at
                     /\ recon'[p].read = recon[p].read
                     /\ recon'[p].current = recon[p].current
<1>1. recon \in [Reconciles -> ReconcileState] /\ recon[p] \in ReconcileState
    BY DEF TypeOK
<1>2. UNCHANGED <<base, erasure>> /\ \A q \in Reconciles : q # p => recon'[q] = recon[q]
    BY <1>1 DEF ReconcileStep, CheckModel, CheckFound, ReadText, ReadStored, Prune, Ensure, CreateSidecar,
                ReadSnapshot, Merge, MergeConflicts, CallFails, Die, Ends, Becomes
<1>3. ASSUME NEW status, Ends(p, status) PROVE Unread
    BY <1>1, <1>3, EndsIs DEF Reading
<1>4. CASE CheckModel(p)
    BY <1>1, <1>2, <1>3, <1>4 DEF CheckModel, CheckFound, Becomes, ReconcileState, Reading
<1>5. CASE ReadText(p)
    BY <1>1, <1>2, <1>5 DEF ReadText, Becomes, ReconcileState
<1>6. CASE ReadStored(p)
    <2>1. PICK found \in BOOLEAN : Becomes(p, Planned(Plan(p, Existing(TypeAt(p), found))))
        BY <1>6 DEF ReadStored
    <2>. DEFINE x == Plan(p, Existing(TypeAt(p), found))
    <2>2. x \in ReconcileState
        BY PlanTyped
    <2>3. x.at = recon[p].at /\ x.read = recon[p].read /\ x.current = recon[p].current
        BY <1>1 DEF ReconcileState, Plan
    <2>4. recon'[p] = Planned(x) /\ recon[p].pc \in Reading
        BY <1>1, <1>6, <2>1 DEF Becomes, ReadStored, Reading
    <2>. HIDE DEF x
    <2>5. Planned(x) \in {Onward(x), [x EXCEPT !.pc = "prune"], [x EXCEPT !.pc = "ensure"]}
        BY <2>2, PlannedIs
    <2>6. CASE Planned(x) = Onward(x)
        BY <2>2, <2>4, <2>6, <1>2, OnwardIs DEF Reading
    <2>7. CASE Planned(x) \in {[x EXCEPT !.pc = "prune"], [x EXCEPT !.pc = "ensure"]}
        BY <2>2, <2>3, <2>4, <2>7, <1>2 DEF ReconcileState
    <2>. QED
        BY <2>5, <2>6, <2>7
<1>7. CASE Prune(p)
    <2>1. recon[p].pc \in Reading
        BY <1>7 DEF Prune, Reading
    <2>2. CASE Ends(p, "failed")
        BY <1>2, <1>3, <2>2
    <2>. DEFINE x == [recon[p] EXCEPT !.own = commits'[TypeAt(p)] - commits[TypeAt(p)],
                                      !.pruned = TRUE, !.orphans = {}]
    <2>3. CASE Becomes(p, AfterPrune(x))
        <3>1. recon'[p] = AfterPrune(x)
            BY <1>1, <2>3 DEF Becomes
        <3>2. x.at = recon[p].at /\ x.read = recon[p].read /\ x.current = recon[p].current
            BY <1>1 DEF ReconcileState
        <3>3. [x EXCEPT !.pc = "ensure"].at = x.at /\ [x EXCEPT !.pc = "ensure"].read = x.read
              /\ [x EXCEPT !.pc = "ensure"].current = x.current
            BY <1>1 DEF ReconcileState
        <3>4. Onward(x).pc \notin Reading
            BY DEF Onward, Kept, Begun, Reading
        <3>. HIDE DEF x
        <3>5. AfterPrune(x) \in {Onward(x), [x EXCEPT !.pc = "ensure"]}
            BY DEF AfterPrune
        <3>6. CASE AfterPrune(x) = Onward(x)
            BY <1>2, <3>1, <3>4, <3>6
        <3>7. CASE AfterPrune(x) = [x EXCEPT !.pc = "ensure"]
            BY <1>2, <2>1, <3>1, <3>2, <3>3, <3>7
        <3>. QED
            BY <3>5, <3>6, <3>7
    <2>. QED
        BY <1>7, <2>2, <2>3 DEF Prune
<1>8. CASE Ensure(p) \/ ReadSnapshot(p)
    <2>1. recon[p].pc \in Reading
        BY <1>8 DEF Ensure, ReadSnapshot, Reading
    <2>2. CASE Ensure(p)
        <3>1. PICK found \in BOOLEAN :
                 recon'[p] = [recon[p] EXCEPT !.pc = IF found THEN "embed" ELSE "create"]
            BY <1>1, <2>2 DEF Ensure, Becomes
        <3>. QED
            BY <1>1, <1>2, <2>1, <3>1 DEF ReconcileState
    <2>3. CASE ReadSnapshot(p)
        <3>1. PICK snap : recon'[p] = [recon[p] EXCEPT !.pc = "merge", !.snap = snap]
            BY <1>1, <2>3 DEF ReadSnapshot, Becomes
        <3>. QED
            BY <1>1, <1>2, <2>1, <3>1 DEF ReconcileState
    <2>. QED
        BY <1>8, <2>2, <2>3
<1>9. CASE CreateSidecar(p)
    BY <1>1, <1>2, <1>3, <1>9 DEF CreateSidecar, Becomes, ReconcileState, Reading
<1>10. CASE Merge(p)
    <2>1. PICK batch \in Batches(recon[p].pending) :
             \/ Becomes(p, IF Merged(p, batch).pending = {}
                           THEN Onward([Merged(p, batch) EXCEPT !.counted = Merged(p, batch).landed])
                           ELSE [Merged(p, batch) EXCEPT !.pc = "embed", !.snap = 0])
             \/ Ends(p, "failed")
        BY <1>10 DEF Merge
    <2>2. recon[p].pc \in Reading
        BY <1>10 DEF Merge, Reading
    <2>. DEFINE x == [Merged(p, batch) EXCEPT !.pc = "embed", !.snap = 0]
                y == [Merged(p, batch) EXCEPT !.counted = Merged(p, batch).landed]
    <2>3. x.at = recon[p].at /\ x.read = recon[p].read /\ x.current = recon[p].current
        BY <1>1 DEF Merged, ReconcileState
    <2>4. Onward(y).pc \notin Reading
        BY DEF Onward, Kept, Begun, Reading
    <2>5. recon'[p] = x \/ recon'[p] = Onward(y) \/ Ends(p, "failed")
        BY <1>1, <2>1 DEF Becomes
    <2>. HIDE DEF x, y
    <2>. QED
        BY <1>2, <1>3, <2>2, <2>3, <2>4, <2>5
<1>11. CASE MergeConflicts(p) \/ CallFails(p)
    BY <1>2, <1>3, <1>11 DEF MergeConflicts, CallFails
<1>12. CASE Die(p)
    BY <1>1, <1>2, <1>12 DEF Die, Becomes, Forgets, ReconcileState, Reading
<1>. QED
    BY <1>4, <1>5, <1>6, <1>7, <1>8, <1>9, <1>10, <1>11, <1>12 DEF ReconcileStep

(* A step of a reconcile adds to a sidecar only vectors of the text it has read. *)
LEMMA ReconcileWrites ==
    ASSUME TypeOK, NEW p \in Reconciles, ReconcileStep(p)
    PROVE  \A u \in Types :
              /\ commits'[u] >= commits[u]
              /\ \A v \in sidecar'[u] :
                    \/ v \in sidecar[u]
                    \/ /\ u = TypeAt(p) /\ recon[p].pc \in Reading
                       /\ v.read = recon[p].read /\ v.commit = commits[u] + 1
                       /\ \E e \in recon[p].current : e.key = v.key
<1>1. TypeAt(p) \in Types /\ commits \in [Types -> Nat]
    BY TypeAtTyped DEF TypeOK
<1>2. CASE Prune(p)
    BY <1>1, <1>2, RemoveIs DEF Prune
<1>3. CASE Merge(p)
    <2>1. PICK batch : Stored(p, batch)
        BY <1>3 DEF Merge
    <2>2. recon[p].pc \in Reading
        BY <1>3 DEF Merge, Reading
    <2>. QED
        BY <2>1, <2>2, StoredIs
<1>4. CASE UNCHANGED <<sidecar, commits>>
    BY <1>1, <1>4
<1>5. ~ Prune(p) /\ ~ Merge(p) => UNCHANGED <<sidecar, commits>>
    BY DEF ReconcileStep, CheckModel, CheckFound, ReadText, ReadStored, Ensure, CreateSidecar, ReadSnapshot,
           MergeConflicts, CallFails, Die, side
<1>. QED
    BY <1>2, <1>3, <1>4, <1>5

-----------------------------------------------------------------------------
(* Erasure. The texts a reconcile has read are those of the table unless the table  *)
(* has moved, so a vector it stores of a row that is gone was read before.          *)

ReadInv ==
    \A p \in Reconciles : recon[p].pc \in Reading =>
        /\ recon[p].read <= moved[TypeAt(p)]
        /\ recon[p].read = moved[TypeAt(p)] => recon[p].current = CurrentText(TypeAt(p))

VectorInv == \A t \in Types : \A v \in sidecar[t] : v.read <= moved[t]

ErasedInv ==
    \A e \in Deletes :
        LET t == erasure[e].type IN
        /\ erasure[e].pc \in {"row", "erased"} =>
              /\ erasure[e].pruned <= commits[t]
              /\ \A v \in sidecar[t] : v.key = erasure[e].key => v.commit > erasure[e].pruned
        /\ erasure[e].pc = "erased" =>
              /\ moved[t] >= erasure[e].snap + 1
              /\ moved[t] = erasure[e].snap + 1 =>
                    /\ rows[t][erasure[e].key] = {}
                    /\ \A v \in sidecar[t] : v.key = erasure[e].key => v.read <= erasure[e].snap

ErasureInv == TypeOK /\ ReadInv /\ VectorInv /\ ErasedInv

LEMMA ErasureInvReconcile ==
    ASSUME ErasureInv, TypeOK', NEW p \in Reconciles, ReconcileStep(p)
    PROVE  ErasureInv'
<1>1. TypeOK /\ recon[p] \in ReconcileState /\ TypeAt(p) \in Types
    BY TypeAtTyped DEF ErasureInv
<1>2. /\ UNCHANGED <<rows, moved, erasure>>
      /\ \A q \in Reconciles : q # p => recon'[q] = recon[q]
    BY <1>1, ReconcileReads DEF base
<1>3. \A t : CurrentText(t)' = CurrentText(t)
    BY <1>2 DEF CurrentText
<1>4. ReadInv'
    <2>. SUFFICES ASSUME NEW q \in Reconciles, recon'[q].pc \in Reading
                  PROVE  /\ recon'[q].read <= moved[TypeAt(q)']
                         /\ recon'[q].read = moved[TypeAt(q)'] =>
                               recon'[q].current = CurrentText(TypeAt(q)')
        BY <1>2, <1>3 DEF ReadInv
    <2>1. CASE q # p
        BY <1>2, <2>1 DEF ErasureInv, ReadInv, TypeAt
    <2>2. CASE q = p
        <3>1. \/ /\ recon'[p].at = recon[p].at
                 /\ recon'[p].read = moved[TypeAt(p)]
                 /\ recon'[p].current = CurrentText(TypeAt(p))
              \/ /\ recon[p].pc \in Reading
                 /\ recon'[p].at = recon[p].at
                 /\ recon'[p].read = recon[p].read
                 /\ recon'[p].current = recon[p].current
            BY <1>1, <2>2, ReconcileReads
        <3>2. TypeAt(p)' = TypeAt(p) /\ moved[TypeAt(p)] \in Nat
            BY <1>1, <3>1 DEF TypeAt, TypeOK
        <3>. QED
            BY <2>2, <3>1, <3>2 DEF ErasureInv, ReadInv
    <2>. QED
        BY <2>1, <2>2
<1>5. \A u \in Types :
         /\ commits'[u] >= commits[u]
         /\ \A v \in sidecar'[u] :
               \/ v \in sidecar[u]
               \/ /\ u = TypeAt(p) /\ recon[p].pc \in Reading
                  /\ v.read = recon[p].read /\ v.commit = commits[u] + 1
                  /\ \E e \in recon[p].current : e.key = v.key
    BY <1>1, ReconcileWrites
<1>6. VectorInv'
    BY <1>1, <1>2, <1>5 DEF ErasureInv, VectorInv, ReadInv
<1>7. ErasedInv'
    <2>. SUFFICES ASSUME NEW e \in Deletes, NEW t \in Types, t = erasure[e].type
                  PROVE
        /\ erasure[e].pc \in {"row", "erased"} =>
              /\ erasure[e].pruned <= commits'[t]
              /\ \A v \in sidecar'[t] : v.key = erasure[e].key => v.commit > erasure[e].pruned
        /\ erasure[e].pc = "erased" =>
              /\ moved[t] >= erasure[e].snap + 1
              /\ moved[t] = erasure[e].snap + 1 =>
                    /\ rows[t][erasure[e].key] = {}
                    /\ \A v \in sidecar'[t] : v.key = erasure[e].key => v.read <= erasure[e].snap
        BY <1>1, <1>2 DEF ErasedInv, TypeOK, ErasureState
    <2>1. erasure[e] \in ErasureState /\ commits[t] \in Nat /\ commits'[t] \in Nat /\ moved[t] \in Nat
        BY <1>1 DEF TypeOK
    <2>2. ErasedInv
        BY DEF ErasureInv
    <2>3. ASSUME erasure[e].pc \in {"row", "erased"}
          PROVE  /\ erasure[e].pruned <= commits'[t]
                 /\ \A v \in sidecar'[t] : v.key = erasure[e].key => v.commit > erasure[e].pruned
        <3>1. erasure[e].pruned <= commits[t] /\ erasure[e].pruned \in Nat
            BY <2>1, <2>2, <2>3 DEF ErasedInv, ErasureState
        <3>. QED
            BY <1>5, <2>1, <2>2, <2>3, <3>1 DEF ErasedInv
    <2>4. ASSUME erasure[e].pc = "erased", moved[t] = erasure[e].snap + 1,
                 NEW v \in sidecar'[t], v.key = erasure[e].key
          PROVE  v.read <= erasure[e].snap
        <3>1. CASE v \in sidecar[t]
            BY <2>2, <2>4, <3>1 DEF ErasedInv
        <3>2. CASE v \notin sidecar[t]
            <4>1. t = TypeAt(p) /\ v.read = recon[p].read /\ recon[p].pc \in Reading
                BY <1>5, <3>2
            <4>2. PICK x \in recon[p].current : x.key = v.key
                BY <1>5, <3>2
            <4>3. rows[t][erasure[e].key] = {}
                BY <2>2, <2>4 DEF ErasedInv
            <4>4. x \notin CurrentText(t)
                BY <2>4, <4>2, <4>3 DEF CurrentText
            <4>5. v.read <= moved[t] /\ v.read # moved[t]
                BY <4>1, <4>2, <4>4 DEF ErasureInv, ReadInv
            <4>6. v.read \in Nat /\ erasure[e].snap \in Nat
                BY <1>1, <2>1, <4>1 DEF ReconcileState, ErasureState
            <4>. QED
                BY <2>4, <4>5, <4>6
        <3>. QED
            BY <3>1, <3>2
    <2>. QED
        BY <2>2, <2>3, <2>4 DEF ErasedInv
<1>. QED
    BY <1>4, <1>6, <1>7 DEF ErasureInv

LEMMA ErasureInvErasure ==
    ASSUME ErasureInv, TypeOK', NEW e \in Deletes, ErasureStep(e)
    PROVE  ErasureInv'
<1>. DEFINE t == erasure[e].type
            k == erasure[e].key
<1>1. /\ TypeOK /\ ReadInv /\ VectorInv /\ ErasedInv
      /\ erasure \in [Deletes -> ErasureState] /\ erasure[e] \in ErasureState
      /\ t \in Types /\ k \in Keys
      /\ moved \in [Types -> Nat] /\ commits \in [Types -> Nat]
      /\ rows \in [Types -> [Keys -> SUBSET Cell]]
    BY DEF ErasureInv, TypeOK, ErasureState
<1>2. /\ UNCHANGED recon
      /\ \A d \in Deletes : /\ erasure'[d].type = erasure[d].type
                            /\ erasure'[d].key = erasure[d].key
                            /\ d # e => erasure'[d] = erasure[d]
    <2>1. PICK x \in ErasureState : x.type = t /\ x.key = k /\ erasure' = [erasure EXCEPT ![e] = x]
        <3>1. erasure'[e].type = t /\ erasure'[e].key = k
            <4>1. CASE ReadRow(e)
                BY <1>1, <4>1 DEF ReadRow, ErasureState
            <4>2. CASE PruneVector(e)
                BY <1>1, <4>2 DEF PruneVector, ErasureState
            <4>3. CASE EraseRow(e)
                BY <1>1, <4>3 DEF EraseRow, ErasureState
            <4>4. CASE EraseConflicts(e)
                BY <1>1, <4>4 DEF EraseConflicts, ErasureState
            <4>. QED
                BY <4>1, <4>2, <4>3, <4>4 DEF ErasureStep
        <3>2. erasure' = [erasure EXCEPT ![e] = erasure'[e]]
            BY <1>1 DEF ErasureStep, ReadRow, PruneVector, EraseRow, EraseConflicts
        <3>3. erasure'[e] \in ErasureState
            BY DEF TypeOK
        <3>. QED
            BY <3>1, <3>2, <3>3
    <2>2. UNCHANGED recon
        BY DEF ErasureStep, ReadRow, PruneVector, EraseRow, EraseConflicts
    <2>. QED
        BY <1>1, <2>1, <2>2
<1>3. \A u \in Types : sidecar'[u] \subseteq sidecar[u] /\ commits'[u] >= commits[u]
    <2>1. CASE Remove(t, {k})
        BY <1>1, <2>1, RemoveIs
    <2>2. CASE UNCHANGED side
        BY <1>1, <2>2 DEF side
    <2>. QED
        BY <2>1, <2>2 DEF ErasureStep, ReadRow, PruneVector, EraseRow, EraseConflicts
<1>4. CASE EraseRow(e)
    <2>1. /\ erasure[e].pc = "row" /\ moved[t] = erasure[e].snap
          /\ moved' = [moved EXCEPT ![t] = @ + 1]
          /\ rows' = [rows EXCEPT ![t][k] = {}]
          /\ erasure' = [erasure EXCEPT ![e].pc = "erased"]
          /\ UNCHANGED <<sidecar, commits>>
        BY <1>4 DEF EraseRow, side
    <2>2. \A u \in Types : moved'[u] >= moved[u] /\ (u # t => moved'[u] = moved[u])
          /\ (u # t => rows'[u] = rows[u])
        BY <1>1, <2>1
    <2>3. moved'[t] = moved[t] + 1 /\ rows'[t][k] = {}
        BY <1>1, <2>1
    <2>4. ReadInv'
        <3>. SUFFICES ASSUME NEW p \in Reconciles, recon[p].pc \in Reading
                      PROVE  /\ recon[p].read <= moved'[TypeAt(p)]
                             /\ recon[p].read = moved'[TypeAt(p)] =>
                                   recon[p].current = CurrentText(TypeAt(p))'
            BY <1>2 DEF ReadInv, TypeAt
        <3>1. TypeAt(p) \in Types /\ recon[p] \in ReconcileState
            BY <1>1, TypeAtTyped
        <3>2. recon[p].read \in Nat
            BY <3>1 DEF ReconcileState
        <3>3. CASE TypeAt(p) = t
            BY <1>1, <2>3, <3>2, <3>3 DEF ReadInv
        <3>4. CASE TypeAt(p) # t
            <4>1. CurrentText(TypeAt(p))' = CurrentText(TypeAt(p))
                BY <1>2, <2>2, <3>1, <3>4 DEF CurrentText, TypeAt
            <4>. QED
                BY <1>1, <2>2, <3>1, <3>4, <4>1 DEF ReadInv
        <3>. QED
            BY <3>3, <3>4
    <2>5. \A u \in Types : \A v \in sidecar[u] : v.read \in Nat /\ v.read <= moved[u]
        BY <1>1 DEF VectorInv, TypeOK, Vector
    <2>6. VectorInv'
        BY <1>1, <2>1, <2>2, <2>3, <2>5 DEF VectorInv
    <2>7. ErasedInv'
        <3>. SUFFICES ASSUME NEW d \in Deletes, NEW u \in Types, u = erasure[d].type
                      PROVE
            /\ erasure'[d].pc \in {"row", "erased"} =>
                  /\ erasure'[d].pruned <= commits[u]
                  /\ \A v \in sidecar[u] : v.key = erasure[d].key => v.commit > erasure'[d].pruned
            /\ erasure'[d].pc = "erased" =>
                  /\ moved'[u] >= erasure'[d].snap + 1
                  /\ moved'[u] = erasure'[d].snap + 1 =>
                        /\ rows'[u][erasure[d].key] = {}
                        /\ \A v \in sidecar[u] : v.key = erasure[d].key => v.read <= erasure'[d].snap
            BY <1>1, <1>2, <2>1 DEF ErasedInv, TypeOK, ErasureState
        <3>1. erasure[d] \in ErasureState
            BY <1>1
        <3>2. CASE d = e
            <4>1. /\ erasure'[e].pc = "erased" /\ erasure'[e].snap = erasure[e].snap
                  /\ erasure'[e].pruned = erasure[e].pruned
                BY <1>1, <2>1 DEF ErasureState
            <4>. QED
                BY <1>1, <2>1, <2>3, <2>5, <3>2, <4>1 DEF ErasedInv
        <3>3. CASE d # e
            <4>1. erasure'[d] = erasure[d]
                BY <1>2, <3>3
            <4>2. erasure[d].snap \in Nat /\ moved[u] \in Nat
                BY <1>1, <3>1 DEF ErasureState
            <4>3. /\ erasure[d].pc \in {"row", "erased"} =>
                        /\ erasure[d].pruned <= commits[u]
                        /\ \A v \in sidecar[u] : v.key = erasure[d].key => v.commit > erasure[d].pruned
                  /\ erasure[d].pc = "erased" => moved[u] >= erasure[d].snap + 1
                BY <1>1 DEF ErasedInv
            <4>4. CASE u = t
                <5>1. moved'[u] = moved[u] + 1
                    BY <2>3, <4>4
                <5>2. erasure[d].pc = "erased" =>
                         moved'[u] >= erasure[d].snap + 1 /\ moved'[u] # erasure[d].snap + 1
                    BY <4>2, <4>3, <5>1
                <5>. QED
                    BY <4>1, <4>3, <5>2
            <4>5. CASE u # t
                BY <1>1, <2>2, <4>1, <4>5 DEF ErasedInv
            <4>. QED
                BY <4>4, <4>5
        <3>. QED
            BY <3>2, <3>3
    <2>. QED
        BY <2>4, <2>6, <2>7 DEF ErasureInv
<1>5. CASE ~ EraseRow(e)
    <2>1. UNCHANGED <<rows, moved>>
        BY <1>5 DEF ErasureStep, ReadRow, PruneVector, EraseConflicts, base
    <2>2. ReadInv' /\ VectorInv'
        BY <1>1, <1>2, <1>3, <2>1 DEF ReadInv, VectorInv, TypeAt, CurrentText
    <2>3. erasure'[e].pc \in {"row", "erased"} =>
             /\ erasure'[e].pc = "row"
             /\ erasure'[e].pruned = commits'[t]
             /\ \A v \in sidecar'[t] : v.key # k
        <3>1. CASE PruneVector(e)
            <4>1. CASE Remove(t, {k}) /\ erasure' = [erasure EXCEPT ![e].pc = "row",
                                                                  ![e].pruned = commits'[t]]
                BY <1>1, <4>1, RemoveIs DEF ErasureState
            <4>2. CASE erasure' = [erasure EXCEPT ![e].pc = "stopped"]
                BY <1>1, <4>2 DEF ErasureState
            <4>. QED
                BY <3>1, <4>1, <4>2 DEF PruneVector
        <3>2. CASE ReadRow(e)
            BY <1>1, <3>2 DEF ReadRow, ErasureState
        <3>3. CASE EraseConflicts(e)
            BY <1>1, <3>3 DEF EraseConflicts, ErasureState
        <3>. QED
            BY <1>5, <3>1, <3>2, <3>3 DEF ErasureStep
    <2>4. ErasedInv'
        <3>. SUFFICES ASSUME NEW d \in Deletes, NEW u \in Types, u = erasure[d].type
                      PROVE
            /\ erasure'[d].pc \in {"row", "erased"} =>
                  /\ erasure'[d].pruned <= commits'[u]
                  /\ \A v \in sidecar'[u] : v.key = erasure[d].key => v.commit > erasure'[d].pruned
            /\ erasure'[d].pc = "erased" =>
                  /\ moved[u] >= erasure'[d].snap + 1
                  /\ moved[u] = erasure'[d].snap + 1 =>
                        /\ rows[u][erasure[d].key] = {}
                        /\ \A v \in sidecar'[u] : v.key = erasure[d].key => v.read <= erasure'[d].snap
            <4>1. \A d \in Deletes : erasure'[d].type \in Types
                BY DEF TypeOK, ErasureState
            <4>. QED
                BY <1>2, <2>1, <4>1 DEF ErasedInv
        <3>1. commits[u] \in Nat /\ commits'[u] \in Nat
            BY <1>1 DEF TypeOK
        <3>2. CASE d = e
            BY <2>3, <3>1, <3>2
        <3>3. CASE d # e
            <4>1. erasure'[d] = erasure[d] /\ erasure[d].pruned \in Nat
                BY <1>1, <1>2, <3>3 DEF ErasureState
            <4>2. /\ erasure[d].pc \in {"row", "erased"} =>
                        /\ erasure[d].pruned <= commits[u]
                        /\ \A v \in sidecar[u] : v.key = erasure[d].key => v.commit > erasure[d].pruned
                  /\ erasure[d].pc = "erased" =>
                        /\ moved[u] >= erasure[d].snap + 1
                        /\ moved[u] = erasure[d].snap + 1 =>
                              /\ rows[u][erasure[d].key] = {}
                              /\ \A v \in sidecar[u] : v.key = erasure[d].key => v.read <= erasure[d].snap
                BY <1>1 DEF ErasedInv
            <4>. QED
                BY <1>3, <3>1, <4>1, <4>2
        <3>. QED
            BY <3>2, <3>3
    <2>. QED
        BY <2>2, <2>4 DEF ErasureInv
<1>. QED
    BY <1>4, <1>5

LEMMA ErasureInvEdit ==
    ASSUME ErasureInv, TypeOK', NEW u \in Types, NEW k \in Keys, NEW texts \in SUBSET Cell,
           Edit(u, k, texts)
    PROVE  ErasureInv'
<1>1. /\ TypeOK /\ ReadInv /\ VectorInv /\ ErasedInv
      /\ moved \in [Types -> Nat] /\ rows \in [Types -> [Keys -> SUBSET Cell]]
      /\ UNCHANGED <<sidecar, commits, recon, erasure>>
      /\ rows' = [rows EXCEPT ![u][k] = texts] /\ moved' = [moved EXCEPT ![u] = @ + 1]
    BY DEF ErasureInv, TypeOK, Edit, side
<1>2. \A t \in Types :
         /\ moved[t] \in Nat
         /\ t = u => moved'[t] = moved[t] + 1
         /\ t # u => moved'[t] = moved[t] /\ rows'[t] = rows[t]
    BY <1>1
<1>3. ReadInv'
    <2>. SUFFICES ASSUME NEW p \in Reconciles, recon[p].pc \in Reading
                  PROVE  /\ recon[p].read <= moved'[TypeAt(p)]
                         /\ recon[p].read = moved'[TypeAt(p)] =>
                               recon[p].current = CurrentText(TypeAt(p))'
        BY <1>1 DEF ReadInv, TypeAt
    <2>1. TypeAt(p) \in Types /\ recon[p].read \in Nat
        BY <1>1, TypeAtTyped DEF ReconcileState
    <2>2. CASE TypeAt(p) = u
        BY <1>1, <1>2, <2>1, <2>2 DEF ReadInv
    <2>3. CASE TypeAt(p) # u
        <3>1. CurrentText(TypeAt(p))' = CurrentText(TypeAt(p))
            BY <1>1, <1>2, <2>1, <2>3 DEF CurrentText, TypeAt
        <3>. QED
            BY <1>1, <1>2, <2>1, <2>3, <3>1 DEF ReadInv
    <2>. QED
        BY <2>2, <2>3
<1>4. VectorInv'
    <2>1. \A t \in Types : \A v \in sidecar[t] : v.read \in Nat /\ v.read <= moved[t]
        BY <1>1 DEF VectorInv, TypeOK, Vector
    <2>. QED
        BY <1>1, <1>2, <2>1 DEF VectorInv
<1>5. ErasedInv'
    <2>. SUFFICES ASSUME NEW e \in Deletes, NEW t \in Types, t = erasure[e].type
                  PROVE
        /\ erasure[e].pc \in {"row", "erased"} =>
              /\ erasure[e].pruned <= commits[t]
              /\ \A v \in sidecar[t] : v.key = erasure[e].key => v.commit > erasure[e].pruned
        /\ erasure[e].pc = "erased" =>
              /\ moved'[t] >= erasure[e].snap + 1
              /\ moved'[t] = erasure[e].snap + 1 =>
                    /\ rows'[t][erasure[e].key] = {}
                    /\ \A v \in sidecar[t] : v.key = erasure[e].key => v.read <= erasure[e].snap
        BY <1>1 DEF ErasedInv, TypeOK, ErasureState
    <2>1. erasure[e].snap \in Nat
        BY <1>1 DEF TypeOK, ErasureState
    <2>2. /\ erasure[e].pc \in {"row", "erased"} =>
                /\ erasure[e].pruned <= commits[t]
                /\ \A v \in sidecar[t] : v.key = erasure[e].key => v.commit > erasure[e].pruned
          /\ erasure[e].pc = "erased" => moved[t] >= erasure[e].snap + 1
        BY <1>1 DEF ErasedInv
    <2>3. CASE t = u
        <3>1. moved'[t] = moved[t] + 1 /\ moved[t] \in Nat
            BY <1>1, <2>3
        <3>2. erasure[e].pc = "erased" =>
                 moved'[t] >= erasure[e].snap + 1 /\ moved'[t] # erasure[e].snap + 1
            BY <2>1, <2>2, <3>1
        <3>. QED
            BY <2>2, <3>2
    <2>4. CASE t # u
        BY <1>1, <1>2, <2>4 DEF ErasedInv
    <2>. QED
        BY <2>3, <2>4
<1>. QED
    BY <1>3, <1>4, <1>5 DEF ErasureInv

(* A run that starts has read nothing yet. *)
LEMMA ErasureInvStart ==
    ASSUME ErasureInv, TypeOK', NEW p \in Reconciles, NEW option \in Options,
           NEW dry \in BOOLEAN, Start(p, option, dry)
    PROVE  ErasureInv'
<1>1. /\ ReadInv /\ VectorInv /\ ErasedInv /\ recon \in [Reconciles -> ReconcileState]
      /\ UNCHANGED <<rows, moved, sidecar, commits, erasure>>
      /\ recon' = [recon EXCEPT ![p] = Begun(option, dry)]
    BY DEF ErasureInv, TypeOK, Start, Becomes, base, side
<1>2. recon'[p].pc \notin Reading /\ \A q \in Reconciles : q # p => recon'[q] = recon[q]
    BY <1>1 DEF Begun, Reading
<1>3. ReadInv'
    BY <1>1, <1>2 DEF ReadInv, TypeAt, CurrentText
<1>. QED
    BY <1>1, <1>3 DEF ErasureInv, VectorInv, ErasedInv

(* OnlyOvertakenRunsOutliveAnErasure for every instance: once a delete action has   *)
(* pruned the vector and erased the row, a vector of that key was stored after the  *)
(* prune, by a reconcile that read its text before the row went.                    *)
THEOREM ErasureOvertaken == Spec => []OnlyOvertakenRunsOutliveAnErasure
<1>1. Init => ErasureInv
    <2>. SUFFICES ASSUME Init PROVE ErasureInv
        OBVIOUS
    <2>1. TypeOK
        BY InitTyped
    <2>2. \A p \in Reconciles : recon[p].pc = "idle"
        BY DEF Init, Begun
    <2>3. \A e \in Deletes : erasure[e].pc = "read"
        BY DEF Init
    <2>4. \A t \in Types : sidecar[t] = {}
        BY DEF Init
    <2>. QED
        BY <2>1, <2>2, <2>3, <2>4 DEF ErasureInv, ReadInv, VectorInv, ErasedInv, Reading
<1>2. ErasureInv /\ [Next]_vars => ErasureInv'
    <2>. SUFFICES ASSUME ErasureInv, [Next]_vars PROVE ErasureInv'
        OBVIOUS
    <2>1. TypeOK'
        BY NextTyped DEF ErasureInv
    <2>2. ASSUME NEW p \in Reconciles, NEW option \in Options, NEW dry \in BOOLEAN,
                 Start(p, option, dry)
          PROVE  ErasureInv'
        BY <2>1, <2>2, ErasureInvStart
    <2>3. ASSUME NEW p \in Reconciles, ReconcileStep(p)
          PROVE  ErasureInv'
        BY <2>1, <2>3, ErasureInvReconcile
    <2>4. ASSUME NEW e \in Deletes, ErasureStep(e)
          PROVE  ErasureInv'
        BY <2>1, <2>4, ErasureInvErasure
    <2>5. ASSUME NEW t \in Types, NEW k \in Keys,
                 NEW texts \in {c \in SUBSET Cell : Cardinality(c) <= 2}, Edit(t, k, texts)
          PROVE  ErasureInv'
        BY <2>1, <2>5, ErasureInvEdit
    <2>6. CASE UNCHANGED vars
        BY <2>6 DEF vars, ErasureInv, TypeOK, ReadInv, VectorInv, ErasedInv, TypeAt, CurrentText
    <2>. QED
        BY <2>2, <2>3, <2>4, <2>5, <2>6 DEF Next
<1>3. ErasureInv => OnlyOvertakenRunsOutliveAnErasure
    BY DEF ErasureInv, ErasedInv, OnlyOvertakenRunsOutliveAnErasure
<1>. QED
    BY <1>1, <1>2, <1>3, PTL DEF Spec

-----------------------------------------------------------------------------
(* Conflicts. Between two commits of a sidecar a run counts its own, and reads the  *)
(* snapshot again after each: what it asserts is never older than its own last one. *)

OwnIn(p) ==
    LET s == recon[p]
        t == TypeAt(p)
    IN  /\ s.pc \in {"check", "text", "stored", "prune"} => s.own = 0
        /\ s.pc \in {"prune", "ensure", "create", "embed", "merge"} => s.since + s.own <= commits[t]
        /\ s.pc = "merge" => s.since + s.own <= s.snap /\ s.snap <= commits[t]
        /\ s.pc \in {"embed", "merge"} => created[t]
        /\ s.status = "conflict" => s.pc = "done" /\ s.since + s.own < commits[t]

(* What everybody else does leaves a run's own state alone. *)
LEMMA OwnKept ==
    ASSUME TypeOK, TypeOK', NEW p \in Reconciles, OwnIn(p), recon'[p] = recon[p],
           \A u \in Types : commits'[u] >= commits[u] /\ (created[u] => created'[u])
    PROVE  OwnIn(p)'
<1>1. TypeAt(p) \in Types /\ recon[p] \in ReconcileState /\ TypeAt(p)' = TypeAt(p)
    BY TypeAtTyped DEF TypeAt
<1>2. commits[TypeAt(p)] \in Nat /\ commits'[TypeAt(p)] \in Nat
      /\ commits'[TypeAt(p)] >= commits[TypeAt(p)]
      /\ recon[p].since \in Nat /\ recon[p].own \in Nat /\ recon[p].snap \in Nat
    BY <1>1 DEF TypeOK, ReconcileState
<1>. QED
    BY <1>1, <1>2 DEF OwnIn

(* A sidecar that is there stays. *)
LEMMA CreatedStays ==
    ASSUME TypeOK, NEW p \in Reconciles, ReconcileStep(p)
    PROVE  \A u \in Types : created[u] => created'[u]
<1>1. TypeAt(p) \in Types /\ created \in [Types -> BOOLEAN]
    BY TypeAtTyped DEF TypeOK
<1>2. CASE CreateSidecar(p)
    BY <1>1, <1>2 DEF CreateSidecar
<1>3. CASE ~ CreateSidecar(p)
    BY <1>3 DEF ReconcileStep, CheckModel, CheckFound, ReadText, ReadStored, Prune, Ensure, ReadSnapshot,
                Merge, MergeConflicts, CallFails, Die, Remove, Stored, side
<1>. QED
    BY <1>2, <1>3

LEMMA OwnStep ==
    ASSUME ~ FlakyProbe, TypeOK, TypeOK', NEW p \in Reconciles, OwnIn(p), ReconcileStep(p)
    PROVE  OwnIn(p)'
<1>1. /\ recon \in [Reconciles -> ReconcileState] /\ recon[p] \in ReconcileState
      /\ TypeAt(p) \in Types /\ commits[TypeAt(p)] \in Nat /\ created[TypeAt(p)] \in BOOLEAN
    BY TypeAtTyped DEF TypeOK
<1>2. recon[p].since \in Nat /\ recon[p].own \in Nat /\ recon[p].snap \in Nat
    BY <1>1 DEF ReconcileState
<1>3. \A found \in BOOLEAN : Probe(TypeAt(p), found) => found = created[TypeAt(p)]
    BY DEF Probe
<1>4. ASSUME NEW s, recon'[p] = s, s.pc \in {"text", "stored", "done", "check", "dead"},
             s.status # "conflict", s.pc \notin {"done", "dead"} => s.own = 0
      PROVE  OwnIn(p)'
    BY <1>4 DEF OwnIn
<1>5. ASSUME NEW s \in ReconcileState, recon'[p] = Onward(s) PROVE OwnIn(p)'
    BY <1>5, <1>4, OnwardIs
<1>6. ASSUME NEW status, status # "conflict", Ends(p, status) PROVE OwnIn(p)'
    BY <1>1, <1>6, EndsIs DEF OwnIn
<1>7. CASE CheckModel(p)
    <2>1. CASE Ends(p, "model_changed")
        BY <2>1, <1>6
    <2>2. CASE \/ Becomes(p, [recon[p] EXCEPT !.at = @ + 1])
               \/ Becomes(p, [recon[p] EXCEPT !.at = 1, !.pc = "text"])
        <3>1. recon[p].pc = "check" /\ recon[p].own = 0 /\ recon[p].status # "conflict"
            BY <1>7 DEF CheckModel, CheckFound, OwnIn
        <3>2. \/ recon'[p] = [recon[p] EXCEPT !.at = @ + 1]
              \/ recon'[p] = [recon[p] EXCEPT !.at = 1, !.pc = "text"]
            BY <1>1, <2>2 DEF Becomes
        <3>3. /\ recon'[p].pc \in {"check", "text"} /\ recon'[p].own = 0
              /\ recon'[p].status # "conflict"
            <4>1. CASE recon'[p] = [recon[p] EXCEPT !.at = @ + 1]
                BY <1>1, <3>1, <4>1 DEF ReconcileState
            <4>2. CASE recon'[p] = [recon[p] EXCEPT !.at = 1, !.pc = "text"]
                BY <1>1, <3>1, <4>2 DEF ReconcileState
            <4>. QED
                BY <3>2, <4>1, <4>2
        <3>. QED
            BY <3>3 DEF OwnIn
    <2>. QED
        BY <1>7, <2>1, <2>2 DEF CheckModel, CheckFound
<1>8. CASE ReadText(p)
    <2>1. recon'[p].pc = "stored" /\ recon'[p].own = recon[p].own
          /\ recon'[p].status = recon[p].status
        BY <1>1, <1>8 DEF ReadText, Becomes, ReconcileState
    <2>. QED
        BY <1>8, <2>1 DEF OwnIn, ReadText
<1>9. CASE ReadStored(p)
    <2>1. PICK found \in BOOLEAN : Becomes(p, Planned(Plan(p, Existing(TypeAt(p), found))))
        BY <1>9 DEF ReadStored
    <2>. DEFINE x == Plan(p, Existing(TypeAt(p), found))
    <2>2. /\ x \in ReconcileState /\ x.at = recon[p].at /\ x.own = 0
          /\ x.since = commits[TypeAt(p)] /\ x.status # "conflict"
        BY <1>1, <1>9, PlanTyped DEF ReconcileState, Plan, ReadStored, OwnIn
    <2>3. recon'[p] = Planned(x) /\ commits'[TypeAt(p)] = commits[TypeAt(p)]
        BY <1>1, <1>9, <2>1 DEF Becomes, ReadStored, side
    <2>. HIDE DEF x
    <2>4. Planned(x) \in {Onward(x), [x EXCEPT !.pc = "prune"], [x EXCEPT !.pc = "ensure"]}
        BY <2>2, PlannedIs
    <2>5. CASE Planned(x) = Onward(x)
        BY <1>5, <2>2, <2>3, <2>5
    <2>6. CASE Planned(x) \in {[x EXCEPT !.pc = "prune"], [x EXCEPT !.pc = "ensure"]}
        <3>1. /\ recon'[p].pc \in {"prune", "ensure"} /\ recon'[p].at = recon[p].at
              /\ recon'[p].own = 0 /\ recon'[p].since = commits[TypeAt(p)]
              /\ recon'[p].status # "conflict"
            BY <2>2, <2>3, <2>6 DEF ReconcileState
        <3>2. TypeAt(p)' = TypeAt(p)
            BY <3>1 DEF TypeAt
        <3>. QED
            BY <1>1, <2>3, <3>1, <3>2 DEF OwnIn
    <2>. QED
        BY <2>4, <2>5, <2>6
<1>10. CASE Prune(p)
    <2>. DEFINE t == TypeAt(p)
                x == [recon[p] EXCEPT !.own = commits'[t] - commits[t],
                                      !.pruned = TRUE, !.orphans = {}]
    <2>1. CASE Ends(p, "failed")
        BY <1>6, <2>1
    <2>2. CASE Becomes(p, AfterPrune(x))
        <3>1. commits'[t] \in Nat /\ commits'[t] >= commits[t]
            BY <1>1, <1>10, RemoveIs DEF Prune, TypeOK
        <3>2. recon[p].own = 0 /\ recon[p].since <= commits[t] /\ recon[p].status # "conflict"
            BY <1>2, <1>10 DEF OwnIn, Prune
        <3>3. x \in ReconcileState
            <4>1. commits'[t] - commits[t] \in Nat
                BY <1>1, <3>1
            <4>. QED
                BY <1>1, <4>1 DEF ReconcileState
        <3>4. /\ x.at = recon[p].at /\ x.own = commits'[t] - commits[t]
              /\ x.since = recon[p].since /\ x.status = recon[p].status
            BY <1>1 DEF ReconcileState
        <3>5. recon'[p] = AfterPrune(x)
            BY <1>1, <2>2 DEF Becomes
        <3>. HIDE DEF x
        <3>6. CASE AfterPrune(x) = Onward(x)
            BY <1>5, <3>3, <3>5, <3>6
        <3>7. CASE AfterPrune(x) = [x EXCEPT !.pc = "ensure"]
            <4>1. /\ recon'[p].pc = "ensure" /\ recon'[p].at = recon[p].at
                  /\ recon'[p].own = commits'[t] - commits[t]
                  /\ recon'[p].since = recon[p].since /\ recon'[p].status # "conflict"
                BY <3>2, <3>3, <3>4, <3>5, <3>7 DEF ReconcileState
            <4>2. TypeAt(p)' = t
                BY <4>1 DEF TypeAt
            <4>3. recon[p].since + (commits'[t] - commits[t]) <= commits'[t]
                BY <1>1, <1>2, <3>1, <3>2
            <4>. QED
                BY <4>1, <4>2, <4>3 DEF OwnIn
        <3>. QED
            BY <3>3, <3>6, <3>7, PlannedIs
    <2>. QED
        BY <1>10, <2>1, <2>2 DEF Prune
<1>11. CASE Ensure(p) \/ ReadSnapshot(p)
    <2>1. PICK found \in BOOLEAN :
             /\ found = created[TypeAt(p)]
             /\ \/ /\ recon[p].pc = "ensure"
                   /\ Becomes(p, [recon[p] EXCEPT !.pc = IF found THEN "embed" ELSE "create"])
                \/ /\ recon[p].pc = "embed"
                   /\ Becomes(p, [recon[p] EXCEPT !.pc = "merge",
                                     !.snap = IF found THEN commits[TypeAt(p)] ELSE 0])
        BY <1>3, <1>11 DEF Ensure, ReadSnapshot, SnapshotId
    <2>2. UNCHANGED <<created, commits>>
        BY <1>11 DEF Ensure, ReadSnapshot, side
    <2>3. /\ recon'[p].at = recon[p].at /\ recon'[p].own = recon[p].own
          /\ recon'[p].since = recon[p].since /\ recon'[p].status = recon[p].status
          /\ \/ found /\ recon'[p].pc = "embed"
             \/ recon'[p].pc = "create"
             \/ /\ recon[p].pc = "embed" /\ recon'[p].pc = "merge"
                /\ found => recon'[p].snap = commits[TypeAt(p)]
        <3>. DEFINE snap == IF found THEN commits[TypeAt(p)] ELSE 0
        <3>1. \/ /\ found
                 /\ recon'[p] = [recon[p] EXCEPT !.pc = "embed"]
              \/ recon'[p] = [recon[p] EXCEPT !.pc = "create"]
              \/ /\ recon[p].pc = "embed"
                 /\ recon'[p] = [recon[p] EXCEPT !.pc = "merge", !.snap = snap]
            BY <1>1, <2>1 DEF Becomes
        <3>2. found => snap = commits[TypeAt(p)]
            OBVIOUS
        <3>. HIDE DEF snap
        <3>. QED
            BY <1>1, <3>1, <3>2 DEF ReconcileState
    <2>4. TypeAt(p)' = TypeAt(p)
        BY <2>3 DEF TypeAt
    <2>5. recon[p].since + recon[p].own <= commits[TypeAt(p)] /\ recon[p].status # "conflict"
          /\ (recon[p].pc = "embed" => created[TypeAt(p)])
        BY <2>1 DEF OwnIn
    <2>. QED
        BY <1>1, <2>1, <2>2, <2>3, <2>4, <2>5 DEF OwnIn
<1>12. CASE CreateSidecar(p)
    <2>1. CASE Ends(p, "failed")
        BY <1>6, <2>1
    <2>2. CASE Becomes(p, [recon[p] EXCEPT !.pc = "embed"])
               /\ created' = [created EXCEPT ![TypeAt(p)] = TRUE]
        <3>1. /\ recon'[p].pc = "embed" /\ recon'[p].at = recon[p].at
              /\ recon'[p].own = recon[p].own /\ recon'[p].since = recon[p].since
              /\ recon'[p].status = recon[p].status /\ created'[TypeAt(p)]
            BY <1>1, <2>2 DEF Becomes, ReconcileState, TypeOK
        <3>2. TypeAt(p)' = TypeAt(p) /\ UNCHANGED commits
            BY <1>12, <3>1 DEF TypeAt, CreateSidecar
        <3>. QED
            BY <1>12, <3>1, <3>2 DEF OwnIn, CreateSidecar
    <2>. QED
        BY <1>12, <2>1, <2>2 DEF CreateSidecar
<1>13. CASE Merge(p)
    <2>1. PICK batch \in Batches(recon[p].pending) :
             /\ Stored(p, batch)
             /\ \/ Becomes(p, IF Merged(p, batch).pending = {}
                              THEN Onward([Merged(p, batch) EXCEPT !.counted = Merged(p, batch).landed])
                              ELSE [Merged(p, batch) EXCEPT !.pc = "embed", !.snap = 0])
                \/ Ends(p, "failed")
        BY <1>13 DEF Merge
    <2>2. commits'[TypeAt(p)] = commits[TypeAt(p)] + 1 /\ UNCHANGED created
        BY <2>1, StoredIs
    <2>. DEFINE x == [Merged(p, batch) EXCEPT !.pc = "embed", !.snap = 0]
                y == [Merged(p, batch) EXCEPT !.counted = Merged(p, batch).landed]
    <2>3. CASE Ends(p, "failed")
        BY <1>6, <2>3
    <2>4. CASE recon'[p] = Onward(y)
        <3>1. Onward(y).pc \in {"text", "done"} /\ Onward(y).own = 0
              /\ Onward(y).status # "conflict"
            BY DEF Onward, Kept, Begun
        <3>. QED
            BY <1>4, <2>4, <3>1
    <2>5. CASE recon'[p] = x
        <3>1. /\ recon'[p].pc = "embed" /\ recon'[p].at = recon[p].at
              /\ recon'[p].own = recon[p].own + 1 /\ recon'[p].since = recon[p].since
              /\ recon'[p].status = recon[p].status
            BY <1>1, <2>5 DEF Merged, ReconcileState
        <3>2. TypeAt(p)' = TypeAt(p)
            BY <3>1 DEF TypeAt
        <3>3. recon[p].since + recon[p].own <= commits[TypeAt(p)] /\ created[TypeAt(p)]
              /\ recon[p].status # "conflict"
            BY <1>13 DEF Merge, OwnIn
        <3>4. recon[p].since + (recon[p].own + 1) <= commits'[TypeAt(p)]
            BY <1>1, <1>2, <2>2, <3>3
        <3>. QED
            BY <2>2, <3>1, <3>2, <3>3, <3>4 DEF OwnIn
    <2>6. recon'[p] = x \/ recon'[p] = Onward(y) \/ Ends(p, "failed")
        BY <1>1, <2>1 DEF Becomes
    <2>. QED
        BY <2>3, <2>4, <2>5, <2>6
<1>14. CASE MergeConflicts(p)
    <2>1. /\ recon[p].pc = "merge" /\ recon[p].snap # commits[TypeAt(p)]
          /\ Ends(p, "conflict") /\ UNCHANGED commits
        BY <1>14 DEF MergeConflicts, side
    <2>2. /\ recon'[p].pc = "done" /\ recon'[p].at = recon[p].at
          /\ recon'[p].since = recon[p].since /\ recon'[p].own = recon[p].own
        BY <1>1, <2>1, EndsIs
    <2>3. recon[p].since + recon[p].own < commits[TypeAt(p)]
        BY <1>1, <1>2, <2>1 DEF OwnIn
    <2>4. TypeAt(p)' = TypeAt(p)
        BY <2>2 DEF TypeAt
    <2>. QED
        BY <2>1, <2>2, <2>3, <2>4 DEF OwnIn
<1>15. CASE CallFails(p)
    BY <1>6, <1>15 DEF CallFails
<1>16. CASE Die(p)
    <2>1. recon'[p].pc = "dead" /\ recon'[p].status = recon[p].status
        BY <1>1, <1>16 DEF Die, Becomes, Forgets, ReconcileState
    <2>. QED
        BY <1>16, <2>1 DEF OwnIn, Die
<1>. QED
    BY <1>7, <1>8, <1>9, <1>10, <1>11, <1>12, <1>13, <1>14, <1>15, <1>16 DEF ReconcileStep

(* A delete action and an edit: the runs, and what they count by, stay. *)
LEMMA OthersKeep ==
    ASSUME TypeOK,
           \/ \E e \in Deletes : ErasureStep(e)
           \/ \E t \in Types, k \in Keys, texts \in SUBSET Cell : Edit(t, k, texts)
           \/ UNCHANGED vars
    PROVE  /\ UNCHANGED recon
           /\ \A u \in Types : commits'[u] >= commits[u] /\ (created[u] => created'[u])
<1>1. commits \in [Types -> Nat] /\ \A e \in Deletes : erasure[e].type \in Types
    BY DEF TypeOK, ErasureState
<1>2. \A e \in Deletes : ErasureStep(e) =>
         Remove(erasure[e].type, {erasure[e].key}) \/ UNCHANGED side
    BY DEF ErasureStep, ReadRow, PruneVector, EraseRow, EraseConflicts
<1>3. UNCHANGED recon
    BY DEF ErasureStep, ReadRow, PruneVector, EraseRow, EraseConflicts, Edit, vars
<1>4. CASE UNCHANGED side
    BY <1>1, <1>3, <1>4 DEF side
<1>5. CASE \E e \in Deletes : Remove(erasure[e].type, {erasure[e].key})
    BY <1>1, <1>3, <1>5, RemoveIs
<1>. QED
    BY <1>2, <1>4, <1>5 DEF Edit, vars, side

(* NeverRefusesItself for every instance: while the existence probe answers         *)
(* truthfully, a run ends in conflict only if somebody else has committed to the    *)
(* sidecar since the run read it.                                                   *)
THEOREM OwnCommitsNeverConflict ==
    ASSUME ~ FlakyProbe
    PROVE  Spec => []NeverRefusesItself
<1>. DEFINE OwnInv == TypeOK /\ \A p \in Reconciles : OwnIn(p)
<1>1. Init => OwnInv
    <2>. SUFFICES ASSUME Init PROVE OwnInv
        OBVIOUS
    <2>1. \A p \in Reconciles :
             recon[p].pc = "idle" /\ recon[p].own = 0 /\ recon[p].status = "none"
        BY DEF Init, Begun
    <2>. QED
        BY <2>1, InitTyped DEF OwnIn
<1>2. OwnInv /\ [Next]_vars => OwnInv'
    <2>. SUFFICES ASSUME OwnInv, [Next]_vars, NEW p \in Reconciles PROVE OwnIn(p)'
        BY NextTyped
    <2>1. TypeOK /\ TypeOK' /\ OwnIn(p) /\ recon \in [Reconciles -> ReconcileState]
          /\ commits \in [Types -> Nat]
        BY NextTyped DEF TypeOK
    <2>2. ASSUME NEW q \in Reconciles, NEW option \in Options, NEW dry \in BOOLEAN,
                 Start(q, option, dry)
          PROVE  OwnIn(p)'
        <3>1. recon' = [recon EXCEPT ![q] = Begun(option, dry)] /\ UNCHANGED <<commits, created>>
            BY <2>2 DEF Start, Becomes, side
        <3>2. CASE q = p
            <4>1. recon'[p].pc = "check" /\ recon'[p].own = 0 /\ recon'[p].status = "none"
                BY <2>1, <3>1, <3>2 DEF Begun
            <4>. QED
                BY <4>1 DEF OwnIn
        <3>3. CASE q # p
            <4>1. recon'[p] = recon[p]
                BY <2>1, <3>1, <3>3
            <4>2. \A u \in Types : commits'[u] >= commits[u] /\ (created[u] => created'[u])
                BY <2>1, <3>1
            <4>. QED
                BY <2>1, <4>1, <4>2, OwnKept
        <3>. QED
            BY <3>2, <3>3
    <2>3. ASSUME NEW q \in Reconciles, ReconcileStep(q)
          PROVE  OwnIn(p)'
        <3>1. CASE q = p
            BY <2>1, <2>3, <3>1, OwnStep
        <3>2. CASE q # p
            <4>1. recon'[p] = recon[p]
                BY <2>1, <2>3, <3>2, ReconcileReads
            <4>2. \A u \in Types : commits'[u] >= commits[u] /\ (created[u] => created'[u])
                BY <2>1, <2>3, ReconcileWrites, CreatedStays
            <4>. QED
                BY <2>1, <4>1, <4>2, OwnKept
        <3>. QED
            BY <3>1, <3>2
    <2>4. CASE \/ \E e \in Deletes : ErasureStep(e)
               \/ \E t \in Types, k \in Keys, texts \in SUBSET Cell : Edit(t, k, texts)
               \/ UNCHANGED vars
        BY <2>1, <2>4, OthersKeep, OwnKept
    <2>. QED
        BY <2>1, <2>2, <2>3, <2>4 DEF Next
<1>3. OwnInv => NeverRefusesItself
    <2>. SUFFICES ASSUME TypeOK, NEW p \in Reconciles, OwnIn(p), recon[p].status = "conflict"
                  PROVE  commits[TypeAt(p)] > recon[p].since + recon[p].own
        BY DEF NeverRefusesItself
    <2>1. commits[TypeAt(p)] \in Nat /\ recon[p].since \in Nat /\ recon[p].own \in Nat
        BY TypeAtTyped DEF TypeOK, ReconcileState
    <2>. QED
        BY <2>1 DEF OwnIn
<1>. QED
    BY <1>1, <1>2, <1>3, PTL DEF Spec

-----------------------------------------------------------------------------
(* Refusals. All models are checked before anything is written. *)

HonestIn(p) ==
    LET s == recon[p]
    IN  /\ s.pc = "check" \/ s.status = "model_changed" => s.landed = 0 /\ ~ s.pruned
        /\ s.status = "model_changed" => s.pc = "done"

(* Only CheckModel goes on checking or refuses a model; it does not write. *)
LEMMA HonestStep ==
    ASSUME TypeOK, TypeOK', NEW p \in Reconciles, HonestIn(p), ReconcileStep(p)
    PROVE  HonestIn(p)'
<1>1. recon \in [Reconciles -> ReconcileState] /\ recon[p] \in ReconcileState
    BY DEF TypeOK
<1>2. ASSUME recon'[p].pc # "check", recon'[p].status # "model_changed" PROVE HonestIn(p)'
    BY <1>2 DEF HonestIn
<1>3. ASSUME NEW status, status # "model_changed", Ends(p, status) PROVE HonestIn(p)'
    BY <1>1, <1>2, <1>3, EndsIs
<1>4. ASSUME NEW s, recon'[p] = Onward(s) PROVE HonestIn(p)'
    BY <1>2, <1>4 DEF Onward, Kept, Begun
<1>5. CASE CheckModel(p)
    <2>1. recon[p].pc = "check" /\ recon[p].landed = 0 /\ ~ recon[p].pruned
          /\ recon[p].status # "model_changed"
        BY <1>5 DEF CheckModel, CheckFound, HonestIn
    <2>2. CASE Ends(p, "model_changed")
        BY <1>1, <2>1, <2>2, EndsIs DEF HonestIn
    <2>3. CASE Becomes(p, [recon[p] EXCEPT !.at = @ + 1])
        <3>1. recon'[p] = [recon[p] EXCEPT !.at = @ + 1]
            BY <1>1, <2>3 DEF Becomes
        <3>. QED
            BY <1>1, <2>1, <3>1 DEF HonestIn, ReconcileState
    <2>4. CASE Becomes(p, [recon[p] EXCEPT !.at = 1, !.pc = "text"])
        <3>1. recon'[p] = [recon[p] EXCEPT !.at = 1, !.pc = "text"]
            BY <1>1, <2>4 DEF Becomes
        <3>. QED
            BY <1>1, <2>1, <3>1 DEF HonestIn, ReconcileState
    <2>. QED
        BY <1>5, <2>2, <2>3, <2>4 DEF CheckModel, CheckFound
<1>6. CASE ReadStored(p)
    <2>1. PICK found \in BOOLEAN : Becomes(p, Planned(Plan(p, Existing(TypeAt(p), found))))
        BY <1>6 DEF ReadStored
    <2>. DEFINE x == Plan(p, Existing(TypeAt(p), found))
    <2>2. x \in ReconcileState /\ x.status = recon[p].status
        BY <1>1, PlanTyped DEF ReconcileState, Plan
    <2>3. recon'[p] = Planned(x) /\ recon[p].pc = "stored"
        BY <1>1, <1>6, <2>1 DEF Becomes, ReadStored
    <2>. HIDE DEF x
    <2>4. Planned(x) \in {Onward(x), [x EXCEPT !.pc = "prune"], [x EXCEPT !.pc = "ensure"]}
        BY <2>2, PlannedIs
    <2>5. CASE Planned(x) \in {[x EXCEPT !.pc = "prune"], [x EXCEPT !.pc = "ensure"]}
        <3>1. recon'[p].pc # "check" /\ recon'[p].status = recon[p].status
            BY <2>2, <2>3, <2>5 DEF ReconcileState
        <3>. QED
            BY <2>3, <3>1, <1>2 DEF HonestIn
    <2>. QED
        BY <1>4, <2>3, <2>4, <2>5
<1>7. CASE Prune(p)
    <2>. DEFINE x == [recon[p] EXCEPT !.own = commits'[TypeAt(p)] - commits[TypeAt(p)],
                                      !.pruned = TRUE, !.orphans = {}]
    <2>1. recon[p].pc = "prune" /\ (Ends(p, "failed") \/ Becomes(p, AfterPrune(x)))
        BY <1>7 DEF Prune
    <2>2. CASE Becomes(p, AfterPrune(x))
        <3>1. recon'[p] = AfterPrune(x) /\ x.status = recon[p].status
            BY <1>1, <2>2 DEF Becomes, ReconcileState
        <3>2. AfterPrune(x) = [x EXCEPT !.pc = "ensure"] =>
                 recon'[p].pc = "ensure" /\ recon'[p].status = recon[p].status
            BY <1>1, <3>1 DEF ReconcileState
        <3>. HIDE DEF x
        <3>. QED
            BY <1>2, <1>4, <2>1, <3>1, <3>2 DEF AfterPrune, HonestIn
    <2>. QED
        BY <1>3, <2>1, <2>2
<1>8. CASE Merge(p)
    <2>1. PICK batch \in Batches(recon[p].pending) :
             \/ Becomes(p, IF Merged(p, batch).pending = {}
                           THEN Onward([Merged(p, batch) EXCEPT !.counted = Merged(p, batch).landed])
                           ELSE [Merged(p, batch) EXCEPT !.pc = "embed", !.snap = 0])
             \/ Ends(p, "failed")
        BY <1>8 DEF Merge
    <2>. DEFINE x == [Merged(p, batch) EXCEPT !.pc = "embed", !.snap = 0]
                y == [Merged(p, batch) EXCEPT !.counted = Merged(p, batch).landed]
    <2>2. x.pc = "embed" /\ x.status = recon[p].status /\ recon[p].status # "model_changed"
        BY <1>1, <1>8 DEF Merged, ReconcileState, Merge, HonestIn
    <2>3. recon'[p] = x \/ recon'[p] = Onward(y) \/ Ends(p, "failed")
        BY <1>1, <2>1 DEF Becomes
    <2>. HIDE DEF x, y
    <2>. QED
        BY <1>2, <1>3, <1>4, <2>2, <2>3
<1>9. CASE ReadText(p) \/ Ensure(p) \/ ReadSnapshot(p) \/ CreateSidecar(p)
    <2>1. recon[p].pc \in {"text", "ensure", "embed", "create"}
        BY <1>9 DEF ReadText, Ensure, ReadSnapshot, CreateSidecar
    <2>2. CASE Ends(p, "failed")
        BY <1>3, <2>2
    <2>3. CASE ~ Ends(p, "failed")
        <3>1. recon'[p].pc # "check" /\ recon'[p].status = recon[p].status
            <4>1. CASE ReadText(p)
                BY <1>1, <4>1 DEF ReadText, Becomes, ReconcileState
            <4>2. CASE Ensure(p)
                <5>1. PICK found \in BOOLEAN :
                         recon'[p] = [recon[p] EXCEPT !.pc = IF found THEN "embed" ELSE "create"]
                    BY <1>1, <4>2 DEF Ensure, Becomes
                <5>. QED
                    BY <1>1, <5>1 DEF ReconcileState
            <4>3. CASE ReadSnapshot(p)
                <5>1. PICK snap : recon'[p] = [recon[p] EXCEPT !.pc = "merge", !.snap = snap]
                    BY <1>1, <4>3 DEF ReadSnapshot, Becomes
                <5>. QED
                    BY <1>1, <5>1 DEF ReconcileState
            <4>4. CASE CreateSidecar(p)
                BY <1>1, <2>3, <4>4 DEF CreateSidecar, Becomes, ReconcileState
            <4>. QED
                BY <1>9, <4>1, <4>2, <4>3, <4>4
        <3>. QED
            BY <1>2, <2>1, <3>1 DEF HonestIn
    <2>. QED
        BY <2>2, <2>3
<1>10. CASE MergeConflicts(p) \/ CallFails(p)
    BY <1>3, <1>10 DEF MergeConflicts, CallFails
<1>11. CASE Die(p)
    <2>1. recon'[p].pc = "dead" /\ recon'[p].status = recon[p].status
        BY <1>1, <1>11 DEF Die, Becomes, Forgets, ReconcileState
    <2>. QED
        BY <1>2, <1>11, <2>1 DEF HonestIn, Die
<1>. QED
    BY <1>5, <1>6, <1>7, <1>8, <1>9, <1>10, <1>11 DEF ReconcileStep

(* ModelRefusalWroteNothing for every instance: a run that ends refused because the *)
(* model changed has merged and pruned nothing, whatever the probe answered.        *)
THEOREM RefusalIsHonest == Spec => []ModelRefusalWroteNothing
<1>. DEFINE HonestInv == TypeOK /\ \A p \in Reconciles : HonestIn(p)
<1>1. Init => HonestInv
    <2>. SUFFICES ASSUME Init PROVE HonestInv
        OBVIOUS
    <2>1. \A p \in Reconciles : recon[p].pc = "idle" /\ recon[p].status = "none"
        BY DEF Init, Begun
    <2>. QED
        BY <2>1, InitTyped DEF HonestIn
<1>2. HonestInv /\ [Next]_vars => HonestInv'
    <2>. SUFFICES ASSUME HonestInv, [Next]_vars, NEW p \in Reconciles PROVE HonestIn(p)'
        BY NextTyped
    <2>1. TypeOK /\ TypeOK' /\ HonestIn(p) /\ recon \in [Reconciles -> ReconcileState]
        BY NextTyped DEF TypeOK
    <2>2. ASSUME recon'[p] = recon[p] PROVE HonestIn(p)'
        BY <2>1, <2>2 DEF HonestIn
    <2>3. ASSUME NEW q \in Reconciles, NEW option \in Options, NEW dry \in BOOLEAN,
                 Start(q, option, dry)
          PROVE  HonestIn(p)'
        <3>1. recon' = [recon EXCEPT ![q] = Begun(option, dry)]
            BY <2>3 DEF Start, Becomes
        <3>2. CASE q = p
            BY <2>1, <3>1, <3>2 DEF Begun, HonestIn
        <3>. QED
            BY <2>1, <2>2, <3>1, <3>2
    <2>4. ASSUME NEW q \in Reconciles, ReconcileStep(q)
          PROVE  HonestIn(p)'
        <3>1. CASE q = p
            BY <2>1, <2>4, <3>1, HonestStep
        <3>2. CASE q # p
            BY <2>1, <2>2, <2>4, <3>2, ReconcileReads
        <3>. QED
            BY <3>1, <3>2
    <2>5. CASE \/ \E e \in Deletes : ErasureStep(e)
               \/ \E t \in Types, k \in Keys, texts \in SUBSET Cell : Edit(t, k, texts)
               \/ UNCHANGED vars
        BY <2>1, <2>2, <2>5, OthersKeep
    <2>. QED
        BY <2>1, <2>3, <2>4, <2>5 DEF Next
<1>3. HonestInv => ModelRefusalWroteNothing
    BY DEF HonestIn, ModelRefusalWroteNothing
<1>. QED
    BY <1>1, <1>2, <1>3, PTL DEF Spec
-----------------------------------------------------------------------------
(* Models. What a run has seen of a sidecar at its check and is still there has the *)
(* model it writes: vectors come with a commit number that nobody has seen yet.      *)

Writing == {"text"} \cup Reading

Heeded(p, t) == \A v \in sidecar[t] : v.commit <= checked[p][t] => v.model = recon[p].option.model

HeededIn(p) ==
    ~ recon[p].option.remodel =>
        /\ recon[p].pc = "check" => \A i \in DOMAIN Targets : i < recon[p].at => Heeded(p, Targets[i])
        /\ recon[p].pc \in Writing => \A t \in Types : Heeded(p, t)

CheckedInv ==
    /\ TypeOK
    /\ checked \in [Reconciles -> [Types -> Nat]]
    /\ \A p \in Reconciles, t \in Types : checked[p][t] <= commits[t]
    /\ \A t \in Types : \A v \in sidecar[t] : v.commit > 0
    /\ \A p \in Reconciles : HeededIn(p)

LEMMA OnwardOption == ASSUME NEW s PROVE Onward(s).option = s.option
BY DEF Onward, Kept, Begun

(* Only a merge adds vectors, of the model of its run. *)
LEMMA ModelWrites ==
    ASSUME TypeOK, NEW p \in Reconciles, ReconcileStep(p)
    PROVE  /\ \A u \in Types : \A v \in sidecar'[u] :
                 \/ v \in sidecar[u]
                 \/ /\ u = TypeAt(p) /\ recon[p].pc = "merge"
                    /\ v.model = recon[p].option.model
<1>1. TypeAt(p) \in Types
    BY TypeAtTyped
<1>2. CASE Prune(p)
    BY <1>1, <1>2, RemoveIs DEF Prune
<1>3. CASE Merge(p)
    <2>1. PICK batch : Stored(p, batch) /\ recon[p].pc = "merge"
        BY <1>3 DEF Merge
    <2>2. sidecar \in [Types -> SUBSET Vector]
        BY DEF TypeOK
    <2>. QED
        BY <1>1, <2>1, <2>2 DEF Stored
<1>4. CASE ~ Prune(p) /\ ~ Merge(p)
    <2>1. UNCHANGED sidecar
        BY <1>4 DEF ReconcileStep, CheckModel, CheckFound, ReadText, ReadStored, Ensure, CreateSidecar,
                    ReadSnapshot, MergeConflicts, CallFails, Die, side
    <2>. QED
        BY <2>1
<1>. QED
    BY <1>2, <1>3, <1>4

(* A step that goes on writing was writing, for the same model. *)
LEMMA GoesOnWriting ==
    ASSUME TypeOK, NEW p \in Reconciles, ReconcileStep(p), ~ CheckModel(p)
    PROVE  \/ recon'[p].pc \in {"done", "dead"}
           \/ /\ recon[p].pc \in Writing /\ recon'[p].pc \in Writing
              /\ recon'[p].option = recon[p].option
<1>. DEFINE Goal ==
        \/ recon'[p].pc \in {"done", "dead"}
        \/ /\ recon[p].pc \in Writing /\ recon'[p].pc \in Writing
           /\ recon'[p].option = recon[p].option
<1>1. recon \in [Reconciles -> ReconcileState] /\ recon[p] \in ReconcileState
      /\ TypeAt(p) \in Types /\ created \in [Types -> BOOLEAN]
    BY TypeAtTyped DEF TypeOK
<1>3. ASSUME NEW status, Ends(p, status) PROVE Goal
    BY <1>1, <1>3, EndsIs
<1>4. ASSUME NEW s \in ReconcileState, recon[p].pc \in Writing, s.option = recon[p].option,
             recon'[p] \in {Onward(s), [s EXCEPT !.pc = "prune"], [s EXCEPT !.pc = "ensure"]}
      PROVE  Goal
    <2>1. CASE recon'[p] = Onward(s)
        BY <1>4, <2>1, OnwardIs, OnwardOption DEF Writing
    <2>2. CASE recon'[p] \in {[s EXCEPT !.pc = "prune"], [s EXCEPT !.pc = "ensure"]}
        <3>1. recon'[p].pc \in {"prune", "ensure"} /\ recon'[p].option = s.option
            BY <2>2 DEF ReconcileState
        <3>. QED
            BY <1>4, <3>1 DEF Writing, Reading
    <2>. QED
        BY <1>4, <2>1, <2>2
<1>5. CASE ReadText(p)
    <2>1. recon[p].pc = "text" /\ recon'[p].pc = "stored" /\ recon'[p].option = recon[p].option
        BY <1>1, <1>5 DEF ReadText, Becomes, ReconcileState
    <2>. QED
        BY <2>1 DEF Writing, Reading
<1>6. CASE ReadStored(p)
    <2>1. PICK found \in BOOLEAN : Becomes(p, Planned(Plan(p, Existing(TypeAt(p), found))))
        BY <1>6 DEF ReadStored
    <2>. DEFINE x == Plan(p, Existing(TypeAt(p), found))
    <2>2. x \in ReconcileState /\ x.option = recon[p].option
        BY <1>1, PlanTyped DEF ReconcileState, Plan
    <2>3. recon'[p] = Planned(x) /\ recon[p].pc \in Writing
        BY <1>1, <1>6, <2>1 DEF Becomes, ReadStored, Writing, Reading
    <2>. HIDE DEF x
    <2>4. recon'[p] \in {Onward(x), [x EXCEPT !.pc = "prune"], [x EXCEPT !.pc = "ensure"]}
        BY <2>2, <2>3, PlannedIs
    <2>. QED
        BY <1>4, <2>2, <2>3, <2>4
<1>7. CASE Prune(p)
    <2>. DEFINE x == [recon[p] EXCEPT !.own = commits'[TypeAt(p)] - commits[TypeAt(p)],
                                      !.pruned = TRUE, !.orphans = {}]
    <2>1. recon[p].pc \in Writing /\ (Ends(p, "failed") \/ Becomes(p, AfterPrune(x)))
        BY <1>7 DEF Prune, Writing, Reading
    <2>2. CASE Becomes(p, AfterPrune(x))
        <3>1. recon'[p] = AfterPrune(x)
            BY <1>1, <2>2 DEF Becomes
        <3>2. x \in ReconcileState /\ x.option = recon[p].option
            <4>1. commits'[TypeAt(p)] - commits[TypeAt(p)] \in Nat
                BY <1>1, <1>7 DEF Prune, Remove, TypeOK
            <4>. QED
                BY <1>1, <4>1 DEF ReconcileState
        <3>. HIDE DEF x
        <3>. QED
            BY <1>4, <2>1, <3>1, <3>2, PlannedIs
    <2>. QED
        BY <1>3, <2>1, <2>2
<1>8. CASE Ensure(p)
    <2>1. PICK found \in BOOLEAN :
             recon'[p] = [recon[p] EXCEPT !.pc = IF found THEN "embed" ELSE "create"]
        BY <1>1, <1>8 DEF Ensure, Becomes
    <2>2. recon'[p].pc \in {"embed", "create"} /\ recon'[p].option = recon[p].option
        BY <1>1, <2>1 DEF ReconcileState
    <2>. QED
        BY <1>8, <2>2 DEF Ensure, Writing, Reading
<1>9. CASE CreateSidecar(p)
    <2>1. CASE Ends(p, "failed")
        BY <1>3, <2>1
    <2>2. CASE ~ Ends(p, "failed")
        <3>1. recon[p].pc = "create" /\ recon'[p] = [recon[p] EXCEPT !.pc = "embed"]
            BY <1>1, <1>9, <2>2 DEF CreateSidecar, Becomes
        <3>2. recon'[p].pc = "embed" /\ recon'[p].option = recon[p].option
            BY <1>1, <3>1 DEF ReconcileState
        <3>. QED
            BY <3>1, <3>2 DEF Writing, Reading
    <2>. QED
        BY <2>1, <2>2
<1>10. CASE ReadSnapshot(p)
    <2>1. PICK snap : recon'[p] = [recon[p] EXCEPT !.pc = "merge", !.snap = snap]
        BY <1>1, <1>10 DEF ReadSnapshot, Becomes
    <2>2. recon'[p].pc = "merge" /\ recon'[p].option = recon[p].option /\ recon[p].pc = "embed"
        BY <1>1, <1>10, <2>1 DEF ReconcileState, ReadSnapshot
    <2>. QED
        BY <2>2 DEF Writing, Reading
<1>11. CASE Merge(p)
    <2>1. PICK batch \in Batches(recon[p].pending) :
             \/ Becomes(p, IF Merged(p, batch).pending = {}
                           THEN Onward([Merged(p, batch) EXCEPT !.counted = Merged(p, batch).landed])
                           ELSE [Merged(p, batch) EXCEPT !.pc = "embed", !.snap = 0])
             \/ Ends(p, "failed")
        BY <1>11 DEF Merge
    <2>. DEFINE x == [Merged(p, batch) EXCEPT !.pc = "embed", !.snap = 0]
                y == [Merged(p, batch) EXCEPT !.counted = Merged(p, batch).landed]
    <2>2. /\ x.pc = "embed" /\ x.option = recon[p].option
          /\ y.option = recon[p].option /\ recon[p].pc = "merge"
        BY <1>1, <1>11 DEF Merged, ReconcileState, Merge
    <2>3. recon'[p] = x \/ recon'[p] = Onward(y) \/ Ends(p, "failed")
        BY <1>1, <2>1 DEF Becomes
    <2>4. Onward(y).pc \in {"text", "done"}
        BY DEF Onward, Kept, Begun
    <2>5. Onward(y).option = y.option
        BY OnwardOption
    <2>. HIDE DEF x, y
    <2>. QED
        BY <1>3, <2>2, <2>3, <2>4, <2>5 DEF Writing, Reading
<1>12. CASE MergeConflicts(p) \/ CallFails(p)
    BY <1>3, <1>12 DEF MergeConflicts, CallFails
<1>13. CASE Die(p)
    BY <1>1, <1>13 DEF Die, Becomes, Forgets, ReconcileState
<1>. QED
    BY <1>5, <1>6, <1>7, <1>8, <1>9, <1>10, <1>11, <1>12, <1>13 DEF ReconcileStep

(* Whatever is done to the sidecars, what a run has seen of them grows no more.       *)
LEMMA SidecarsGrowUnseen ==
    ASSUME TypeOK, [Next]_vars
    PROVE  \A u \in Types :
              /\ commits'[u] >= commits[u]
              /\ \A v \in sidecar'[u] : v \in sidecar[u] \/ v.commit = commits[u] + 1
<1>1. commits \in [Types -> Nat] /\ \A e \in Deletes : erasure[e].type \in Types
    BY DEF TypeOK, ErasureState
<1>2. ASSUME NEW p \in Reconciles, ReconcileStep(p)
      PROVE  \A u \in Types :
                /\ commits'[u] >= commits[u]
                /\ \A v \in sidecar'[u] : v \in sidecar[u] \/ v.commit = commits[u] + 1
    BY <1>2, ReconcileWrites
<1>3. CASE UNCHANGED side
    BY <1>1, <1>3 DEF side
<1>4. ASSUME NEW e \in Deletes, Remove(erasure[e].type, {erasure[e].key})
      PROVE  \A u \in Types : sidecar'[u] \subseteq sidecar[u] /\ commits'[u] >= commits[u]
    BY <1>1, <1>4, RemoveIs
<1>5. \A e \in Deletes : ErasureStep(e) =>
         Remove(erasure[e].type, {erasure[e].key}) \/ UNCHANGED side
    BY DEF ErasureStep, ReadRow, PruneVector, EraseRow, EraseConflicts
<1>6. CASE \E e \in Deletes : ErasureStep(e)
    BY <1>3, <1>4, <1>5, <1>6
<1>7. \/ UNCHANGED side
      \/ \E p \in Reconciles : ReconcileStep(p)
      \/ \E e \in Deletes : ErasureStep(e)
    BY DEF Next, Start, Edit, vars, side
<1>. QED
    BY <1>2, <1>3, <1>6, <1>7

(* What a run has heeded stays heeded while it is the same run with the same check. *)
LEMMA HeededStays ==
    ASSUME CheckedInv, [Next]_vars, NEW p \in Reconciles, NEW t \in Types, Heeded(p, t),
           recon'[p].option = recon[p].option, checked'[p][t] = checked[p][t]
    PROVE  Heeded(p, t)'
<1>1. /\ checked[p][t] \in Nat /\ commits[t] \in Nat /\ checked[p][t] <= commits[t]
      /\ \A v \in sidecar'[t] : v \in sidecar[t] \/ v.commit = commits[t] + 1
    BY SidecarsGrowUnseen DEF CheckedInv, TypeOK
<1>. SUFFICES ASSUME NEW v \in sidecar'[t], v.commit <= checked[p][t]
              PROVE  v.model = recon[p].option.model
    BY DEF Heeded
<1>2. v \in sidecar[t]
    BY <1>1
<1>. QED
    BY <1>2 DEF Heeded

(* A run that does not step keeps what it has heeded, whoever does. *)
LEMMA OthersHeed ==
    ASSUME CheckedInv, [Next]_vars, NEW p \in Reconciles, recon'[p] = recon[p],
           checked'[p] = checked[p]
    PROVE  HeededIn(p)'
<1>1. \A t \in Types : Heeded(p, t) => Heeded(p, t)'
    BY HeededStays
<1>2. \A i \in DOMAIN Targets : Targets[i] \in Types
    BY DEF Types
<1>. QED
    BY <1>1, <1>2 DEF CheckedInv, HeededIn

(* The check of a type: what the run is shown of it, and is not refused for, has its  *)
(* model; what the probe hides, it has not seen.                                     *)
LEMMA PassesHeeds ==
    ASSUME CheckedInv, TypeOK', NEW p \in Reconciles, NEW found \in BOOLEAN, Passes(p, found)
    PROVE  CheckedInv'
<1>. SUFFICES ASSUME NEW s, NEW t, s = recon[p], t = TypeAt(p) PROVE CheckedInv'
    OBVIOUS
<1>1. /\ recon \in [Reconciles -> ReconcileState] /\ s \in ReconcileState /\ t \in Types
      /\ sidecar \in [Types -> SUBSET Vector] /\ commits \in [Types -> Nat]
      /\ checked \in [Reconciles -> [Types -> Nat]] /\ s.pc = "check"
      /\ UNCHANGED <<sidecar, commits>> /\ t = Targets[s.at]
    BY TypeAtTyped DEF CheckedInv, TypeOK, Passes, CheckFound, side, TypeAt
<1>2. /\ DOMAIN Targets = 1..Len(Targets) /\ Len(Targets) \in Nat /\ s.at \in 1..Len(Targets)
      /\ \A i \in DOMAIN Targets : Targets[i] \in Types
      /\ \A u \in Types : \E i \in DOMAIN Targets : u = Targets[i]
      /\ \A i \in DOMAIN Targets : Targets[i] = t => i = s.at
    BY <1>1, EmbedAssumption DEF Types, ReconcileState
<1>3. /\ checked' = [checked EXCEPT ![p][t] = SnapshotId(t, found)]
      /\ SnapshotId(t, found) \in Nat /\ SnapshotId(t, found) <= commits[t]
    BY <1>1 DEF Passes, SnapshotId
<1>4. /\ ~ Refuses(s.option, s.dry, Existing(t, found))
      /\ \/ s.at < Len(Targets) /\ recon' = [recon EXCEPT ![p] = [s EXCEPT !.at = @ + 1]]
         \/ s.at = Len(Targets) /\ recon' = [recon EXCEPT ![p] = [s EXCEPT !.at = 1, !.pc = "text"]]
    <2>1. ~ Ends(p, "model_changed")
        BY <1>1, EndsIs DEF Passes
    <2>. QED
        BY <2>1 DEF Passes, CheckFound, Becomes
<1>5. \/ recon'[p].pc = "check" /\ recon'[p].at = s.at + 1 /\ recon'[p].option = s.option
      \/ recon'[p].pc = "text" /\ s.at = Len(Targets) /\ recon'[p].option = s.option
    <2>1. CASE recon' = [recon EXCEPT ![p] = [s EXCEPT !.at = @ + 1]]
        BY <1>1, <2>1 DEF ReconcileState
    <2>2. CASE s.at = Len(Targets) /\ recon' = [recon EXCEPT ![p] = [s EXCEPT !.at = 1, !.pc = "text"]]
        BY <1>1, <2>2 DEF ReconcileState
    <2>. QED
        BY <1>4, <2>1, <2>2
<1>6. /\ checked' \in [Reconciles -> [Types -> Nat]] /\ checked'[p][t] = SnapshotId(t, found)
      /\ \A u \in Types : u # t => checked'[p][u] = checked[p][u]
      /\ \A q \in Reconciles : q # p => checked'[q] = checked[q]
    BY <1>1, <1>3
<1>7. \A q \in Reconciles, u \in Types : checked'[q][u] <= commits'[u]
    BY <1>1, <1>3, <1>6 DEF CheckedInv
<1>7a. recon'[p].option = s.option /\ sidecar' = sidecar
    BY <1>1, <1>5
<1>8. ~ s.option.remodel => Heeded(p, t)'
    <2>. SUFFICES ASSUME ~ s.option.remodel, NEW v \in sidecar[t], v.commit <= checked'[p][t]
                  PROVE  v.model = s.option.model
        BY <1>7a DEF Heeded
    <2>1. CASE found
        BY <1>4, <2>1 DEF Refuses, Existing
    <2>2. CASE ~ found
        <3>1. v.commit \in Nat /\ v.commit <= 0
            BY <1>1, <1>6, <2>2 DEF SnapshotId, Vector
        <3>2. v.commit > 0
            BY <1>1 DEF CheckedInv
        <3>. QED
            BY <3>1, <3>2
    <2>. QED
        BY <2>1, <2>2
<1>9. ~ s.option.remodel => \A i \in DOMAIN Targets : i <= s.at => Heeded(p, Targets[i])'
    <2>. SUFFICES ASSUME ~ s.option.remodel, NEW i \in DOMAIN Targets, i <= s.at
                  PROVE  Heeded(p, Targets[i])'
        OBVIOUS
    <2>1. CASE i = s.at
        BY <1>1, <1>8, <2>1
    <2>2. CASE i < s.at
        <3>1. Heeded(p, Targets[i]) /\ Targets[i] \in Types /\ Targets[i] # t
            BY <1>1, <1>2, <2>2 DEF CheckedInv, HeededIn
        <3>2. checked'[p][Targets[i]] = checked[p][Targets[i]]
            BY <1>6, <3>1
        <3>. QED
            BY <1>7a, <3>1, <3>2 DEF Heeded
    <2>. QED
        BY <1>2, <2>1, <2>2
<1>10. HeededIn(p)'
    <2>1. CASE recon'[p].pc = "check"
        <3>1. \A i \in DOMAIN Targets : i < s.at + 1 => i <= s.at
            BY <1>2
        <3>. QED
            BY <1>5, <1>9, <2>1, <3>1 DEF HeededIn, Writing, Reading
    <2>2. CASE recon'[p].pc = "text" /\ s.at = Len(Targets)
        BY <1>2, <1>5, <1>9, <2>2 DEF HeededIn
    <2>. QED
        BY <1>5, <2>1, <2>2
<1>11. \A q \in Reconciles : q # p => HeededIn(q)'
    <2>1. Next
        BY DEF Passes, CheckModel, ReconcileStep, Next
    <2>. QED
        BY <1>1, <1>4, <1>6, <2>1, OthersHeed
<1>12. \A u \in Types : \A v \in sidecar'[u] : v.commit > 0
    BY <1>1 DEF CheckedInv
<1>. QED
    BY <1>6, <1>7, <1>10, <1>11, <1>12 DEF CheckedInv


(* A step of no check: whoever goes on has checked before, or starts over.            *)
LEMMA OthersPass ==
    ASSUME CheckedInv, [Next]_vars, NobodyPasses, UNCHANGED checked
    PROVE  CheckedInv'
<1>1. /\ TypeOK /\ recon \in [Reconciles -> ReconcileState]
      /\ checked \in [Reconciles -> [Types -> Nat]] /\ commits \in [Types -> Nat]
    BY DEF CheckedInv, TypeOK
<1>2. TypeOK'
    BY <1>1, NextTyped
<1>3. \A u \in Types :
         /\ commits'[u] \in Nat /\ commits'[u] >= commits[u]
         /\ \A v \in sidecar'[u] : v \in sidecar[u] \/ v.commit = commits[u] + 1
    BY <1>1, <1>2, SidecarsGrowUnseen DEF TypeOK
<1>4. \A p \in Reconciles, t \in Types : checked'[p][t] <= commits'[t]
    BY <1>1, <1>3 DEF CheckedInv
<1>5. \A t \in Types : \A v \in sidecar'[t] : v.commit > 0
    BY <1>1, <1>3 DEF CheckedInv
<1>6. ASSUME NEW p \in Reconciles PROVE HeededIn(p)'
    <2>1. ASSUME recon'[p] = recon[p] PROVE HeededIn(p)'
        BY <2>1, OthersHeed
    <2>2. CASE recon'[p].pc \in {"done", "dead"}
        BY <2>2 DEF HeededIn, Writing, Reading
    <2>3. ASSUME NEW q \in Reconciles, NEW option \in Options, NEW dry \in BOOLEAN,
                 Start(q, option, dry)
          PROVE  HeededIn(p)'
        <3>1. recon' = [recon EXCEPT ![q] = Begun(option, dry)]
            BY <2>3 DEF Start, Becomes
        <3>2. CASE q = p
            <4>1. recon'[p].pc = "check" /\ recon'[p].at = 1
                BY <1>1, <3>1, <3>2 DEF Begun
            <4>2. \A i \in DOMAIN Targets : ~ (i < 1)
                BY EmbedAssumption
            <4>. QED
                BY <4>1, <4>2 DEF HeededIn, Writing, Reading
        <3>. QED
            BY <1>1, <2>1, <3>1, <3>2
    <2>4. ASSUME NEW q \in Reconciles, ReconcileStep(q) PROVE HeededIn(p)'
        <3>1. CASE q # p
            BY <1>1, <2>1, <2>4, <3>1, ReconcileReads
        <3>2. CASE q = p /\ CheckModel(p)
            <4>1. recon[p].pc = "check"
                BY <3>2 DEF CheckModel, CheckFound
            <4>. QED
                BY <2>1, <2>2, <4>1 DEF NobodyPasses
        <3>3. CASE q = p /\ ~ CheckModel(p)
            <4>1. CASE /\ recon[p].pc \in Writing /\ recon'[p].pc \in Writing
                       /\ recon'[p].option = recon[p].option
                <5>1. recon'[p].pc # "check"
                    BY <4>1 DEF Writing, Reading
                <5>2. \A t \in Types : Heeded(p, t) => Heeded(p, t)'
                    BY <4>1, HeededStays
                <5>. QED
                    BY <4>1, <5>1, <5>2 DEF CheckedInv, HeededIn
            <4>. QED
                BY <1>1, <2>2, <2>4, <3>3, <4>1, GoesOnWriting
        <3>. QED
            BY <3>1, <3>2, <3>3
    <2>5. CASE \/ \E e \in Deletes : ErasureStep(e)
               \/ \E t \in Types, k \in Keys, texts \in SUBSET Cell : Edit(t, k, texts)
               \/ UNCHANGED vars
        BY <1>1, <2>1, <2>5, OthersKeep
    <2>. QED
        BY <2>3, <2>4, <2>5 DEF Next
<1>. QED
    BY <1>1, <1>2, <1>4, <1>5, <1>6 DEF CheckedInv

LEMMA ChecksKeep == CheckedInv /\ [ChecksNext]_<<vars, checked>> => CheckedInv'
<1>. SUFFICES ASSUME CheckedInv, [ChecksNext]_<<vars, checked>> PROVE CheckedInv'
    OBVIOUS
<1>1. ASSUME NEW p \in Reconciles, NEW found \in BOOLEAN, Passes(p, found)
      PROVE  CheckedInv'
    <2>1. Next
        BY <1>1 DEF Passes, CheckModel, ReconcileStep, Next
    <2>. QED
        BY <1>1, <2>1, NextTyped, PassesHeeds DEF CheckedInv
<1>2. CASE Next /\ NobodyPasses /\ UNCHANGED checked
    BY <1>2, OthersPass
<1>3. CASE UNCHANGED <<vars, checked>>
    BY <1>3, OthersPass DEF vars, NobodyPasses
<1>. QED
    BY <1>1, <1>2, <1>3 DEF ChecksNext

(* A merge stores vectors of its run's model beside what the run has heeded. *)
LEMMA MeetsUnseen ==
    ASSUME CheckedInv, [Next]_vars, NEW p \in Reconciles, recon'[p] # recon[p], NEW t \in Types,
           NEW v \in sidecar[t], NEW w \in sidecar'[t], w \notin sidecar[t], v.model # w.model
    PROVE  recon[p].option.remodel \/ v.commit > checked[p][t]
<1>1. /\ TypeOK /\ recon \in [Reconciles -> ReconcileState]
      /\ checked[p][t] \in Nat /\ v.commit \in Nat
    BY DEF CheckedInv, TypeOK, Vector
<1>2. \E q \in Reconciles : ReconcileStep(q)
    <2>1. \A e \in Deletes : erasure[e].type \in Types
        BY <1>1 DEF TypeOK, ErasureState
    <2>2. ASSUME NEW e \in Deletes, ErasureStep(e) PROVE FALSE
        <3>1. UNCHANGED recon
            BY <2>2 DEF ErasureStep, ReadRow, PruneVector, EraseRow, EraseConflicts
        <3>. QED
            BY <3>1
    <2>3. ASSUME NEW q \in Reconciles, NEW option \in Options, NEW dry \in BOOLEAN,
                 Start(q, option, dry)
          PROVE  FALSE
        BY <2>3 DEF Start, side
    <2>4. ~ UNCHANGED vars
        BY DEF vars
    <2>. QED
        BY <2>2, <2>3, <2>4 DEF Next, Edit, side
<1>3. ReconcileStep(p)
    BY <1>1, <1>2, ReconcileReads
<1>4. recon[p].pc \in Writing /\ w.model = recon[p].option.model
    BY <1>1, <1>3, ModelWrites DEF Writing, Reading
<1>5. recon[p].option.remodel \/ ~ (v.commit <= checked[p][t])
    BY <1>4 DEF CheckedInv, HeededIn, Heeded
<1>. QED
    BY <1>1, <1>5

(* ModelsMeetUnseen for every instance: however many reconciles run at once and        *)
(* whatever the probe answers, one that is not told to --remodel stores a vector        *)
(* beside those of another model only if its check had not seen them.                   *)
THEOREM ModelsMeetUnseenAlways == ChecksSpec => ModelsMeetUnseen
<1>. DEFINE Meets ==
        \A p \in Reconciles, t \in Types : recon'[p] # recon[p] =>
          \A v \in sidecar[t] \cap sidecar'[t], w \in sidecar'[t] \ sidecar[t] :
              v.model # w.model
                  => recon[p].option.remodel \/ v.commit > checked[p][t]
<1>1. ChecksInit => CheckedInv
    <2>. SUFFICES ASSUME ChecksInit PROVE CheckedInv
        OBVIOUS
    <2>1. TypeOK
        BY InitTyped DEF ChecksInit
    <2>1a. \A t \in Types : sidecar[t] = {} /\ commits[t] = 0
        BY DEF ChecksInit, Init
    <2>1b. \A p \in Reconciles : recon[p].pc = "idle"
        BY DEF ChecksInit, Init, Begun
    <2>2. /\ checked \in [Reconciles -> [Types -> Nat]]
          /\ \A p \in Reconciles, t \in Types : checked[p][t] = 0
        BY DEF ChecksInit, Unchecked
    <2>. QED
        BY <2>1, <2>1a, <2>1b, <2>2 DEF CheckedInv, HeededIn, Writing, Reading
<1>2. CheckedInv /\ [ChecksNext]_<<vars, checked>> => [Next]_vars
    BY DEF ChecksNext, Passes, CheckModel, ReconcileStep, Next
<1>3. CheckedInv /\ [ChecksNext]_<<vars, checked>> => [Meets]_<<vars, checked>>
    BY <1>2, MeetsUnseen
<1>. QED
    BY <1>1, <1>3, ChecksKeep, PTL DEF ChecksSpec, ModelsMeetUnseen
=============================================================================
