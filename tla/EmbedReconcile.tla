--------------------------- MODULE EmbedReconcile ---------------------------
(* The vector sidecars and what keeps them level (embed/runtime.py and         *)
(* embed/store.py): reconciles that read the text of a table, then its         *)
(* sidecar, then prune and merge in separate commits, next to edits of the     *)
(* table and to delete actions, which prune the vector and then the row. A     *)
(* sidecar is in no transaction with its table. A reconcile is a process; its  *)
(* pc names the catalog call it makes next.                                    *)
EXTENDS Naturals, Sequences, FiniteSets

CONSTANTS
    Targets,      \* the object types with a semantic property, in the order of a run
    Keys,         \* primary keys
    Texts,        \* texts that can be embedded
    Blank,        \* a text that is null, blank or not a string
    Models,       \* embedding models
    Reconciles,   \* processes that run loom embed, again and again
    Deletes,      \* runs of a delete action
    Options,      \* the pairs of a model and the --remodel flag runs are given
    BatchRows,    \* BATCH_ROWS: vectors per model call and commit
    MaxAttempts,  \* MAX_ATTEMPTS of action/runtime.py
    MaxCommits,   \* bound: no run starts once a sidecar has had so many commits
    MaxEdits,     \* bound on the edits of the tables by anybody else
    MaxFaults,    \* bound on the calls that fail and the processes that die
    FlakyProbe    \* whether table_exists may answer False for a table that is there

Types == {Targets[i] : i \in DOMAIN Targets}
Cell == Texts \cup {Blank}

ASSUME EmbedAssumption ==
    /\ Targets \in Seq(Types) /\ Targets # << >>
    /\ \A i, j \in DOMAIN Targets : Targets[i] = Targets[j] => i = j
    /\ IsFiniteSet(Keys)
    /\ Blank \notin Texts
    /\ Options \subseteq [model : Models, remodel : BOOLEAN]
    /\ BatchRows \in Nat \ {0}
    /\ MaxAttempts \in Nat \ {0}
    /\ MaxCommits \in Nat /\ MaxEdits \in Nat /\ MaxFaults \in Nat
    /\ FlakyProbe \in BOOLEAN

VARIABLES
    rows,       \* per type and key, the texts of its rows: several is a duplicated key
    moved,      \* how many commits each backing table has had
    created,    \* whether each sidecar exists
    sidecar,    \* the vectors of each sidecar
    commits,    \* how many commits each sidecar has had; none is no snapshot
    recon,      \* the state of each reconcile
    erasure,    \* the state of each delete action
    edits,      \* how many edits other writers have made
    faults      \* how many calls have failed

base == <<rows, moved>>
side == <<created, sidecar, commits>>
vars == <<rows, moved, created, sidecar, commits, recon, erasure, edits, faults>>

(* source_hash covers the text and the model (the width and the property are    *)
(* fixed here). read: the commit of the backing table its text was read at.      *)
(* commit: the number of the commit that stored the vector.                     *)
Vector == [key : Keys, text : Texts, model : Models, read : Nat, commit : Nat]

Statuses == {"none", "applied", "previewed", "model_changed", "conflict", "failed"}
PCs == {"idle", "check", "text", "stored", "prune", "ensure", "create", "embed", "merge",
        "done", "dead"}

(* at: position in Targets. read, current: the commit of the table it read, and   *)
(* key and text of the rows. orphans, pending: keys it has to prune and to       *)
(* embed. snap: the commit it asserts. since, own: commits of the sidecar when   *)
(* it read it, and its own ones after. landed: vectors it merged. counted:       *)
(* rows_embedded of its result. pruned: rows_pruned is positive.                 *)
ReconcileState ==
    [pc : PCs, at : DOMAIN Targets, option : Options, dry : BOOLEAN, read : Nat,
     current : SUBSET [key : Keys, text : Texts], orphans : SUBSET Keys,
     pending : SUBSET Keys, snap : Nat, since : Nat, own : Nat, landed : Nat,
     counted : Nat, pruned : BOOLEAN, status : Statuses]

Begun(option, dry) ==
    [pc |-> "check", at |-> 1, option |-> option, dry |-> dry, read |-> 0, current |-> {},
     orphans |-> {}, pending |-> {}, snap |-> 0, since |-> 0, own |-> 0, landed |-> 0,
     counted |-> 0, pruned |-> FALSE, status |-> "none"]

(* snap: the commit of the backing table it read. pruned: the commits of the      *)
(* sidecar once its vector was removed.                                          *)
ErasureState ==
    [pc : {"read", "prune", "row", "erased", "stopped"}, type : Types, key : Keys,
     attempt : 1..MaxAttempts, snap : Nat, pruned : Nat]

Init ==
    /\ rows \in [Types -> [Keys -> {{}} \cup {{c} : c \in Texts}]]
    /\ moved = [t \in Types |-> 0]
    /\ created = [t \in Types |-> FALSE]
    /\ sidecar = [t \in Types |-> {}]
    /\ commits = [t \in Types |-> 0]
    /\ \E option \in Options :
          recon = [p \in Reconciles |-> [Begun(option, FALSE) EXCEPT !.pc = "idle"]]
    /\ erasure \in [Deletes -> [pc : {"read"}, type : Types, key : Keys, attempt : {1},
                                snap : {0}, pruned : {0}]]
    /\ edits = 0
    /\ faults = 0

-----------------------------------------------------------------------------
(* What a reconcile reads, and what it makes of it. *)

TypeAt(p) == Targets[recon[p].at]
Keyed(entries) == {e.key : e \in entries}

(* _current_text: a key with two rows has no right answer, so it has no text. *)
CurrentText(t) == {e \in [key : Keys, text : Texts] : rows[t][e.key] = {e.text}}

\* A plausible bug: only the keys without a vector are pending.
PendingIfMissing(current, stored, model) == Keyed(current) \ Keyed(stored)

(* The keys whose stored source_hash is not that of the text they have now. *)
Pending(current, stored, model) ==
    Keyed({e \in current :
              ~ \E v \in stored : v.key = e.key /\ v.text = e.text /\ v.model = model})

(* table_exists answers False for every error. *)
Probe(t, found) == found = created[t] \/ (found = FALSE /\ FlakyProbe)

(* VectorStore.existing *)
Existing(t, found) == IF found THEN sidecar[t] ELSE {}

(* VectorStore.snapshot_id *)
SnapshotId(t, found) == IF found THEN commits[t] ELSE 0

\* A plausible bug: only the preview refuses a changed model.
RefusesPreview(option, dry, stored) ==
    dry /\ ~ option.remodel /\ \E v \in stored : v.model # option.model

(* _check_model *)
Refuses(option, dry, stored) ==
    ~ option.remodel /\ \E v \in stored : v.model # option.model

Fault == faults < MaxFaults /\ faults' = faults + 1
Becomes(p, state) == recon' = [recon EXCEPT ![p] = state]
Forgets(s) ==
    [s EXCEPT !.read = 0, !.current = {}, !.orphans = {}, !.pending = {}, !.snap = 0]
Ends(p, status) == Becomes(p, [Forgets(recon[p]) EXCEPT !.pc = "done", !.status = status])

(* What a run keeps from one type to the next. *)
Kept(s) == [Begun(s.option, s.dry) EXCEPT !.at = s.at, !.landed = s.landed,
                                          !.counted = s.counted, !.pruned = s.pruned]

\* A plausible bug: off by one, there is always a next type.
OnwardPastTheEnd(s) ==
    IF s.at <= Len(Targets)
    THEN [Kept(s) EXCEPT !.at = @ + 1, !.pc = "text"]
    ELSE [Kept(s) EXCEPT !.pc = "done", !.status = IF s.dry THEN "previewed" ELSE "applied"]

(* On to the next type, or to the end of the run; what it read of this type goes. *)
Onward(s) ==
    IF s.at < Len(Targets)
    THEN [Kept(s) EXCEPT !.at = @ + 1, !.pc = "text"]
    ELSE [Kept(s) EXCEPT !.pc = "done", !.status = IF s.dry THEN "previewed" ELSE "applied"]

AfterPrune(s) == IF s.pending = {} THEN Onward(s) ELSE [s EXCEPT !.pc = "ensure"]

(* Prune before writing; a preview does neither. *)
Planned(s) ==
    CASE s.dry -> Onward(s)
      [] ~ s.dry /\ s.orphans # {} -> [s EXCEPT !.pc = "prune"]
      [] ~ s.dry /\ s.orphans = {} -> AfterPrune(s)

(* delete_vectors asserts no snapshot, and commits only if a row matches. *)
Remove(t, keys) ==
    /\ sidecar' = [sidecar EXCEPT ![t] = {v \in @ : v.key \notin keys}]
    /\ commits' = [commits EXCEPT ![t] = IF sidecar'[t] = sidecar[t] THEN @ ELSE @ + 1]
    /\ UNCHANGED created

-----------------------------------------------------------------------------
(* A reconcile: one action per catalog call. *)

Startable(p) ==
    /\ recon[p].pc \in {"idle", "done", "dead"}
    /\ \A t \in Types : commits[t] < MaxCommits

(* loom embed starts, for the first time or again. *)
Start(p, option, dry) ==
    /\ Startable(p)
    /\ Becomes(p, Begun(option, dry))
    /\ UNCHANGED <<base, side, erasure, edits, faults>>

(* The model of every type is checked before any type is written. *)
CheckFound(p, found) ==
    /\ recon[p].pc = "check"
    /\ Probe(TypeAt(p), found)
    /\ LET refused == Refuses(recon[p].option, recon[p].dry, Existing(TypeAt(p), found))
       IN \/ refused /\ Ends(p, "model_changed")
          \/ /\ ~ refused
             /\ recon[p].at < Len(Targets)
             /\ Becomes(p, [recon[p] EXCEPT !.at = @ + 1])
          \/ /\ ~ refused
             /\ recon[p].at = Len(Targets)
             /\ Becomes(p, [recon[p] EXCEPT !.at = 1, !.pc = "text"])
    /\ UNCHANGED <<base, side, erasure, edits, faults>>

CheckModel(p) == \E found \in BOOLEAN : CheckFound(p, found)

ReadText(p) ==
    /\ recon[p].pc = "text"
    /\ Becomes(p, [recon[p] EXCEPT !.pc = "stored", !.read = moved[TypeAt(p)],
                                   !.current = CurrentText(TypeAt(p))])
    /\ UNCHANGED <<base, side, erasure, edits, faults>>

Plan(p, stored) ==
    LET s == recon[p]
    IN [s EXCEPT !.orphans = Keyed(stored) \ Keyed(s.current),
                 !.pending = Pending(s.current, stored, s.option.model),
                 !.since = commits[TypeAt(p)]]

\* A plausible bug: the model is checked where the sidecar of a type is read.
ReadStoredChecking(p) ==
    /\ recon[p].pc = "stored"
    /\ \E found \in BOOLEAN :
          /\ Probe(TypeAt(p), found)
          /\ LET stored == Existing(TypeAt(p), found)
             IN IF Refuses(recon[p].option, recon[p].dry, stored)
                THEN Ends(p, "model_changed") ELSE Becomes(p, Planned(Plan(p, stored)))
    /\ UNCHANGED <<base, side, erasure, edits, faults>>

(* The sidecar is read after the text, and the plan is made from the two. *)
ReadStored(p) ==
    /\ recon[p].pc = "stored"
    /\ \E found \in BOOLEAN :
          /\ Probe(TypeAt(p), found)
          /\ Becomes(p, Planned(Plan(p, Existing(TypeAt(p), found))))
    /\ UNCHANGED <<base, side, erasure, edits, faults>>

(* The answer may be lost after the commit; the run has then failed. *)
Prune(p) ==
    /\ recon[p].pc = "prune"
    /\ Remove(TypeAt(p), recon[p].orphans)
    /\ \/ /\ LET own == commits'[TypeAt(p)] - commits[TypeAt(p)]
             IN Becomes(p, AfterPrune([recon[p] EXCEPT !.own = own, !.pruned = TRUE,
                                                       !.orphans = {}]))
          /\ UNCHANGED faults
       \/ Ends(p, "failed") /\ Fault
    /\ UNCHANGED <<base, erasure, edits>>

Ensure(p) ==
    /\ recon[p].pc = "ensure"
    /\ \E found \in BOOLEAN :
          /\ Probe(TypeAt(p), found)
          /\ Becomes(p, [recon[p] EXCEPT !.pc = IF found THEN "embed" ELSE "create"])
    /\ UNCHANGED <<base, side, erasure, edits, faults>>

(* create_table raises for a table that exists: two first runs race here. *)
CreateSidecar(p) ==
    /\ recon[p].pc = "create"
    /\ \/ created[TypeAt(p)] /\ Ends(p, "failed") /\ UNCHANGED created
       \/ /\ ~ created[TypeAt(p)]
          /\ created' = [created EXCEPT ![TypeAt(p)] = TRUE]
          /\ Becomes(p, [recon[p] EXCEPT !.pc = "embed"])
    /\ UNCHANGED <<base, sidecar, commits, erasure, edits, faults>>

(* The model embeds a batch, and then the snapshot to assert is read. *)
ReadSnapshot(p) ==
    /\ recon[p].pc = "embed"
    /\ \E found \in BOOLEAN :
          /\ Probe(TypeAt(p), found)
          /\ Becomes(p, [recon[p] EXCEPT !.pc = "merge",
                                         !.snap = SnapshotId(TypeAt(p), found)])
    /\ UNCHANGED <<base, side, erasure, edits, faults>>

Batches(pending) ==
    {batch \in SUBSET pending :
        Cardinality(batch) = IF Cardinality(pending) < BatchRows THEN Cardinality(pending)
                                                                 ELSE BatchRows}

(* overwrite: the keys of the batch are replaced, in one guarded commit. *)
Stored(p, batch) ==
    LET t == TypeAt(p) IN
    /\ recon[p].snap = commits[t]
    /\ sidecar' = [sidecar EXCEPT ![t] =
          {v \in @ : v.key \notin batch} \cup
          {[key |-> e.key, text |-> e.text, model |-> recon[p].option.model,
            read |-> recon[p].read, commit |-> commits[t] + 1] : e \in {e \in recon[p].current : e.key \in batch}}]
    /\ commits' = [commits EXCEPT ![t] = @ + 1]
    /\ UNCHANGED created

Merged(p, batch) ==
    [recon[p] EXCEPT !.pending = @ \ batch, !.landed = @ + Cardinality(batch), !.own = @ + 1]

\* A plausible bug: the snapshot is read once and not before every batch.
MergeSameSnapshot(p) ==
    /\ recon[p].pc = "merge"
    /\ \E batch \in Batches(recon[p].pending) :
          /\ Stored(p, batch)
          /\ \/ /\ LET s == Merged(p, batch)
                   IN Becomes(p, IF s.pending = {} THEN Onward([s EXCEPT !.counted = s.landed])
                                                   ELSE s)
                /\ UNCHANGED faults
             \/ Ends(p, "failed") /\ Fault
    /\ UNCHANGED <<base, erasure, edits>>

(* A batch lands. Only the return of _write, after the last batch of the type,    *)
(* counts what landed. The answer may be lost.                                   *)
Merge(p) ==
    /\ recon[p].pc = "merge"
    /\ \E batch \in Batches(recon[p].pending) :
          /\ Stored(p, batch)
          /\ \/ /\ LET s == Merged(p, batch)
                   IN Becomes(p, IF s.pending = {} THEN Onward([s EXCEPT !.counted = s.landed])
                                                   ELSE [s EXCEPT !.pc = "embed", !.snap = 0])
                /\ UNCHANGED faults
             \/ Ends(p, "failed") /\ Fault
    /\ UNCHANGED <<base, erasure, edits>>

(* Another commit overtook the snapshot: the whole run is refused. *)
MergeConflicts(p) ==
    /\ recon[p].pc = "merge"
    /\ recon[p].snap # commits[TypeAt(p)]
    /\ Ends(p, "conflict")
    /\ UNCHANGED <<base, side, erasure, edits, faults>>

(* A call raises with nothing done: the catalog, the model, or merge_vectors, whose *)
(* own existence probe sends it to create_table.                                   *)
CallFails(p) ==
    /\ recon[p].pc \in {"check", "text", "stored", "prune", "create", "embed", "merge"}
    /\ \/ Fault
       \/ recon[p].pc = "merge" /\ FlakyProbe /\ UNCHANGED faults
    /\ Ends(p, "failed")
    /\ UNCHANGED <<base, side, erasure, edits>>

Die(p) ==
    /\ recon[p].pc \notin {"idle", "done", "dead"}
    /\ Fault
    /\ Becomes(p, [Forgets(recon[p]) EXCEPT !.pc = "dead"])
    /\ UNCHANGED <<base, side, erasure, edits>>

-----------------------------------------------------------------------------
(* A delete action of a type with a sidecar: what ActionRuntime tells of it call *)
(* by call, here in the steps a reconcile can come between.                      *)

(* It reads the snapshot and the row; no such row, or two of them, refuses it. *)
ReadRow(e) ==
    /\ erasure[e].pc = "read"
    /\ LET found == rows[erasure[e].type][erasure[e].key]
       IN erasure' = [erasure EXCEPT ![e].pc = IF Cardinality(found) = 1 THEN "prune" ELSE "stopped",
                                     ![e].snap = moved[erasure[e].type]]
    /\ UNCHANGED <<base, side, recon, edits, faults>>

\* A plausible bug: removing the vector is best-effort, as embedding is.
PruneVectorBestEffort(e) ==
    /\ erasure[e].pc = "prune"
    /\ \/ Remove(erasure[e].type, {erasure[e].key}) /\ UNCHANGED faults
       \/ Fault /\ UNCHANGED side
    /\ erasure' = [erasure EXCEPT ![e].pc = "row", ![e].pruned = commits'[erasure[e].type]]
    /\ UNCHANGED <<base, recon, edits>>

(* The vector goes before the row; if it cannot go, the action is refused. *)
PruneVector(e) ==
    /\ erasure[e].pc = "prune"
    /\ \/ /\ Remove(erasure[e].type, {erasure[e].key})
          /\ erasure' = [erasure EXCEPT ![e].pc = "row", ![e].pruned = commits'[erasure[e].type]]
          /\ UNCHANGED faults
       \/ /\ Fault
          /\ Remove(erasure[e].type, {erasure[e].key}) \/ UNCHANGED side
          /\ erasure' = [erasure EXCEPT ![e].pc = "stopped"]
    /\ UNCHANGED <<base, recon, edits>>

(* The row goes if the table has not moved since it was read. *)
EraseRow(e) ==
    LET t == erasure[e].type IN
    /\ erasure[e].pc = "row"
    /\ moved[t] = erasure[e].snap
    /\ rows' = [rows EXCEPT ![t][erasure[e].key] = {}]
    /\ moved' = [moved EXCEPT ![t] = @ + 1]
    /\ erasure' = [erasure EXCEPT ![e].pc = "erased"]
    /\ UNCHANGED <<side, recon, edits, faults>>

(* A conflict starts the action over, MAX_ATTEMPTS times in all. *)
EraseConflicts(e) ==
    LET s == erasure[e] IN
    /\ s.pc = "row"
    /\ moved[s.type] # s.snap
    /\ erasure' = [erasure EXCEPT ![e] =
          IF s.attempt < MaxAttempts THEN [s EXCEPT !.pc = "read", !.attempt = @ + 1]
                                     ELSE [s EXCEPT !.pc = "stopped"]]
    /\ UNCHANGED <<base, side, recon, edits, faults>>

(* Anybody else commits to a backing table: rows come, change, double and go. *)
Edit(t, k, texts) ==
    /\ edits < MaxEdits
    /\ edits' = edits + 1
    /\ rows' = [rows EXCEPT ![t][k] = texts]
    /\ moved' = [moved EXCEPT ![t] = @ + 1]
    /\ UNCHANGED <<side, recon, erasure, faults>>

ReconcileStep(p) ==
    \/ CheckModel(p) \/ ReadText(p) \/ ReadStored(p) \/ Prune(p) \/ Ensure(p)
    \/ CreateSidecar(p) \/ ReadSnapshot(p) \/ Merge(p) \/ MergeConflicts(p)
    \/ CallFails(p) \/ Die(p)

ErasureStep(e) == ReadRow(e) \/ PruneVector(e) \/ EraseRow(e) \/ EraseConflicts(e)

Next ==
    \/ \E p \in Reconciles, option \in Options, dry \in BOOLEAN : Start(p, option, dry)
    \/ \E p \in Reconciles : ReconcileStep(p)
    \/ \E e \in Deletes : ErasureStep(e)
    \/ \E t \in Types, k \in Keys, texts \in {c \in SUBSET Cell : Cardinality(c) <= 2} :
          Edit(t, k, texts)

Spec == Init /\ [][Next]_vars

(* A reconcile that runs goes on, and loom embed is run again and again (the cron  *)
(* job of embed/runtime.py:146): previews come between, and never only previews.   *)
Fairness == \A p \in Reconciles :
    /\ WF_vars(ReconcileStep(p))
    /\ SF_vars(\E option \in Options : Start(p, option, FALSE))

FairSpec == Spec /\ Fairness

-----------------------------------------------------------------------------
(* Properties. *)

TypeOK ==
    /\ rows \in [Types -> [Keys -> SUBSET Cell]]
    /\ moved \in [Types -> Nat]
    /\ created \in [Types -> BOOLEAN]
    /\ sidecar \in [Types -> SUBSET Vector]
    /\ commits \in [Types -> Nat]
    /\ recon \in [Reconciles -> ReconcileState]
    /\ erasure \in [Deletes -> ErasureState]
    /\ edits \in 0..MaxEdits
    /\ faults \in 0..MaxFaults

(* A run that ends refused because the model changed has written nothing, in any   *)
(* of its types: what the refusal tells the operator (embed/runtime.py:221 and      *)
(* :404), and why every model is checked before the first write.                    *)
ModelRefusalWroteNothing ==
    \A p \in Reconciles :
        recon[p].status = "model_changed" => recon[p].landed = 0 /\ ~ recon[p].pruned

(* A run refused for a conflict lost to a commit of somebody else, and never to a   *)
(* batch or a prune of its own (embed/runtime.py:423).                              *)
NeverRefusesItself ==
    \A p \in Reconciles :
        recon[p].status = "conflict" => commits[TypeAt(p)] > recon[p].since + recon[p].own

(* A vector of a row that a delete action erased was stored after the action had    *)
(* pruned, by a reconcile that read the text before the row went: what the action   *)
(* could remove it did, and no reconcile that begins later brings the text back     *)
(* (action/runtime.py:719, embed/runtime.py:290).                                   *)
OnlyOvertakenRunsOutliveAnErasure ==
    \A e \in Deletes : \A v \in sidecar[erasure[e].type] :
        erasure[e].pc = "erased" /\ v.key = erasure[e].key =>
            /\ v.commit > erasure[e].pruned
            /\ moved[erasure[e].type] = erasure[e].snap + 1 => v.read <= erasure[e].snap

(* What embed/runtime.py:431 says of two concurrent reconciles, "a differing model   *)
(* is refused before either writes": with no --remodel a sidecar has one model.       *)
OneModelUnlessRemodel ==
    (\A option \in Options : ~ option.remodel) =>
        \A t \in Types : \A v, w \in sidecar[t] : v.model = w.model

(* Every row with a text has its vector, and nothing else has one. *)
Level(t) == {[key |-> v.key, text |-> v.text] : v \in sidecar[t]} = CurrentText(t)

(* Once edits and faults have stopped, reconciles that are run again and again      *)
(* bring every sidecar level and keep it there, however they interleave: what a     *)
(* slow run stores or prunes from an old read, a later one finds and repairs        *)
(* (embed/runtime.py:427).                                                          *)
SidecarConverges == <>[](\A t \in Types : Level(t))
=============================================================================
