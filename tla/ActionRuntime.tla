--------------------------- MODULE ActionRuntime ---------------------------
(* The action runtime (action/runtime.py) over one backing table of an Iceberg *)
(* catalog (catalog/pyiceberg_catalog.py): runs of actions that read, decide   *)
(* and commit in separate catalog calls, next to writers that are not Loom and *)
(* to schema changes, each run then appending to the edit log (action/log.py). *)
(* A run is a process; its pc names the catalog call it makes next. Whatever   *)
(* the code computes between two calls belongs to the step of the earlier one. *)
EXTENDS ActionRules, Naturals, Sequences, FiniteSets

CONSTANTS
    MaxAttempts,    \* MAX_ATTEMPTS of runtime.py: runs of one edit before it is refused
    MaxLogAttempts, \* MAX_LOG_ATTEMPTS of log.py: appends of one record
    Semantic,       \* whether the object type has a vector sidecar
    Renamable,      \* columns a schema change may rename while runs are under way
    FlakyProbe,     \* whether table_exists may answer False for a table that is there
    StorageFaults   \* whether catalog calls may fail, or succeed and lose the answer

ASSUME RuntimeAssumption ==
    /\ MaxAttempts \in Nat \ {0}
    /\ MaxLogAttempts \in Nat \ {0}
    /\ Semantic \in BOOLEAN
    /\ Renamable \subseteq Columns
    /\ FlakyProbe \in BOOLEAN
    /\ StorageFaults \in BOOLEAN

VARIABLES
    exists,     \* the backing table has been created
    rows,       \* its physical rows
    history,    \* its snapshots, oldest first: who committed, on top of which one
    renamed,    \* the columns that no longer have the name the ontology knows
    vectors,    \* the keys that have a vector in the sidecar
    editLog,    \* the records of _loom_meta.edits, in order
    run         \* the state of each run

table == <<exists, rows, history, renamed>>
vars == <<exists, rows, history, renamed, vectors, editLog, run>>

(* The snapshot a reader sees; 0 is None, a table nothing was committed to. *)
Snapshot == Len(history)

Outcomes == {"none", "unbound", "applied", "previewed", "conflict", "write_failed"}
                \cup Refusals

(* ActionResult.status, from the outcome. *)
Status(outcome) ==
    CASE outcome \in {"applied", "previewed"} -> outcome
      [] outcome = "write_failed" -> "failed"
      [] outcome = "none" -> "none"
      [] OTHER -> "refused"

PCs == {"idle", "snapshot", "row", "prune", "commit", "record", "done", "dead"}

(* job: the call, as a set of at most one. attempt: number of the current      *)
(* _Run. snap: the snapshot it will assert. found, under: the rows its read    *)
(* matched, and the schema they were read under. tries: failed appends of its  *)
(* log record. logLost: the result carries log_failed.                         *)
RunState == [pc : PCs, job : SUBSET Jobs, attempt : 1..MaxAttempts, snap : Nat,
             found : SUBSET Row, under : SUBSET Renamable, outcome : Outcomes,
             tries : 0..MaxLogAttempts, logLost : BOOLEAN]

Idle == [pc |-> "idle", job |-> {}, attempt |-> 1, snap |-> 0, found |-> {},
         under |-> {}, outcome |-> "none", tries |-> 0, logLost |-> FALSE]

Commit == [stamp : Authors, base : Nat]
EditRecords == [edit : Runs, outcome : Outcomes, attempts : 1..MaxAttempts]

(* The table is missing, empty, or holds one row an outside writer loaded. *)
Init ==
    /\ \/ exists \in BOOLEAN /\ rows = {} /\ history = << >>
       \/ \E o \in Outsiders, k \in Keys, cells \in Contents :
             /\ exists = TRUE
             /\ rows = {[key |-> k, by |-> o, cells |-> cells]}
             /\ history = << [stamp |-> o, base |-> 0] >>
    /\ renamed = {}
    /\ vectors = {x.key : x \in rows}
    /\ editLog = << >>
    /\ run = [r \in Runs |-> Idle]

-----------------------------------------------------------------------------
(* One run. *)

(* Whether table_exists may answer probe: it swallows every error as False. *)
Probe(probe) == probe = exists \/ (probe = FALSE /\ FlakyProbe)

\* Plausible bugs: every refusal is retried, not only a conflict; refusals are
\* not recorded.
ConcludedByRetrying(job, outcome) ==
    IF Status(outcome) = "refused" THEN "snapshot"
    ELSE IF job.dry THEN "done" ELSE "record"
ConcludedUnrecorded(job, outcome) ==
    IF job.dry \/ Status(outcome) = "refused" THEN "done" ELSE "record"

(* Where a run goes once it has its outcome: a preview is not recorded, unless *)
(* it was refused and the caller asked for refusals to be.                     *)
Concluded(job, outcome) ==
    IF job.dry /\ ~ (job.recordRefusals /\ Status(outcome) = "refused")
    THEN "done" ELSE "record"

(* Mint the edit id, bind the parameters and the key. A call that names no row *)
(* is refused before anything is read, and never recorded.                     *)
Start(r, job) ==
    /\ run[r].pc = "idle"
    /\ run' = [run EXCEPT
          ![r].job = {job},
          ![r].outcome = IF job.binds THEN "none" ELSE "unbound",
          ![r].pc = IF job.binds THEN "snapshot" ELSE "done"]
    /\ UNCHANGED <<table, vectors, editLog>>

(* current_snapshot_id if table_exists else None: before the rows. *)
ReadSnapshot(r) ==
    /\ run[r].pc = "snapshot"
    /\ \E probe \in BOOLEAN :
          /\ Probe(probe)
          /\ run' = [run EXCEPT
                ![r].snap = IF probe THEN Snapshot ELSE 0,
                ![r].pc = "row"]
    /\ UNCHANGED <<table, vectors, editLog>>

(* _read, the policy, the rules and the effect: the run is refused, has its    *)
(* preview, or goes on to write. table_exists is asked a second time.          *)
ReadRow(r, job) ==
    /\ run[r].pc = "row"
    /\ job \in run[r].job
    /\ \E probe \in BOOLEAN :
          LET found == {x \in rows : x.key = job.key /\ probe}
              decision == Decision(job, found, renamed)
              outcome == IF decision # "go" THEN decision
                         ELSE IF job.dry THEN "previewed" ELSE "none"
          IN  /\ Probe(probe)
              /\ run' = [run EXCEPT
                    ![r].found = found,
                    ![r].under = renamed,
                    ![r].outcome = outcome,
                    ![r].pc = IF outcome # "none" THEN Concluded(job, outcome)
                              ELSE IF job.op = "delete" /\ Semantic THEN "prune"
                              ELSE "commit"]
    /\ UNCHANGED <<table, vectors, editLog>>

Concludes(r, outcome) ==
    run' = [run EXCEPT ![r].outcome = outcome, ![r].pc = "record"]

(* delete_vectors, ahead of the row: if it fails nothing is deleted. A failure *)
(* may hide a deletion that happened.                                          *)
Prune(r, job) ==
    /\ run[r].pc = "prune"
    /\ job \in run[r].job
    /\ \/ /\ vectors' = vectors \ {job.key}
          /\ run' = [run EXCEPT ![r].pc = "commit"]
       \/ /\ StorageFaults
          /\ vectors' \in {vectors, vectors \ {job.key}}
          /\ Concludes(r, "write_failed")
    /\ UNCHANGED <<table, editLog>>

(* The commit of the write, with the edit id of the run in its summary. *)
Writes(r, job) ==
    /\ run[r].pc = "commit"
    /\ job \in run[r].job
    /\ exists
    /\ rows' = Rewrite(rows, job, r, run[r].found, run[r].under, renamed)
    /\ history' = Append(history, [stamp |-> r, base |-> run[r].snap])
    /\ UNCHANGED <<exists, renamed, vectors, editLog>>

\* Plausible bugs: the commit asserts no snapshot; only create's does not, as an
\* append puts no row over another; a lost answer is taken for a conflict.
CommitLandsUnguarded(r, job) ==
    Writes(r, job) /\ Concludes(r, "applied")
CommitLandsCreateUnguarded(r, job) ==
    /\ Writes(r, job) /\ Concludes(r, "applied")
    /\ run[r].snap = Snapshot \/ job.op = "create"
CommitLandsRetried(r, job) ==
    /\ Writes(r, job) /\ run[r].snap = Snapshot
    /\ \/ Concludes(r, "applied")
       \/ /\ StorageFaults /\ run[r].attempt < MaxAttempts
          /\ run' = [run EXCEPT ![r].attempt = @ + 1, ![r].pc = "snapshot"]

(* The guarded commit lands only on the snapshot the run read. Its answer may  *)
(* be lost.                                                                    *)
CommitLands(r, job) ==
    /\ Writes(r, job)
    /\ run[r].snap = Snapshot
    /\ \/ Concludes(r, "applied")
       \/ StorageFaults /\ Concludes(r, "write_failed")

Overtaken(r) ==
    /\ run[r].pc = "commit"
    /\ exists
    /\ run[r].snap # Snapshot
    /\ UNCHANGED <<table, vectors, editLog>>

\* Plausible bugs: retries are not bounded; a retry keeps the snapshot it lost
\* on; a retry replays the write on the new snapshot instead of reading again.
CommitConflictsUnbounded(r) ==
    /\ Overtaken(r)
    /\ run' = [run EXCEPT ![r].attempt = @ + 1, ![r].pc = "snapshot"]
CommitConflictsStale(r) ==
    /\ Overtaken(r)
    /\ \/ /\ run[r].attempt < MaxAttempts
          /\ run' = [run EXCEPT ![r].attempt = @ + 1, ![r].pc = "row"]
       \/ run[r].attempt = MaxAttempts /\ Concludes(r, "conflict")
CommitConflictsReplay(r) ==
    /\ Overtaken(r)
    /\ \/ /\ run[r].attempt < MaxAttempts
          /\ run' = [run EXCEPT ![r].attempt = @ + 1, ![r].snap = Snapshot]
       \/ run[r].attempt = MaxAttempts /\ Concludes(r, "conflict")

(* ConcurrencyError: a fresh _Run reads again, up to MaxAttempts of them. The  *)
(* re-read that words the conflict changes nothing and is left out.            *)
CommitConflicts(r) ==
    /\ Overtaken(r)
    /\ \/ /\ run[r].attempt < MaxAttempts
          /\ run' = [run EXCEPT ![r].attempt = @ + 1, ![r].snap = 0, ![r].found = {},
                                ![r].under = {}, ![r].pc = "snapshot"]
       \/ run[r].attempt = MaxAttempts /\ Concludes(r, "conflict")

(* Any other CatalogError of the write: no such table, or storage. *)
CommitFails(r) ==
    /\ run[r].pc = "commit"
    /\ ~ exists \/ StorageFaults
    /\ Concludes(r, "write_failed")
    /\ UNCHANGED <<table, vectors, editLog>>

Entry(r) == [edit |-> r, outcome |-> run[r].outcome, attempts |-> run[r].attempt]

(* One append of EditLog.record. *)
RecordLands(r) ==
    /\ run[r].pc = "record"
    /\ editLog' = Append(editLog, Entry(r))
    /\ run' = [run EXCEPT ![r].pc = "done"]
    /\ UNCHANGED <<table, vectors>>

AppendErrs(r) ==
    /\ StorageFaults
    /\ run[r].pc = "record"
    /\ editLog' \in {editLog, Append(editLog, Entry(r))}
    /\ UNCHANGED <<table, vectors>>

(* An append that raises, whether or not the row went in, is tried again; the  *)
(* last one becomes log_failed beside an unchanged status.                     *)
RecordErrs(r) ==
    /\ AppendErrs(r)
    /\ \/ /\ run[r].tries + 1 < MaxLogAttempts
          /\ run' = [run EXCEPT ![r].tries = @ + 1]
       \/ /\ run[r].tries + 1 = MaxLogAttempts
          /\ run' = [run EXCEPT ![r].tries = @ + 1, ![r].logLost = TRUE, ![r].pc = "done"]

(* The process dies between two calls, or a read raises: neither is recorded. *)
Die(r) ==
    /\ run[r].pc \in {"snapshot", "row", "prune", "commit", "record"}
    /\ run' = [run EXCEPT ![r].pc = "dead"]
    /\ UNCHANGED <<table, vectors, editLog>>

-----------------------------------------------------------------------------
(* Everybody else. *)

(* loom apply creates the table. *)
CreateTable ==
    /\ ~ exists
    /\ exists' = TRUE
    /\ UNCHANGED <<rows, history, renamed, vectors, editLog, run>>

(* alter_table renames a column: a schema change commits no snapshot. *)
RenameColumn(c) ==
    /\ exists
    /\ c \in Renamable \ renamed
    /\ renamed' = renamed \cup {c}
    /\ UNCHANGED <<exists, rows, history, vectors, editLog, run>>

(* Another writer appends a row, overwrites or deletes a key, or rewrites files. *)
OutsideCommit(o) ==
    /\ exists
    /\ \A i \in DOMAIN history : history[i].stamp # o
    /\ \E k \in Keys, gone \in BOOLEAN, new \in {{}} \cup {{c} : c \in Contents} :
          rows' = {x \in rows : x.key = k => ~ gone}
                     \cup {[key |-> k, by |-> o, cells |-> cells] : cells \in new}
    /\ history' = Append(history, [stamp |-> o, base |-> Snapshot])
    /\ UNCHANGED <<exists, renamed, vectors, editLog, run>>

RunStep(r) ==
    \/ ReadSnapshot(r)
    \/ \E job \in Jobs : ReadRow(r, job) \/ Prune(r, job) \/ CommitLands(r, job)
    \/ CommitConflicts(r)
    \/ CommitFails(r)
    \/ RecordLands(r)
    \/ RecordErrs(r)

Next ==
    \/ \E r \in Runs : RunStep(r) \/ Die(r)
    \/ \E r \in Runs, job \in Jobs : Start(r, job)
    \/ CreateTable
    \/ \E c \in Columns : RenameColumn(c)
    \/ \E o \in Outsiders : OutsideCommit(o)

Spec == Init /\ [][Next]_vars

(* A started run is code that is being executed: its next call is made. *)
FairSpec == Spec /\ \A r \in Runs : WF_vars(RunStep(r))

-----------------------------------------------------------------------------
(* Properties. *)

TypeOK ==
    /\ exists \in BOOLEAN
    /\ rows \subseteq Row
    /\ history \in Seq(Commit)
    /\ renamed \subseteq Renamable
    /\ vectors \subseteq Keys
    /\ editLog \in Seq(EditRecords)
    /\ run \in [Runs -> RunState]

CommitsOf(a) == {i \in DOMAIN history : history[i].stamp = a}

Matching(job) == {x \in rows : x.key = job.key}

(* The snapshot is read before the rows, so it is at or before them: as long as *)
(* it is still the table's, the rows a run decided on are the table's rows.     *)
(* (runtime.py, execute: "current_snapshot_id, read before the rows".)          *)
ReadIsCurrent ==
    \A r \in Runs : \A job \in run[r].job :
        run[r].pc \in {"prune", "commit"} /\ run[r].snap = Snapshot
            => run[r].found = Matching(job) /\ Decision(job, Matching(job), run[r].under) = "go"

(* Every edit takes effect in one step, decided against the rows of that step,  *)
(* or not at all, and a refusal was true when it was made (04-action.md).       *)
Verdict(r) ==
    IF CommitsOf(r) # {} THEN "took"
    ELSE IF run[r].outcome \in Refusals \cup {"previewed"} THEN run[r].outcome
    ELSE IF run[r].pc \in {"record", "done", "dead"} THEN "abandoned"
    ELSE "pending"

Atomic == INSTANCE AtomicEdits WITH
    asked <- [r \in Runs |-> run[r].job],
    verdict <- [r \in Runs |-> Verdict(r)]

EditsAreAtomic == Atomic!Spec

(* Of two rows with one key, the later was not written by Loom: a create        *)
(* asserts the snapshot its existence check read, so two of them cannot both    *)
(* land (runtime.py, _write: "Checked, they cannot").                           *)
LoomNeverDuplicatesAKey ==
    \A x, y \in rows : \A i \in CommitsOf(x.by), j \in CommitsOf(y.by) :
        x.key = y.key /\ i < j => y.by \in Outsiders

(* What a run reports agrees with the table: an edit commits at most once,      *)
(* applied means it did, and only a failed run leaves the question open, which  *)
(* its stamp then answers (result.py: REFUSED, FAILED).                         *)
OutcomeAgreesWithHistory ==
    \A r \in Runs :
        /\ \A i, j \in CommitsOf(r) : i = j
        /\ run[r].outcome = "applied" => CommitsOf(r) # {}
        /\ CommitsOf(r) # {} => run[r].outcome \in {"applied", "write_failed"}

(* Every run that named a row and ended is in the edit log with the outcome it  *)
(* reported, unless it was a preview nobody asked to record or it says that the *)
(* record was lost (runtime.py, _record).                                       *)
EndedRunsAreAccountedFor ==
    \A r \in Runs : \A job \in run[r].job :
        run[r].pc = "done" /\ job.binds
            => \/ run[r].logLost
               \/ \E i \in DOMAIN editLog : editLog[i] = Entry(r)
               \/ job.dry /\ ~ (job.recordRefusals /\ run[r].outcome \in Refusals)

(* A conflict is reported only by a run that MaxAttempts commits of others      *)
(* overtook, one for each of its attempts (result.py: "Seeing it means          *)
(* MAX_ATTEMPTS runs each lost the race").                                      *)
ConflictMeansOvertaken ==
    \A r \in Runs :
        run[r].outcome = "conflict"
            => Cardinality(DOMAIN history \ CommitsOf(r)) >= MaxAttempts

(* The step that commits the edit of r. *)
Committing(r) == CommitsOf(r)' # CommitsOf(r)

(* A run removes or overwrites only rows of its own key that its caller's row   *)
(* policy admits, judged on the row as it is at the commit, and a create        *)
(* removes none (runtime.py, execute and _admitted).                            *)
OnlyAdmittedRowsLeave ==
    [][\A r \in Runs : \A job \in run[r].job :
          Committing(r) => \A x \in rows \ rows' :
              x.key = job.key /\ job.op # "create" /\ Admitted(job, x, renamed)]_vars

(* What a modify does not name it does not change: the unmapped column of the   *)
(* row it writes is that of the row it replaces (04-action.md: "every unmapped  *)
(* column was written back unchanged and nothing moved under the run").         *)
UnmappedColumnSurvives ==
    [][\A r \in Runs : \A x \in rows' \ rows, y \in rows \ rows' :
          Committing(r) => x.cells[Unmapped] = y.cells[Unmapped]]_vars

(* Every run that starts ends: retries are bounded, and so are the appends of   *)
(* its record.                                                                  *)
EveryRunEnds ==
    \A r \in Runs : run[r].pc # "idle" ~> run[r].pc \in {"done", "dead"}
=============================================================================
