---------------------------- MODULE IngestRuntime ----------------------------
(* loom ingest and loom sequence (cli.py, ingest/runtime.py, sequence.py and  *)
(* log.py) over one table: invocations that rehearse every load of their      *)
(* order, ask, and then run them, next to each other, to writers that are not *)
(* Loom and to the migration that creates the table. An invocation is a       *)
(* process; its pc names the catalog call it makes next. loom ingest is an    *)
(* order of one load that writes no sequence record.                          *)
EXTENDS IngestRules

CONSTANTS
    Invocations,
    Outsiders,      \* commits of writers that are not Loom, one each
    Files,          \* name -> file
    Entries,        \* entry of loom.yaml -> [mode, withheld: refused before its file is read]
    Jobs,           \* the commands that may be given
    Contents,       \* the cells other writers give a row
    StorageFaults   \* whether a write may fail, or succeed and lose its answer, and
                    \* table_exists answer no because its question failed

(* A job: [order: sequence of entries, file: entry -> the file its rehearsal   *)
(* reads, later: entry -> the one that is at that path when the load is run,   *)
(* sequence, reject: --reject-to is given, rehearsal: --dry-run].              *)

FileRecords ==
    [columns: SUBSET Mapped, keyed: BOOLEAN, extra: BOOLEAN,
     lines: Seq([key: Keys \cup {NullKey}, fits: BOOLEAN])]

JobRecords ==
    [order: Seq(DOMAIN Entries), file: UNION {[S -> DOMAIN Files] : S \in SUBSET DOMAIN Entries},
     later: UNION {[S -> DOMAIN Files] : S \in SUBSET DOMAIN Entries},
     sequence: BOOLEAN, reject: BOOLEAN, rehearsal: BOOLEAN]

\* _parse_sequences refuses an order that is empty or names an entry twice.
ASSUME IngestAssumption ==
    /\ Invocations \cap Outsiders = {}
    /\ \A name \in DOMAIN Files : Files[name] \in FileRecords
    /\ \A entry \in DOMAIN Entries : Entries[entry] \in [mode: Modes, withheld: BOOLEAN]
    /\ Jobs \subseteq JobRecords
    /\ \A job \in Jobs :
          /\ job.order # << >>
          /\ \A k \in DOMAIN job.order : job.order[k] \in DOMAIN job.file \cap DOMAIN job.later
          /\ \A k, l \in DOMAIN job.order : job.order[k] = job.order[l] => k = l
    /\ \A cells \in Contents : cells = [c \in Columns |-> cells[c]]

VARIABLES
    exists,     \* the table is there
    rows,       \* its rows
    history,    \* its snapshots, oldest first: who committed which load
    loads,      \* the records of _loom_meta.loads
    sequences,  \* the records of _loom_meta.sequences
    run         \* the state of each invocation

table == <<exists, rows, history>>
logs == <<loads, sequences>>
vars == <<table, logs, run>>

Snapshot == Len(history)

NoJob ==
    [order |-> << >>, file |-> << >>, later |-> << >>,
     sequence |-> FALSE, reject |-> FALSE, rehearsal |-> FALSE]

PCs == {"idle", "landed", "table", "snapshot", "scan", "rejects", "confirm", "commit",
        "record", "sequence", "done", "dead"}

Statuses == {"none", "applied", "previewed", "refused", "failed"}

(* at: the load of the order being run. dry: it is the rehearsal. alone: the   *)
(* load is run for the record only, its rehearsal having been refused for      *)
(* `refusal`. landed: loads that went in. unlogged: log_failed was reported.   *)
(* blind: the load is on record, and it was told that there is no log. For     *)
(* properties, seen: how many records the log had then.                        *)
Idle == [pc |-> "idle", job |-> NoJob, at |-> 1, dry |-> TRUE, alone |-> FALSE,
         snap |-> 0, read |-> {}, status |-> "none", why |-> {}, refusal |-> {},
         seen |-> 0, blind |-> FALSE, landed |-> 0, unlogged |-> FALSE]

Entry(x) == x.job.order[x.at]
FileName(x) == IF x.dry THEN x.job.file[Entry(x)] ELSE x.job.later[Entry(x)]
File(x) == Files[FileName(x)]
Mode(x) == Entries[Entry(x)].mode

\* derive_load_id: the entry, its mode and the bytes of the file.
LoadId(x) == <<Entry(x), FileName(x)>>

\* What a snapshot's summary says of the commit, and what the properties ask of it.
CommitOf(i) == [by |-> i, id |-> LoadId(run[i]), alone |-> run[i].alone,
               seen |-> run[i].seen, blind |-> run[i].blind]
OutsideOf(o) == [by |-> o, id |-> << >>, alone |-> FALSE, seen |-> 0, blind |-> FALSE]

Ok(status) == status \in {"applied", "previewed"}

Init ==
    /\ \/ exists \in BOOLEAN /\ rows = {} /\ history = << >>
       \/ \E o \in Outsiders, key \in Keys, cells \in Contents :
             /\ exists = TRUE
             /\ rows = {[key |-> key, by |-> o, cells |-> cells]}
             /\ history = <<OutsideOf(o)>>
    /\ loads = << >>
    /\ sequences = {}
    /\ run = [i \in Invocations |-> Idle]

-----------------------------------------------------------------------------
(* The order. *)

\* _Load starts over for the next one.
Begin(x, at) ==
    [x EXCEPT !.at = at, !.pc = "landed", !.snap = 0, !.read = {}, !.status = "none",
              !.why = {}, !.seen = 0, !.blind = FALSE]

\* What outlives an invocation.
Closed(x, pc) ==
    [Idle EXCEPT !.job = x.job, !.pc = pc, !.alone = x.alone, !.refusal = x.refusal,
                 !.unlogged = x.unlogged]

\* A plausible bug: a load that is refused is passed over.
RunsOnPast(x, status) == TRUE
\* The first load that is not ok stops the order.
RunsOn(x, status) == Ok(status)

\* A rehearsal that ended: the next one, the question, or the one load that was
\* refused, for real, so that its refusal is recorded (record_stop, cmd_ingest).
Rehearsed(x, status) ==
    IF ~ Ok(status) /\ ~ x.job.rehearsal
    THEN [Begin(x, x.at) EXCEPT !.dry = FALSE, !.alone = TRUE, !.refusal = x.why]
    ELSE IF Ok(status) /\ x.at < Len(x.job.order) THEN Begin(x, x.at + 1)
    ELSE IF Ok(status) /\ ~ x.job.rehearsal THEN [x EXCEPT !.pc = "confirm"]
    ELSE Closed(x, "done")

\* A load that ended: the next one, or the record of the sequence.
Loaded(x, status) ==
    LET y == [x EXCEPT !.status = status, !.landed = IF Ok(status) THEN @ + 1 ELSE @]
    IN  IF x.alone THEN Closed(y, "done")
        ELSE IF RunsOn(x, status) /\ x.at < Len(x.job.order) THEN Begin(y, x.at + 1)
        ELSE IF x.job.sequence THEN [y EXCEPT !.pc = "sequence"]
        ELSE Closed(y, "done")

Ended(x, status) == IF x.dry THEN Rehearsed(x, status) ELSE Loaded(x, status)

\* A plausible bug: a rehearsal is recorded too.
ConcludedRecording(x, status, why) ==
    [x EXCEPT !.status = status, !.why = why, !.snap = 0, !.read = {}, !.pc = "record"]

\* _refuse and _record: a rehearsal is never recorded.
Concluded(x, status, why) ==
    LET y == [x EXCEPT !.status = status, !.why = why, !.snap = 0, !.read = {}]
    IN  IF x.dry THEN Ended(y, status) ELSE [y EXCEPT !.pc = "record"]

-----------------------------------------------------------------------------
(* One invocation. *)

Steps(i, x) == run' = [run EXCEPT ![i] = x]

Start(i, job) ==
    /\ run[i].pc = "idle"
    /\ Steps(i, Begin([Idle EXCEPT !.job = job], 1))
    /\ UNCHANGED <<table, logs>>

OnRecord(id) == \E n \in DOMAIN loads : loads[n].id = id

\* LoadLog.history: a table_exists that fails says there is no log.
Recorded(blind) == IF blind THEN << >> ELSE loads

\* A plausible bug: a failed load is taken for one that did not land.
LandedIfApplied(id, log) == \E n \in DOMAIN log : log[n].id = id /\ log[n].status = "applied"

\* LoadLog.landed: nobody knows whether a failed load committed, so it counts.
Landed(id, log) == \E n \in DOMAIN log : log[n].id = id /\ log[n].status \in {"applied", "failed"}

\* A plausible bug: only the rehearsal asks the log.
RepeatsRehearsed(x) == x.dry /\ Landed(LoadId(x), Recorded(x.blind))
Repeats(x) == Landed(LoadId(x), Recorded(x.blind))

(* The posture of the deployment, a mask on the type or a file that cannot be  *)
(* read refuse before the load has an id, and nothing is recorded. Then the    *)
(* log is read and the columns of the file are checked.                        *)
ReadLog(i) ==
    /\ run[i].pc = "landed"
    /\ \E blind \in {FALSE} \cup {StorageFaults /\ OnRecord(LoadId(run[i]))} :
          LET x == [run[i] EXCEPT !.seen = Len(loads), !.blind = blind]
          IN  Steps(i, IF Entries[Entry(x)].withheld THEN Ended([x EXCEPT !.why = {"masked_property"}], "refused")
                       ELSE IF Repeats(x) THEN Concluded(x, "refused", {"duplicate_load"})
                       ELSE [x EXCEPT !.pc = "table", !.why = ColumnFailures(File(x))])
    /\ UNCHANGED <<table, logs>>

Cleared(x) ==
    IF x.dry THEN Concluded(x, "previewed", x.why) ELSE [x EXCEPT !.pc = "commit"]

\* Everything up to the commit is found: the rows are refused, previewed or written.
Decided(x, failures, read) ==
    IF ~ Absorbed(failures, x.job.reject) THEN Concluded(x, "refused", failures)
    ELSE IF Empties(File(x), Mode(x)) THEN Concluded(x, "refused", {"empty_replace"})
    ELSE LET y == [x EXCEPT !.why = failures, !.read = read]
         IN  IF x.job.reject THEN [y EXCEPT !.pc = "rejects"] ELSE Cleared(y)

\* table_exists, which fails as a no, and describe; then the lines of the file. An
\* append reads no more.
CheckTable(i) ==
    LET x == run[i]
        lines == LineFailures(File(x))
    IN  /\ x.pc = "table"
        /\ \E found \in {exists} \cup {exists /\ ~ StorageFaults} :
              LET failures == x.why \cup TableFailures(Mode(x), found)
              IN  Steps(i, IF failures # {} THEN Concluded(x, "refused", failures)
                           ELSE IF ~ Absorbed(lines, x.job.reject) THEN Concluded(x, "refused", lines)
                           ELSE IF Mode(x) = "append" THEN Decided(x, lines, {})
                           ELSE [x EXCEPT !.pc = "snapshot", !.why = lines])
        /\ UNCHANGED <<table, logs>>

\* current_snapshot_id, read before the rows.
ReadSnapshot(i) ==
    LET x == [run[i] EXCEPT !.snap = Snapshot] IN
    /\ x.pc = "snapshot"
    /\ Steps(i, IF Mode(x) = "merge" THEN [x EXCEPT !.pc = "scan"] ELSE Decided(x, x.why, {}))
    /\ UNCHANGED <<table, logs>>

Scan(i) ==
    LET x == run[i] IN
    /\ x.pc = "scan"
    /\ Steps(i, Decided(x, x.why \cup {"ambiguous_key" : y \in {z \in {1} : Ambiguous(File(x), rows)}},
                        {y \in rows : y.key \in KeysOf(File(x))}))
    /\ UNCHANGED <<table, logs>>

\* write_rejects, in a rehearsal too; without it nothing is written.
WriteRejects(i) ==
    LET x == run[i] IN
    /\ x.pc = "rejects"
    /\ \/ Steps(i, Cleared(x))
       \/ StorageFaults /\ Steps(i, Concluded(x, "refused", x.why \cup {"source_error"}))
    /\ UNCHANGED <<table, logs>>

\* The operator says yes, or no.
Confirm(i) ==
    LET x == run[i] IN
    /\ x.pc = "confirm"
    /\ \/ Steps(i, [Begin(x, 1) EXCEPT !.dry = FALSE])
       \/ Steps(i, Closed(x, "done"))
    /\ UNCHANGED <<table, logs>>

Lands(i) ==
    LET x == run[i]
        new == Prepared(File(x), Mode(x), i, x.read)
    IN  /\ x.pc = "commit"
        /\ IF Commits(File(x), Mode(x))
           THEN /\ rows' = Rewritten(rows, File(x), Mode(x), new)
                /\ history' = Append(history, CommitOf(i))
           ELSE UNCHANGED <<rows, history>>
        /\ UNCHANGED <<exists, logs>>

\* Only replace_table and merge_batch are guarded, and a merge of nothing is not.
Asserts(x) == Mode(x) # "append" /\ Commits(File(x), Mode(x))

\* A plausible bug: a write that failed is reported as a refusal.
FailureStatusRefused == "refused"
FailureStatus == "failed"

\* The commit, on the snapshot that was read. Its answer may be lost.
CommitLands(i) ==
    LET x == run[i] IN
    /\ Lands(i)
    /\ Asserts(x) => x.snap = Snapshot
    /\ \/ Steps(i, Concluded(x, "applied", x.why))
       \/ StorageFaults /\ Steps(i, Concluded(x, FailureStatus, {"write_failed"}))

CommitConflicts(i) ==
    LET x == run[i] IN
    /\ x.pc = "commit"
    /\ Asserts(x) /\ x.snap # Snapshot
    /\ Steps(i, Concluded(x, "refused", {"conflict"}))
    /\ UNCHANGED <<table, logs>>

CommitFails(i) ==
    LET x == run[i] IN
    /\ StorageFaults
    /\ x.pc = "commit"
    /\ Steps(i, Concluded(x, FailureStatus, {"write_failed"}))
    /\ UNCHANGED <<table, logs>>

Record(i) == [by |-> i, id |-> LoadId(run[i]), status |-> run[i].status, alone |-> run[i].alone]

RecordLands(i) ==
    LET x == run[i] IN
    /\ x.pc = "record"
    /\ loads' = Append(loads, Record(i))
    /\ run' = [run EXCEPT ![i] = Ended(x, x.status)]
    /\ UNCHANGED <<table, sequences>>

\* log_failed beside an unchanged status; the row may be there all the same.
RecordFails(i) ==
    LET x == run[i] IN
    /\ StorageFaults
    /\ x.pc = "record"
    /\ loads' \in {loads, Append(loads, Record(i))}
    /\ run' = [run EXCEPT ![i] = Ended([x EXCEPT !.unlogged = TRUE], x.status)]
    /\ UNCHANGED <<table, sequences>>

\* SequenceResult: partial if any load went in before the one that stopped it.
SequenceStatus(x) ==
    IF Ok(x.status) THEN "applied" ELSE IF x.landed > 0 THEN "partial" ELSE "refused"

RecordSequence(i) ==
    LET x == run[i] IN
    /\ x.pc = "sequence"
    /\ Steps(i, Closed(x, "done"))
    /\ \/ sequences' = sequences \cup {[by |-> i, status |-> SequenceStatus(x), landed |-> x.landed]}
       \/ StorageFaults /\ sequences' = sequences
    /\ UNCHANGED <<table, loads>>

\* The process dies, or a read raises and takes the command with it.
Die(i) ==
    /\ run[i].pc \notin {"idle", "done", "dead"}
    /\ Steps(i, Closed(run[i], "dead"))
    /\ UNCHANGED <<table, logs>>

-----------------------------------------------------------------------------
(* Everybody else. *)

CreateTable ==
    /\ ~ exists
    /\ exists' = TRUE
    /\ UNCHANGED <<rows, history, logs, run>>

OutsideCommit(o) ==
    /\ exists
    /\ \A n \in DOMAIN history : history[n].by # o
    /\ \E key \in Keys, gone \in BOOLEAN, new \in {{}} \cup {{c} : c \in Contents} :
          rows' = {x \in rows : x.key = key => ~ gone}
                     \cup {[key |-> key, by |-> o, cells |-> cells] : cells \in new}
    /\ history' = Append(history, OutsideOf(o))
    /\ UNCHANGED <<exists, logs, run>>

Runs(i) ==
    \/ ReadLog(i) \/ CheckTable(i) \/ ReadSnapshot(i) \/ Scan(i) \/ WriteRejects(i)
    \/ Confirm(i) \/ CommitLands(i) \/ CommitConflicts(i) \/ CommitFails(i)
    \/ RecordLands(i) \/ RecordFails(i) \/ RecordSequence(i)

Next ==
    \/ \E i \in Invocations, job \in Jobs : Start(i, job)
    \/ \E i \in Invocations : Runs(i)
    \/ \E i \in Invocations : Die(i)
    \/ CreateTable
    \/ \E o \in Outsiders : OutsideCommit(o)

Spec == Init /\ [][Next]_vars

-----------------------------------------------------------------------------
(* Properties. *)

\* Types, with what a pc implies: a load that is recorded has a status, and only
\* a load that runs for real is written or recorded.
TypeOK ==
    /\ exists \in BOOLEAN
    /\ \A x \in rows : x.key \in Keys /\ DOMAIN x.cells = Columns
    /\ \A i \in Invocations :
          /\ run[i].pc \in PCs /\ run[i].status \in Statuses
          /\ run[i].pc \in {"commit", "record", "sequence"} => ~ run[i].dry
          /\ run[i].pc = "record" => run[i].status \in {"applied", "refused", "failed"}

LandingsOf(i, id) == {n \in DOMAIN history : history[n].by = i /\ history[n].id = id}

\* What the log says of a load agrees with the table: applied is one commit (or a
\* file with nothing to write), refused none, and a commit of an invocation that
\* ended is in the log as applied or failed, unless it said the log was lost
\* (runtime.py, execute and _record).
LogAgreesWithTable ==
    /\ \A m \in DOMAIN loads :
          LET landings == LandingsOf(loads[m].by, loads[m].id)
              written == Commits(Files[loads[m].id[2]], Entries[loads[m].id[1]].mode)
          IN  /\ loads[m].status = "applied" => Cardinality(landings) = IF written THEN 1 ELSE 0
              /\ loads[m].status = "refused" => landings = {}
              /\ loads[m].status = "failed" => Cardinality(landings) <= 1
    /\ \A n \in DOMAIN history :
          history[n].by \in Invocations /\ run[history[n].by].pc = "done" /\ ~ run[history[n].by].unlogged
              => \E m \in DOMAIN loads : /\ loads[m].by = history[n].by
                                         /\ loads[m].id = history[n].id
                                         /\ loads[m].status \in {"applied", "failed"}

\* A batch of which the log says that it landed, or may have, never lands after a
\* load read that: neither in a rerun of a sequence that stopped half way, nor in
\* one of a load whose write failed (log.py, landed). Except where the question
\* whether there is a log failed, and was taken for a no.
RecordedBatchLandsNoMore ==
    \A n \in DOMAIN history : \A m \in 1..history[n].seen :
        loads[m].id = history[n].id => loads[m].status = "refused" \/ history[n].blind

\* The same with no exception, as log.py has it of the log it reads: "Empty if the
\* log was never created", and of one file loaded again: "Loom answers *one*".
RecordedBatchIsRefused ==
    \A n \in DOMAIN history : \A m \in 1..history[n].seen :
        loads[m].id = history[n].id => loads[m].status = "refused"

\* A merge leaves one row for each key of its batch, with the values of the columns
\* it has no value for taken from the row that the commit replaces, whoever wrote
\* in between (runtime.py, _prepare and _carry_across).
Landing(i) == Len(history') > Len(history) /\ history'[Len(history')].by = i

MergeCarriesWhatItReplaces ==
    [][\A i \in Invocations :
          Landing(i) /\ Mode(run[i]) = "merge"
              => \A key \in KeysOf(File(run[i])) :
                    /\ Cardinality(Matching(rows', key)) = 1
                    /\ \A x \in Matching(rows, key), y \in Matching(rows', key) :
                          \A c \in Columns \ File(run[i]).columns : x.cells[c] = y.cells[c]]_vars

\* No line of a file gets lost: when a load lands, each is in the table, or was set
\* aside in a quarantine that was asked for; so a replace leaves the table empty only
\* when its file is (runtime.py, _rows and execute).
EveryLineIsLoadedOrSetAside ==
    [][\A i \in Invocations :
          Landing(i)
              => LET file == File(run[i])
                     set == {n \in Indices(file) : \A x \in Matching(rows', file.lines[n].key) : x.by # i}
                 IN  /\ set # {} => run[i].job.reject /\ set \subseteq SetAside(file)
                     /\ Cardinality(Kept(file)) = Cardinality(KeysOf(file))
                     /\ rows' = {} => Len(file.lines) = 0]_vars

\* A refused rehearsal is run for real with nobody asked. What goes in that way,
\* from the file that was rehearsed and after a log that answered, was refused for
\* what its surroundings looked like, the table or the quarantine file: never for
\* the batch, the entry or the log (sequence.py, record_stop; cli.py, cmd_ingest).
Surroundings == {"table_missing", "ambiguous_key", "source_error"}

AsRehearsed(i, id) == run[i].job.file[id[1]] = id[2]

OnlySurroundingsTurn ==
    \A n \in DOMAIN history :
        LET i == history[n].by IN
        history[n].alone /\ AsRehearsed(i, history[n].id) /\ ~ history[n].blind
            => /\ run[i].refusal \cap Surroundings # {}
               /\ run[i].refusal \subseteq Surroundings \cup RowFailures

\* What sequence.py says of that run: "the refusal is a property of the batch and the
\* log, so it refuses again".
RefusedLoadsRefuseAgain == \A n \in DOMAIN history : ~ history[n].alone

\* A load of an order that was confirmed goes in only after every load before it is
\* in, and what the record of the sequence says of them is true (sequence.py, run).
Position(i, id) == CHOOSE k \in DOMAIN run[i].job.order : run[i].job.order[k] = id[1]

Written(i, k) ==
    LET entry == run[i].job.order[k]
        name == run[i].job.later[entry]
    IN  LandingsOf(i, <<entry, name>>) # {} \/ ~ Commits(Files[name], Entries[entry].mode)

SequencesRunInOrder ==
    /\ \A n \in DOMAIN history :
          LET i == history[n].by IN
          i \in Invocations /\ ~ history[n].alone
              => \A k \in 1..(Position(i, history[n].id) - 1) : Written(i, k)
    /\ \A s \in sequences :
          /\ \A k \in 1..s.landed : Written(s.by, k)
          /\ s.status = "applied" <=> s.landed = Len(run[s.by].job.order)
          /\ s.status = "partial" => s.landed > 0
=============================================================================
