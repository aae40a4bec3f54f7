# A verification of loom-ontology in TLA+

`loom` puts an ontology (object types, links, actions) over Apache Iceberg tables. It
keeps no database of its own: every fact it relies on is a table in the catalog, and
every guarantee it makes rests on the one atomic thing the catalog offers, a commit that
asserts the snapshot it was built on. This directory models that program with TLA+,
checks it with TLC and proves what matters most with TLAPS. All paths below are relative
to the repository (`src/loom/...` is the package, `docs/` its specification).

## 1. Inventory

| Component | State it keeps | Operations |
|---|---|---|
| action runtime (`action/runtime.py`, `action/result.py`) | none between runs; one `_Run` per attempt holds the snapshot, the row, the values | `ActionRuntime.run`: bind, read the snapshot, read the row, policy, rules, effect, prune the vector, guarded commit, retry on conflict, record |
| edit log (`action/log.py`) | table `_loom_meta.edits` | `EditLog.record` (with retries), the start-up checks `require_edit_log`, `require_principal_column` |
| catalog adapter (`catalog/base.py`, `pyiceberg_catalog.py`) | the Iceberg tables, their snapshots and schemas | `table_exists`, `scan`, `current_snapshot_id`; guarded `insert_row`/`replace_row`/`delete_row` and their bulk forms; `create_table`, `alter_table`; appends to the three logs; vector verbs |
| embedding (`embed/`) | one sidecar table of vectors per semantic type | `reconcile` (prune, then embed what is missing or stale in batches), `match` |
| bulk ingest (`ingest/runtime.py`, `log.py`) | table `_loom_meta.loads` | plan, prepare, append / merge / replace, record; a load has an id so that it can be run again |
| load sequence (`ingest/sequence.py`) | none | loads one after the other, stops at the first that is not applied |
| migrations (`migrate/executor.py`, `meta.py`, `rollback.py`, `diff.py`, `schema.py`) | table `_loom_meta.versions` | diff, apply step by step, record the version, plan a rollback |
| governance (`governance.py`, `predicate.py`) | immutable policies | which rows a principal may see, which columns are masked, which actions it may run |
| queries (`resolver.py`, `filters.py`, `negotiate.py`, `query/`) | none | compile a governed read, scan the tables, join |
| authentication (`auth.py`) | the cached key set of the issuer | `key_for`, `_fetch` |
| MCP server (`mcp/`) | the registry built at start-up | which principal a call is decided for; exposes the above as tools |
| command line (`cli.py`) | none | preview, confirm, run |
| loading, validation, configuration, inference (`loader.py`, `validator.py`, `config.py`, `infer.py`, `expr.py`) | none | deterministic transformations of files |

**How they interact.** Everything is a call into the catalog adapter; there is no lock, no
queue and no background thread of Loom's own. The concurrency is between *processes*: an MCP
server running actions for several callers, a `loom ingest`, a `loom embed`, a `loom apply`
and every other engine that writes the same tables. Within one operation the catalog
calls are separate, so anything may happen between two of them.

**What is hard.** Two optimistic writers on one table; a retry that must decide again and
not replay; a commit whose answer is lost; a process that dies between a commit and its
record; a schema change, which moves no snapshot; an existence probe that answers *no* on
any error; a sidecar table that is not in the transaction of its base table; log appends
that are repeated; multi-table operations that fail half way. Hardly any of that is
reachable by a unit test, which runs one operation against an in-memory catalog.

**What makes each component correct.** Action runtime: an edit is atomic, refusals are true, the
report agrees with the table, every ended run is on record, every run ends. Sidecar: a vector
belongs to a row that exists and to its current text, and to one model. Ingest: the log agrees with the
table, a batch the log knows lands no more, a merge loses no column it was not given and no competing row. Sequence: a load
goes in after those before it. Migrations: the version history says what happened to the lake. Rollback: the columns it gives back are
the ones the version had. Governance: a predicate that is undecided admits nothing, the read plane and the write plane
answer alike, and a masked value cannot be told from any answer. Key cache: a key is accepted only when the issuer served it.

`PROJECT.json` lists every component with its status, and every hazard with its line.

## 2. Plan

| # | Modules | Subject | State |
|---|---|---|---|
| 1 | `ActionRules`, `ActionRuntime`, `AtomicEdits`; proofs `ActionRuntimeProof`, `ActionRefinement` | action runtime, edit log, the guarded row verbs, schema change | done |
| 2 | `EmbedReconcile`, `EmbedChecks`; proof `EmbedReconcileProof` | reconciles of the sidecars next to deletes, edits, a second model and each other | done |
| 3 | `IngestRules`, `IngestRuntime`; proof `IngestRuntimeProof` | append, merge and replace loads and sequences of them: rehearsal, confirmation, crash between commit and record, competing loads | done |
| 4 | `SchemaDiff`, `Migration`; proofs `MigrationProof`, `MigrationAppliedProof` | several tables altered in turn, failure half way, two operators, the version history, rollback | done |
| 5 | `Predicates`, `Governance`, `GovernedReads`; proof `GovernedReadsProof` | three-valued predicates and their two lowerings; admission, masking, claims; the reads that use them, table by table | done |
| 6 | `KeyCache`; proof `KeyCacheProof` | the key cache and its refetch window | done |
| 7 | `ToolSurface` | which tools the server announces for a caller, and what it makes of their arguments | left |

No module declares a `RECURSIVE` operator: what the code computes by recursion is a recursive function or a fold.

## 3. The action runtime

`ActionRules` is the pure part of a run: `Decision` is `_Run.execute` from the row it read to
the refusal or the go-ahead, `Rewrite` is what the three guarded row verbs do to the rows,
and `ModifiedCells`/`Carried` are `_columns` and `_batch`, which carry every column by *name*.
Rows have a key, the commit that wrote them, one declared column and one unmapped one (which
stands for every column a write has to carry across). Rules, effect expressions and row policies are
given as sets and functions of the property value, so TLC chooses among them.

`ActionRuntime` is one run per process. Its `pc` names the catalog call it makes next:

    idle --Start--> snapshot --ReadSnapshot--> row --ReadRow--> [prune --Prune-->] commit
         CommitLands / CommitFails / last CommitConflicts --> record --RecordLands/RecordErrs--> done
         CommitConflicts before the last attempt --> snapshot     Die --> dead

| Variable | In the code |
|---|---|
| `exists`, `rows`, `history`, `renamed` | the backing table: whether it was created, its physical rows, its snapshots (stamped with the edit id in the commit summary), the columns that changed their name since the ontology was loaded |
| `vectors` | the keys in the sidecar, only as far as a delete prunes it |
| `editLog` | `_loom_meta.edits` |
| `run[r]` | the locals of `ActionRuntime.run` and the current `_Run` |

What is computed between two catalog calls belongs to the step of the earlier one. `OutsideCommit` is
any other writer (it appends, overwrites, deletes or rewrites files), `CreateTable` and
`RenameColumn` are `loom apply`. Faults are constants: `StorageFaults` (a call fails, or succeeds and its
answer is lost), `FlakyProbe` (`table_exists` answers *no* for a table that is there; it swallows every exception),
`Renamable` (which columns may be renamed under a run). A process may always die.

`AtomicEdits` is what the runtime promises: an edit is *one* step, decided and computed against the rows in the table at
that step, or nothing. `EditsAreAtomic` is the refinement, with the verdict of a run read off the history and
its outcome.

Left out: how a conflict is worded (a further read that changes no state), the values of the log record beyond
edit, outcome and attempts, and a flaky commit that lands after it was reported. `CommitConflicts` is a snapshot that moved; the adapter makes a
conflict of every `CommitFailedException` (`pyiceberg_catalog.py:417`), so also of a metadata-only commit, of a table that was dropped and made again, and of a
metastore that was updated by another process. Such a conflict is retried in the same way, and section 12 says what it means for the report.

## 4. The vector sidecars

`EmbedReconcile` is `loom embed` (`embed/runtime.py`) with the store and the catalog verbs below it. A sidecar is a table of its
own and in no transaction with the table whose text it holds, so the module is about what separate commits
leave behind. A reconcile is a process, run again and again; its `pc` names the catalog call it makes next:

    idle/done/dead --Start--> check --CheckModel, type by type--> text --ReadText--> stored --ReadStored-->
      [prune --Prune-->] [ensure --Ensure--> [create --CreateSidecar-->]
                          embed --ReadSnapshot--> merge --Merge--> embed ...] --> text of the next type, or done
    merge --MergeConflicts--> done (conflict)     CallFails --> done (failed)     Die --> dead

| Variable | In the code |
|---|---|
| `rows`, `moved` | per type and key the texts of its rows (two is a duplicated key, which `_current_text` leaves out), and how many commits the table has had |
| `created`, `sidecar`, `commits` | the sidecar tables, their vectors and how many commits each has had. A vector carries text and model, which is what `source_hash` tells apart, and two histories the code does not keep: the commit its text was read at and the commit that stored it |
| `recon[p]` | the locals of `reconcile`, `_one` and `_write`: `current`, `orphans`, `pending`, the snapshot to assert, what has landed and been counted, the status |
| `erasure[e]` | a delete action of `ActionRuntime`, reduced to the three calls a reconcile can come between: read the snapshot and the row, prune the vector, remove the row or start over |

`EmbedChecks` adds one history to it, `checked`: what each run had been shown of a sidecar when it checked its model. `Passes` is a `CheckModel` that goes on, and every
other step is one of `EmbedReconcile`.

`Edit` is anybody else's commit to a backing table. `Onward` is the loop over the types; it forgets what was read of a
type, which the code does by leaving `_one`. `CallFails` is any call that raises with nothing done; `Prune` and `Merge` may also land and
raise. With `FlakyProbe` `table_exists` may answer *no* for a sidecar that is there. `MaxCommits`, `MaxEdits` and `MaxFaults`
bound the instances; `MaxCommits` only keeps further runs from starting.

Left out: the providers (a model call is a step that may fail), vector widths, `match`, which writes nothing, and wording.

## 5. Ingest and sequences

`IngestRules` is the pure part of a load: which failures a file has (`ColumnFailures`, `TableFailures`, `LineFailures`), which a
quarantine absorbs, the rows it prepares and what each mode leaves in the table. A file is a list of lines, each with a key and
whether it fits its property; a cell holds the name of whoever gave it its value, which is what "carried across" is about.

`IngestRuntime` runs commands: one load, or a sequence of loads, of `cli.py`. A command rehearses every load (`dry`), asks, and
then runs them. Its `pc`:

    idle --Start--> landed --ReadLog--> table --CheckTable--> [snapshot --ReadSnapshot--> [scan --Scan-->]] [rejects --WriteRejects-->]
      rehearsed: the next load, or confirm --Confirm--> landed for real, or done
      for real:  commit --CommitLands / CommitConflicts / CommitFails--> record --RecordLands / RecordFails--> the next load,
                 or [sequence --RecordSequence-->] done                     Die --> dead

| Variable | In the code |
|---|---|
| `exists`, `rows`, `history` | the table, its rows, and its snapshots with the load that made each |
| `loads`, `sequences` | `_loom_meta.loads` and `_loom_meta.sequences` |
| `run[i]` | the locals of `cmd_ingest` or `cmd_sequence`, `SequenceRun` and `_Load`; `alone` marks the one load that is run for the record because its rehearsal was refused, `blind` one that was told there is no load log |

A file is read for the rehearsal and again for the run, and may be another by then (`job.file`, `job.later`; `FileName` says which one a load reads). `table_exists`
answers *no* to any error: under `StorageFaults` a table may be taken for missing (`CheckTable`), and so may the load log, whose history is then read as empty (`Recorded`).

Any load that is refused goes to its record, except in a rehearsal and except when its entry withholds it before it has an id.
Only a replace and a merge assert a snapshot; an append does not. Left out: explicit load ids, file formats, the wording of
failures, and the value of the log record beyond its id and status.

## 6. Migrations

`SchemaDiff` is planning: the tables an ontology wants (`Desired`), the renames an overlay puts back, the diff (`DiffTable`), what the catalog
accepts and does with it (`Accepts`, `Altered`), what a rollback leaves behind, the validator's check of the live tables
(`PhysicallySound`), and `ReverseRenames`. A live column has a field id, so that a column and its name are two things.

`Migration` is `loom apply` and `loom rollback`:

    idle --Apply / Rollback--> diff --DiffNext, table by table--> confirm --Begin / Decline--> execute --TableLands / TableFails, table
      by table--> record --RecordLands / RecordFails, catalog by catalog--> [restore --Restore-->] done        Die --> dead

| Variable | In the code |
|---|---|
| `lake` | the live columns of each table: field id, type, required |
| `meta` | `_loom_meta.applied` of each catalog, in the order it was appended; a scan may return rows of one version in either order |
| `files` | the specification in the working tree, which an `Edit` may replace at any time |
| `run[p]` | the locals of `cmd_apply`/`cmd_rollback`, `apply_plan` and `_execute`, with a few histories for the properties |

`table_exists` answers *no* to any error, of a history as of a table. A history that is not shown is read as empty (`Rows`): by a rollback, which reads each once (`unseen` in `Rollback`),
and by `apply_plan`, which reads them twice, for the version and for what is on record (`unseen` and `unread` in `Begin`). A table that is not shown is planned as one to create and is in no report of a rollback (`missed`
in `DiffNext`). Probes that fail in one step are one fault.

Reading the spec files again in `Begin`, choosing the version from the catalogs the plan is bound to, stopping at the first table that
fails and restoring the files whenever something has landed are all as in the code. Left out: actor, time and hashes of a version row, and rendering.

## 7. Governed reads

`Predicates` is `predicate.py`: which expressions a policy may hold (`FitsRows`, `FitsGuard`), what the evaluator of the write plane makes of
one row (`Truth`: true, false or undecided, where a null, a missing claim or an ordering without meaning is undecided), folding in the caller's claims (`Fold`), and what the SQL of the read plane makes of the
same tree (`SqlTruth`, with DuckDB's own ranks for NaN). An expression is the sequence of its nodes, each after the nodes it connects, so that what a tree means is a function on its
places. `Governance` is `governance.py`: parsing and binding a program of policies, the columns a mask
hides, which policies apply to a caller (those whose guard is true *or undecided*), and which predicates govern a type.

A number is of one of two kinds on one line: *exact* (int, long, decimal) or *double*. The write plane compares the two exactly, as Python does; the engine compares an exact column with a bound
double after a cast (`SqlSame`, `AsDouble`), which may make it another number. NaN is a kind of its own.

`GovernedReads` answers calls. `Ask` is the resolver up to the compiled query or its refusal; `Scan` is one table of the query, read
by DuckDB's engine with the equalities pushed down (`Meeting`) and, for a get, no more than `GetLimit` rows of them, whichever they are (`Fetched`); what it brings back is
registered under a fixed alias on the one connection. `Execute` is the SQL over what is
registered: the governance clause (`Shown`), the joins and filters (`Answering`), every order the rows may come in when some compare equal (`Rankings`), the page
(`Paged`) and the columns the mask leaves (`Projected`). `Edit` is another writer between any two of them.

`OntologyAssumption` and `CasesAssumption` say what these are about: properties have types the loader knows, links arrive at properties, a policy has at most one row predicate, and the
parser builds its nodes bottom up (`IsExpression`); a table has a column of the right type for every property, which is what the physical check asks for (`IsTable`).

| Variable | In the code |
|---|---|
| `case` | the deployment: policies, the caller, the calls it will make |
| `table`, `con` | the tables, and what the connection has registered under each alias, which stays until it is replaced |
| `call`, `pending`, `answer` | the call, the aliases it has still to scan, what it returned |
| `seen` | what each scan found in its whole table; for the properties |

Left out: wording, result types, engine negotiation, the embedding providers (a match whose provider fails is refused), and an `int` or `long` column under a property declared `double`, which the physical check admits
(`types.py:177`): a value here is of the kind its property declares.

## 8. The key cache

`KeyCache` is `_Jwks` and the bearer check of `auth.py`. A token is a key id, the key that signed it, whether its algorithm is
accepted and whether its claims are sound. `verify_token` does not await, so one call is in progress: `Verify` with a known key, `Refuse` inside the window, `StartFetch`
after it, then `Fetched` or `FetchFails`, and `Return`. `Tick` is the clock, `Rotate` and `Outage` the issuer.

| Variable | In the code |
|---|---|
| `keys`, `age` | `_Jwks._keys`, and the time since `_fetched_at`, up to the window |
| `call` | the token being verified, and how long its fetch has waited |
| `published`, `up` | outside: the issuer's document, and whether it answers |
| `served`, `trusted`, `rest`, `took` | not in the code, for the properties: the last document served, the keys believed and not withdrawn since, how long the issuer has been left alone, how long its last answer took |

Nothing bounds a fetch. `urlopen(timeout=...)` (`auth.py:343`) is a timeout for each read of the socket, so an issuer that answers a little at a time holds the call, and the server with it, for as long as it
likes: `FetchFails` may come at any time, and `waited` counts up to the window.

## 9. What the runs show

| Run | Question | Result |
|---|---|---|
| `action_atomic` | two runs over creates, modifies, governed deletes and modifies, another key and previews, next to two outside commits, with the real `MAX_ATTEMPTS` of 3: is every edit atomic, judged and written on current rows, is a conflict reported only to a run that was overtaken once per attempt? | holds |
| `action_faults` | failing storage, lost answers, flaky probe, a column renamed, unbindable calls, recorded previews, processes dying: does the report still agree with the table, and is every ended run on record? | holds |
| `action_liveness` | do runs that race each other under storage faults end? | holds |
| `embed_erasure` | one operator embeds again and again in batches of one, with either model, failing and dying part-way, next to a delete and edits: does a run lose only to others, and where can a vector come from that outlives its erased row? | holds: only from a run the delete overtook |
| `embed_models` | two reconciles at once of two types and two models, `--remodel` or not, batches of one, flaky probe: does a refusal for the model mean nothing was written, and when does a vector come to lie beside those of another model? | it does, and only when the run was told to remodel, or its check was not shown them |
| `embed_converges` | two reconciles for ever, racing, two edits, a fault: does the sidecar come level with the text and stay? | holds |
| `ingest` | two commands, each a load or a sequence, with rerun, race, refused rehearsal, a file replaced after it, quarantine, a table or a log taken for missing, lost answers and deaths, next to another writer and the migration that creates the table: does the log agree with the table, is a recorded batch kept out, does a sequence keep its order, does a merge carry what it replaces, is no line lost? | holds, of a log that was shown |
| `migrate` | two operators apply and roll back three specs of two tables in two catalogs, with tables, records and probes that fail, deaths and an edit of the files: does the history say what landed, does an apply leave nothing to do and a lake the validator accepts, does a rollback find its columns, name what it strands and leave the files with the lake? | holds, of what it was shown and of changes that answered |
| `reads` | every predicate and guard of a bounded language over rows with nulls, every kind of read under masks and policies, commits between the scans of a read, two calls on one connection: does a read show, in order and whole, the rows the same caller's actions may touch; can a missing claim show more; can a mask be read through? | holds, apart from orderings of booleans, NaN, and exact numbers that a cast to double moves |
| `keys` | two keys, rotation, outage, forged and unsound tokens: who is believed, who is turned away, how often is the issuer asked, and is a new key known in the end? | holds |
| `planes_disagree` | `predicate.py:36`: the planes agree | violated: a predicate that orders two booleans is decided by the engine and undecided for the evaluator |
| `renames_lead_back` | `migrate/executor.py:65`: the renames a table *performed* are recorded, for a rollback to invert | violated: a rollback that failed is recorded with renames it never made, and the next one makes a new column instead of finding the old |

**Claims that fail.** The configurations below are kept beside the runs. Each checks one property that states what a doc or a
comment says and that the code does not keep; TLC refutes it (`tlc -config <file> <module>`) with the behaviour in the last column.
The runs above check what does hold in its place, with its condition, and section 12 lists the same behaviours.

| Configuration | Module | Property | Claim | What happens |
|---|---|---|---|---|
| `DecimalsDisagree.cfg` | `MCGovernedReads` | `PlanesAgree` | `predicate.py:36`: the planes agree, of a decimal property and a fractional literal (`types.py:171` admits them) | `object.total >= 0.1` withholds the decimal 0.10 from an action and shows it to a read |
| `EmbedFirstRuns.cfg` | `MCEmbedReconcile` | `OneModelUnlessRemodel` | `embed/runtime.py:430`: of interleaved reconciles, "a differing model is refused before either writes" | two first runs both check an empty sidecar, and it ends with vectors of both models |
| `UnaskedLoad.cfg` | `MCIngestRuntime` | `RefusedLoadsRefuseAgain` | `ingest/sequence.py:298`: a load that was refused in its rehearsal "refuses again" | its table is found by then, and it lands with nobody asked |
| `BlindLog.cfg` | `MCIngestRuntime` | `RecordedBatchIsRefused` | `ingest/log.py:94` and `:190`: one batch is one load; a log reads as empty "if the log was never created" | the question for the log fails, and a recorded batch lands |
| `FilesStayBehind.cfg` | `MCMigration` | `FilesLeftMeanLakeLeft` | `cli.py:1461`: where nothing was rolled back, "the lake is identical either way" | the first table did change, and its answer was lost |
| `OneVersionTwoApplies.cfg` | `MCMigration` | `VersionNamesOneApply` | `migrate/executor.py:144`: "version 7" names the same apply everywhere | two applies that overlap record one version in one history |
| `StrandedUnsaid.cfg` | `MCMigration` | `RollbackSaysWhatItCannotReverse` | `migrate/rollback.py:16`: "What it cannot reverse it says" | a table whose probe failed is in no report, nor are the columns stranded in it |
| `HistoryUnseen.cfg` | `MCMigration` | `HistoryLeadsBack` | `migrate/rollback.py:11`: rollback reads the history, "composes the chain, inverts it" | one catalog's history is taken for missing, and new columns are made instead of finding the old |

**Bounds of the action runs.** Two runs are enough for every pairwise race, and outside commits stand for any third writer; one run can be
overtaken three times (twice by outsiders, once by the other run), which is what `MaxAttempts = 3` needs. Each
outside author commits once, which bounds `history`. Two keys tell "of its own key" from "any row"; two values and null
tell a fresh read from a stale one (`Flip` reads what it changes). `action_faults` has one key and one outsider, as its properties
are about one run's report. Runs and outsiders are symmetric; the liveness run uses no symmetry.

**Bounds of the embed runs.** `embed_models` and `embed_converges` have two reconciles, which gives every race of two.
`embed_erasure` has one, whose races are with the delete, and its properties are proved for any number of reconciles.
`embed_models` has one model beside `--remodel` to the other and a probe that lies, and two commits a sidecar, so that a remodel may stop half way;
it has no edits, which no check of a model reads. `EmbedFirstRuns.cfg` is the smallest instance of two models without `--remodel`. Two keys with batches of one make a type take two merges, so that the second
asserts a snapshot the first moved; two types put a written type before an unchecked one. `MaxCommits` of 4 lets one process fill,
fail, be erased and refill. One edit overtakes a read; the two in `embed_converges` let a text change and change back
between a read and a merge. One fault is a call that fails, one that lands and raises, or a death. `embed_converges` has no
delete: the row without a vector that a stopped delete leaves is the state every instance starts in.

**Bounds of the ingest run.** Two commands are a rerun after a crash, a race of two loads or a sequence that overtakes a load; the outsider
commits once, before a command's read or between its read and its commit. The files are a good one, one that lacks a column, one with lines
to set aside beside a good line, one with nothing else, and one that repeats a key, which is every outcome of `LineFailures`. Each mode is in the jobs, and
each of the two sequences has a load that may stop behind one that landed. One job finds another file at the path when it is run than the one it rehearsed. `missing_column` needs a column that is not in every deployment (`Orphaned`, `Demanded`), and is left empty here: it refuses
before anything is read, as `table_missing` does.

**Bounds of the migrate run.** Three runs (`MaxRuns`) are apply, apply and roll back, or two that overlap and one after them; `MaxTogether` of two is every pairwise race.
Two tables in two catalogs make an apply fail half way and two histories part. One spec renames a column and adds another, and can be rolled back; the
other also widens and loosens, and cannot. One edit changes the files under a confirmation, and one fault is a table or record that fails, loses its answer,
or a death. `ReadOnly` is empty, as it only refuses. `renames_lead_back` is one operator and one table with four runs: apply, rename, a rollback that fails and one that does not. `HistoryUnseen.cfg`, `StrandedUnsaid.cfg` and `OneVersionTwoApplies.cfg` are instances of `migrate` or of that one with their own property; with `MaxTogether` of one and no faults `VersionNamesOneApply` holds. One
fault of `migrate` may also be a probe that fails, of one history, of several at once, or of a table. The conditions of `RollbackFindsTheColumns` were found, and checked to be enough, on two further instances of five runs, one fault and three edits, a spec that renames twice and one that gives a name up and takes it again (about a million states each).

**Bounds of the reads run.** Predicates are all comparisons of four left sides with fourteen right sides, their negations, and all connections of
six chosen leaves with those and their negations: deeper trees repeat the same three-valued steps. The table under them has a row for each mix of null and two values of
an enum, a double and an owner. Four callers are nobody, a token without claims, one with every claim, and one with a claim of the wrong type. One edit stands between
any two scans. On the number line of the runs every other place is a double, and a decimal tenth lies beside the double it is cast to, above or below. Sessions of two calls are enough for a registration of the first to be there at the second.

**Bounds of the keys run.** Two keys rotate; a window of four ticks lets a fetch end within the window, as it closes, and after. All but
`NewKeyIsKnown` is proved for any keys and windows.

**Fairness of the action runs.** `FairSpec` has weak fairness on the steps of each run that has started: it is straight-line code
in a thread, and every catalog call returns or raises. Nothing is fair about starting, dying, schema changes or
other writers. `EveryRunEnds` therefore says that the retry loop and the log loop are bounded.

**Fairness of the embed runs.** A reconcile that has started is straight-line code (weak fairness on its steps), and
`loom embed` is the cron job of `embed/runtime.py:146`: strong fairness on starting one that is not a preview, strong because
previews may come in between and disable it. Deletes and edits are not fair, and there are finitely many edits and faults: a table
that is edited for ever, or a catalog that fails for ever, need not converge. The probe is truthful in every embed run but
`embed_models`: when it lies a run takes a written sidecar for an unwritten one, and is refused although nobody else committed.

**Fairness of the keys run.** The clock runs, an issuer that is up finishes its answer in the end, and a call returns (weak fairness). A fetch need not end
when the issuer does not answer. A client with a genuine token asks again and again: strong fairness, as other calls come between. That is an assumption about a client, not something the code
does, and the least the property needs, since the cache is only filled by being asked.
The issuer is not fair: `NewKeyIsKnown` speaks of keys that are published, by an issuer that answers, for good from some point on.

`CHECK_DEADLOCK FALSE`: a system whose runs have all ended and whose writers have all written may stop. `keys` checks deadlock.

## 10. What is proved

For any sets of runs, outsiders, keys, values and jobs and any attempt bounds (`RulesAssumption`, `RuntimeAssumption`):

| Theorem | Needs | Says |
|---|---|---|
| `TypeCorrect` | | `Spec => []TypeOK` |
| `OutcomeAgrees` | | `Spec => []OutcomeAgreesWithHistory`, under every fault |
| `ReadStaysCurrent` | truthful probe | `Spec => []ReadIsCurrent` |
| `NoDuplicateKeys` | truthful probe | `Spec => []LoomNeverDuplicatesAKey` |
| `RowPolicyHolds`, `UnmappedIsCarried` | truthful probe, no renames | the two action properties |
| `ImplementsAtomicEdits` | truthful probe, no renames | `Spec => EditsAreAtomic`, the refinement |
| `EndedRunsAreLogged` | | `Spec => []EndedRunsAreAccountedFor`, under every fault |
| `ConflictsAreLostRaces` | truthful probe | `Spec => []ConflictMeansOvertaken` |

Under the faults that the side conditions leave out the properties fail; section 12 says how.

*Argument.* `ReadInv` strengthens `ReadIsCurrent` with: a snapshot that was read is never ahead of the table's, a table
that was not created is empty, a run has one job. It is inductive because the snapshot is read *before* the
rows: any commit in between moves the table past the snapshot, and then there is nothing left to claim.
`OutcomeInv` adds that a run that has not concluded has outcome `none`; then its commit is its first. `KeysInv` adds that every
row's author is in the history, so a run that has not committed owns no row. `DryInv` says that a
run about to write is not a preview. `CommitKnows` and `CommitRows` turn these into what a landing commit does, and the refinement
maps it to `Take`, a refused or previewed `ReadRow` to `Decline` or `Preview`, every other end to `Abandon`, other writers to
`OutsideWrite`, and the rest to stutters. `AttemptInv` counts: a run on its n-th attempt has seen its table at n-1 commits at least when it
reads the snapshot, and at n when it gives up, none of them its own.

For any types, keys, texts, models, options, batch size, reconciles, deletes and bounds (`EmbedAssumption`), in `EmbedReconcileProof`:

| Theorem | Needs | Says |
|---|---|---|
| `TypeCorrect` | | `Spec => []TypeOK` |
| `ErasureOvertaken` | | `Spec => []OnlyOvertakenRunsOutliveAnErasure`, under every fault |
| `OwnCommitsNeverConflict` | truthful probe | `Spec => []NeverRefusesItself` |
| `RefusalIsHonest` | | `Spec => []ModelRefusalWroteNothing`, whatever the probe answers |
| `ModelsMeetUnseenAlways` | | `ChecksSpec => ModelsMeetUnseen`, for any number of reconciles at once and whatever the probe answers |

*Argument.* `ErasureInv` says that the texts a run holds are the table's unless the table has moved since (`ReadInv`), that no vector
is newer than its table (`VectorInv`), and that after the prune every vector of the key has a later commit number and,
while the table stays as the delete left it, an earlier read (`ErasedInv`). A merge after the row went can therefore hold the
erased text only if it read before. Two lemmas, `ReconcileReads` and `ReconcileWrites`, tell all eleven steps of a reconcile apart by what
they do to what was read and to the sidecar; the invariants then need no case per action. `OwnIn` counts a run's own commits since it read the
sidecar: the snapshot it asserts is at least that many later, so a mismatch is somebody else's. `HonestIn` says that a run still checking models has
written nothing. `CheckedInv` says that a run past its check that was not told to remodel
has seen no other model up to the commit its check was shown: whatever it stores a vector beside came later, or was hidden.

For any files, entries, jobs, sequences, outsiders and columns (`IngestAssumption`, `RulesAssumption`), under every fault modelled, in `IngestRuntimeProof`:

| Theorem | Says |
|---|---|
| `IngestTypes` | `Spec => []TypeOK` |
| `LogAgrees` | `Spec => []LogAgreesWithTable` |
| `RecordedBatchesStayOut` | `Spec => []RecordedBatchLandsNoMore`, of a log that was shown |
| `UnaskedOnlyWhereSurroundingsTurned` | `Spec => []OnlySurroundingsTurn`, of a file that is still the one rehearsed and a log that was shown |
| `OrdersAreKept` | `Spec => []SequencesRunInOrder` |
| `MergesCarry`, `NoLineIsLost` | the two action properties |

*Argument.* One inductive invariant, `IInv`. `Screened` and `Counted` say what a command has found out and where in its order it is when each step is due.
`AccountInv` ties a command to the histories: a load ahead of it has no commit and no record, one behind it is in, one about to be recorded has
exactly the commits its status promises, and every commit of a command that goes on is on record or about to be. Everything else follows from these by the place `k` of a load in the order:
`OrderInv` carries them over to commits and sequence records that are there. `LogInv` keeps what a load read of the log, unless it was told there is none (records are only appended), `AloneInv` why a rehearsal was
refused, `ReadInv` that what a merge read is what it replaces while its snapshot is the table's. TLC checked `IInv` on the whole `ingest` instance first.

For any specs, tables, catalogs, operators and bounds (`MigrationAssumption`), under every fault modelled, in `MigrationProof` and `MigrationAppliedProof`:

| Theorem | Says |
|---|---|
| `MigrationTypes` | `Spec => []TypeOK` |
| `VersionsPass` | `Spec => []VersionsPassWhatWasRecorded`, of the rows that were read |
| `FilesFollow` | `Spec => []FilesFollowTheLake`, with its one exception of a lost answer |
| `HistoryTells` | `Spec => []HistoryTellsWhatLanded` |
| `RollbackNames` | `Spec => []RollbackNamesWhatItStrands`, of the tables it was shown |
| `NothingIsLost` | the action property `NothingStoredIsLost` |
| `AppliedIsLive` | `Spec => []AppliedMeansLive` |
| `ColumnsAreFound` | `Spec => []RollbackFindsTheColumns`, for any number of renames, rows and tables, of the rows that were read |

*Argument.* `IInv` has a part per thing a run is about. `Stage` says where its tables stand: what has landed is what the plan changes before `at` (`UpTo`), all of it when the run
was not stopped (`Whole`), and the tables before the one that failed when it was (`Halted`). `Told` says that each row it wrote is in its history, past the rows it chose its version from;
`Seen` what a rollback has planned of a table and named of it; `Live` that field ids are distinct and within the number of columns, which is why the next ids are fresh; `Counted` that versions never pass the runs that
began. Three pieces are about `SchemaDiff` alone: `AlteredLive` and `AlteredLosesNothing` for any change a catalog accepts, planned or not, and `StrandedAreNamed`, that `LeftBehind`
computed before the change is what is left after it.

`AppliedMeansLive` needs a second invariant, `Level`, the first half of `Levels`: while nobody overtakes a run and no table fails, the tables it has come to are as it planned them, and those that landed need
nothing more. A table it was not shown is planned as one to create (`PlannedFor`), which the live table refuses (`PlannedAccepts`), so a run that no table stopped was shown all it had to change. What makes it inductive is `AppliedSettles`: the diff of a table after its plan was made, in whatever mix of additions, renames, promotions and loosenings, is empty. It
falls into what the changes of one column are when none is breaking (`UnbrokenChangesAre`), what the catalog makes of an added and of a kept column (`AddedTyped`, `KeptTyped`), and
that an empty diff is the same as every column having its name, type and mode (`SettledIf`, `SettledMeans`), from which `SettledIsSound` gets what the validator asks for.

`RollbackFindsTheColumns` needs the other half, `Way` and `Lasts`. What a rollback goes back by is composed from the rows it read, and rows are only appended, so it stays what it was (`Led`). No
column of a row is missing from a later row or from the lake (`Lasts`, by `AlteredLosesNothing`), so the columns it planned from (`found`) hold every one of them, and until another run
overtakes it a table is as it was found or as the plan makes it (`FoundAs`). From there on it is about one table, and pure:
- A history that tells its renames (`Recounted`) is a `Chronicle`: the columns of the table at each row, each field id under one name at a time, and the renames in an order that goes row by
  row. That order is the place of each rename among the others (`PlacesAre`, `SortedIs`), whichever order the scan returned them in.
- Composing keeps one entry of the chain for each column that was renamed, from the name it first had to the name it last got (`IsChain`, kept by `ExtendIs` for the next rename).
  The renames of one column are linked, each from the name the one before gave it (`RenamesLink`), and a name stays where nothing is told of it (`NameStays`). That `ReverseRenames` takes
  all these steps is shown for its function, which is unique (`Extending`), by the least place at which the chain could fail.
- So the overlay has the name a column has now for the name it had then, or nothing when they are the same (`WayBackIs`), and the plan drawn with it leaves that column under the old name
  with its field id (`ColumnComesBack`).

TLC checked `Levels` on the `migrate` instance and on one with two renames.

Proving these changed the model. The renames of a history are sorted by their places and composed by a recursive function, where the model had used the library's sort, a choice among
permutations, and its fold. And it was too kind to the code in two places: the catalog keeps the *last* of two renames of one column (`NewName`), so two renames may contend for it
(`Contested`); and a property may have no column to plan (`Plannable`). Both are in section 12.

For any keys, any window and fetches of any length (`NoKidAssumption`, `ClockAssumption`), in `KeyCacheProof`:

| Theorem | Says |
|---|---|
| `TypeCorrect` | `Spec => []TypeOK` |
| `BelievedSafety` | `Spec => []BelievesOnlyTheLastKeySet` |
| `OutageSafety` | `Spec => []OutageLogsOutNobody`, under any rotation and outage |
| `SpacingSafety` | `Spec => []FetchesAreSpaced`: the issuer rests for the window, less what its last answer took |

*Argument.* The properties speak of the answer and of histories, so each needs what ties those to the cache. `SetIsLastServed` says that what is cached is the
last document; `TrustedIsKnown` that a trusted key is cached and still published, so that no answer to its token is a refusal and no fetch drops it;
`FetchIsForUnknown` that whoever waits for a fetch asked for a key outside the cache. `AgeLeads` bounds how far the age of the set, counted from
before the request, runs ahead of the issuer's rest, counted from its answer: by no more than that answer took. After one that took a whole window the issuer may be asked again at once.
`SettleIsSound` does for the three actions that answer what they have in common.

For any ontology, policies, claims, tables, calls, other writers and page sizes (`OntologyAssumption`, `CasesAssumption`), in `GovernedReadsProof`:

| Theorem | Says |
|---|---|
| `AnswersWhatActionsAdmitAlways` | `Spec => []AnswersWhatActionsAdmit`, for predicates of any depth, any cast of exact numbers to doubles, and rows in which no policy orders booleans, meets a NaN or compares with a double an exact number that the cast moves (`PlanesShareAnOrder`), and a get that read all of its key |
| `MissingClaimShowsNoMoreHolds` | `Spec => []MissingClaimShowsNoMore`, with no such condition |
| `MaskedIsUnreadableAlways` | `Spec => []MaskedIsUnreadable`, likewise |
| `ServingAlways` | `Spec => []Serving`, the inductive invariant |

*Argument.* `Serving` says that a call that is being answered compiled for this caller, that the tables it has scanned and has still to scan are those of its query, and that what the
connection holds under the alias of a scanned table is what this call fetched, not what an earlier call left there; an answer is one of the `Answers` from that. It is needed because the
properties speak of `seen`, and only `Execute` looks at the connection, after any number of edits. TLC checked it on the sessions and on the deployments without an embedding first. The rest is about
the operators:
- *The planes agree.* `LeavesDecide` carries agreement on the leaves of an expression up to its root, so the planes only have to agree on one comparison: a folded claim against a
  column, a column against a literal, a claim against a literal, with null or a claim that is missing on either side. Policies are selected by the same guard in both, and a policy that
  applies on *undecided* contributes the same predicate.
- *Nothing is lost on the way.* An equality pushed down to a scan is asked again by the query, so the rows it kept out would have gone anyway; a get that reads at most its limit reads
  every row of its key. The page is cut from the governed rows, and a page shorter than its size ends the result.
- *A claim less.* Each leaf then answers as before or is undecided. The connectives preserve that order, so a guard that was true or undecided is never false, and a
  predicate is true only where it was.
- *A mask.* `Swapped` exchanges a withheld value and null in every row. It is its own inverse, and each stage of a query commutes with it because none looks at the column: the predicates do not name it,
  a filter on it was refused, no link, key or ranking uses it (binding refused the mask otherwise), and the projection drops it. So rankings of the one are, row by row, rankings of the other.

Where a fact is about every node of a tree or every place of a ranking, it is proved by the least place at which it fails (`LeastNumber`, `NoneWithoutLesser`), which needs no
induction theorem.

Proving these changed the model: expressions became sequences of nodes, a ranking a set of orders in place of one chosen order (SQL's `ORDER BY` decides nothing between equal rows), and the limit of a get
part of its scan and not of its query, which is where the code has it. With that the property needed a condition, and section 12 says why.

Only model-checked: liveness, which is `EveryRunEnds`, `SidecarConverges` and `NewKeyIsKnown`. It rests on fairness, hence on `ENABLED`, which the prover does not handle. Every safety invariant
and action property of the passing runs is a theorem.

## 11. Files

The `MC` modules give the constants of the instances (`KeyCache` needs none); the `.cfg` of a run is named in `PROJECT.json`. Check a module with, for example,
`tlc -config ActionAtomic.cfg MCActionRuntime`, the proofs with `tlapm ActionRefinement.tla` (and `ActionRuntimeProof`, which it
extends), `tlapm EmbedReconcileProof.tla`, `tlapm GovernedReadsProof.tla`, `tlapm KeyCacheProof.tla`, `tlapm IngestRuntimeProof.tla` and
`tlapm MigrationAppliedProof.tla` (and `MigrationProof`, which it extends). Comments that begin "A plausible bug" or "A slip" introduce deliberately wrong variants of a definition, which
show that the properties can fail.

## 12. Known gaps in the code

What the models say the code does not do, and which of it a violation run or a configuration of section 9 shows. The properties above are stated so that these stay visible in
their conditions; each was found as a counterexample or read off the source while modelling.

*Action runtime and edit log.*
- A column renamed between a modify's read and its commit is written back as null: `_batch` carries columns by name, and a schema change moves no snapshot.
- A probe that answers *no* on any error lets two creates of one key both land.
- An append to the edit log that landed and raised is repeated, so a run may have two records.
- A conflict is also reported when a commit failed for another reason (`pyiceberg_catalog.py:417`), so it need not mean that somebody changed a row. `ConflictMeansOvertaken` is about the snapshot only.
- A run that dies before its record is in no log; only the stamp of its commit tells (`OutcomeAgreesWithHistory`).

*Embedding.*
- Two first reconciles with different models both find the sidecar empty, and both write (`EmbedFirstRuns.cfg`). A remodel that dies half way leaves both models as well; that the next one finishes it is not checked.
- A reconcile that had read the text merges it after a delete's prune, and the vector outlives the erased row until the next reconcile.
- The counts of batches that landed are lost when a later batch fails.

*Ingest.*
- A crash between commit and record, a log append that failed, or two appends of one batch at the same time put a batch in twice.
- A load log that is taken for missing is read as empty: a recorded batch goes in again (`BlindLog.cfg`), also one whose rehearsal was refused as a duplicate.
- A load whose rehearsal was refused is run for real with nobody asked, to record the refusal; when its surroundings, or the file, have changed by then, it goes in (`UnaskedLoad.cfg`; `cli.py:699`, `sequence.py`, `record_stop`).
- The file is read again after the confirmation (`ingest/runtime.py:259`), so what lands need not be what was previewed.
- A column renamed between a merge's scan and its commit is lost, as for a modify.

*Migrations.*
- The next version is one past those read of the catalogs the plan is bound to, and nothing guards it: overlapping applies share a number (`OneVersionTwoApplies.cfg`), and one whose history is taken for missing starts at 1 again.
- A history that is taken for missing hides its renames from a rollback, which makes new columns and reports applied (`HistoryUnseen.cfg`); of what is on record it hides it from an apply, which writes a row it need not have written.
- A table that is taken for missing is planned as one to create, which fails there after the tables before it have landed; a rollback's report does not name what it strands in it (`StrandedUnsaid.cfg`).
- A rollback that reads the history between another apply's change and its record does not see the rename; one whose record failed is missing from the history for good.
- A lost answer on the first table of a rollback counts as nothing touched, and the files stay although the lake has moved (`FilesStayBehind.cfg`; `cli.py:1461`: "The lake is identical either way").
- An apply reads the spec files again after its confirmation, so what is recorded need not be what was planned.
- A primary key that shares its column with a nullable property is made optional.
- A property whose `objectRef` names no object type is given no column: "The referential pass already reported it" (`migrate/schema.py:123`), but that pass only looks at the parameters of actions (`validator.py:244`). The apply reports applied, and `validate --physical` misses the column.
- The renames a rollback composes are held against the columns of the spec it restores (`migrate/schema.py`, `apply_renames`: "Rule 10 (spec §2) again"), not against that spec's own `renamedFrom` or each other. Two may then take one live column: the catalog keeps the last, the other column does not come to be, and the rollback reports applied.
- A name that one column gave up and another took, renamed again, takes the place of the first in the composed chain, and the wrong column comes back under it.
- A failed apply's renames are on record as well: when another attempt renamed the column otherwise, a later rollback follows the wrong one.

*Reads and governance.*
- A get scans two rows of its key (`limit=2` in `query/engines/duckdb.py`, `_compile_get`) and governs what it has scanned. Where a key has three rows, the two that were scanned may be withheld and
  hide the one its caller may see, or be one of each, and that one is answered without the error its duplicate calls for, although the limit is two so that "the resolver needs to *see* a duplicate primary
  key" (`duckdb.py:149`). `ReadsAllOfItsKey` is that condition.
- A filter `{"contains": null}` looks for the text `None`.
- NaN is above every number for the engine and in no order for the evaluator.
- A decimal, or an integer too large for a double, is compared with a fractional literal exactly by the evaluator and after a cast by the engine (`DecimalsDisagree.cfg`).

*Authentication.*
- The timeout of a fetch is one for each read of the socket: an issuer that answers a little at a time holds `verify_token`, and with it the event loop, without limit. The window is counted from before the request, so after an answer that
  took as long as the window the issuer may be asked again at once.
- A fetch that failed opens no window, so an outage lets every unknown key id cause a fetch, in spite of the docstring.
- A withdrawn key is believed until an unknown one makes the set be fetched again.

*MCP server.*
- `offset: null` raises in the handlers, although `registry.py`, `argument_refusal`, has null ask for the default.
- A wrongly typed but falsy `filter` or `via` is dropped by `args.get("filter") or {}` and the call is answered unfiltered.

## 13. Not modelled

The tools the MCP server announces and its argument checks (module 8 of the plan); parsing and checking of spec files and configuration beyond policies and the physical check; the on-ramp
inference, which prints a draft; the expression parser and the arithmetic of rules and effects, which are sets and functions in the action models; engine negotiation;
explicit load ids and file formats; the embedding providers; the start-up checks `require_edit_log` and `require_principal_column`. They are deterministic and keep no state between calls.
Signature verification, HTTP, Iceberg's commit protocol and DuckDB's execution belong to libraries and are
taken as their callers use them.
