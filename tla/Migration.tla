----------------------------- MODULE Migration -----------------------------
(* loom apply and loom rollback (cli.py, migrate/executor.py, meta.py and     *)
(* rollback.py): runs that plan against the live tables of several catalogs,  *)
(* ask, change one table after another, record what they did in the history   *)
(* of each catalog, and, rolling back, restore the spec files; next to each   *)
(* other and to an operator who edits those files. Nothing spans two tables,  *)
(* or a table and the history. An operator is a process; its pc names what    *)
(* its run does next.                                                         *)
EXTENDS SchemaDiff

CONSTANTS
    Operators,
    Specs,        \* the texts the spec files may hold
    FirstSpec,    \* the one they hold first
    Ontology,     \* spec -> the ontology it declares
    Tables,       \* the tables specs declare, in the order of a plan
    CatalogOf,    \* table -> its catalog
    ReadOnly,     \* catalogs that cannot be written
    MaxRuns,      \* bound on the runs that are begun
    MaxTogether,  \* bound on the runs under way at a time
    MaxEdits,     \* bound on the edits of the spec files
    MaxFaults     \* bound on the writes that fail or lose their answer, the probes that
                  \* fail and the runs that die

TableSet == {Tables[i] : i \in DOMAIN Tables}
Catalogs == {CatalogOf[t] : t \in TableSet}
DesiredTables == [s \in Specs |-> [t \in TableSet |-> Desired(Ontology[s], t)]]
Wanted(spec, t) == DesiredTables[spec][t]

ASSUME MigrationAssumption ==
    /\ Tables \in Seq(TableSet) /\ Tables # << >>
    /\ \A i, j \in DOMAIN Tables : Tables[i] = Tables[j] => i = j
    /\ IsFiniteSet(Operators)
    /\ FirstSpec \in Specs
    /\ MaxRuns \in Nat /\ MaxEdits \in Nat /\ MaxFaults \in Nat
    /\ \A spec \in Specs :
          /\ IsFiniteSet(Declarations(Ontology[spec]))
          /\ \A d \in Declarations(Ontology[spec]) :
                d.column # NoName /\ d.type \in STRING /\ d.required \in BOOLEAN

VARIABLES
    lake,     \* the live columns of each table
    meta,     \* the rows of _loom_meta.applied of each catalog
    files,    \* the spec in the working tree
    run,      \* the state of each operator's run
    begun,    \* how many runs have begun
    edits,
    faults

vars == <<lake, meta, files, run, begun, edits, faults>>

PCs == {"idle", "diff", "confirm", "execute", "record", "restore", "done", "dead"}
Statuses == {"none", "applied", "up-to-date", "refused", "failed"}

NoPlan == [t \in TableSet |-> NoChange]
NoRenames == [t \in TableSet |-> << >>]

(* spec: what it plans for. snap: what it records; for a rollback, until it     *)
(* begins, the spec last recorded. overlay: per table, the columns of the       *)
(* target spec that have another name. at: the table it diffs or changes next.  *)
(* landed: tables changed without an error. left: what a rollback reported it   *)
(* leaves. rewrites: the spec files differed from the target. For properties:   *)
(* read and base, the rows of each history it read for a rollback and for its   *)
(* version; found, the live columns when a rollback planned; missed, the tables *)
(* that were there and were not shown to it; changed, the tables it did change; *)
(* overtaken, whether another run changed one since this one began; restored,   *)
(* whether it wrote the spec files; wrote, its rows of the histories.           *)
NoRows == [c \in Catalogs |-> 0]

Idle == [pc |-> "idle", rollback |-> FALSE, spec |-> FirstSpec, snap |-> FirstSpec,
         target |-> 0, overlay |-> NoRenames, read |-> NoRows, plan |-> NoPlan, at |-> 1,
         found |-> NoRenames, missed |-> {}, left |-> {}, rewrites |-> FALSE, version |-> 0, base |-> NoRows,
         pending |-> {}, tried |-> {}, landed |-> {}, failed |-> FALSE, unrecorded |-> FALSE,
         status |-> "none", changed |-> {}, overtaken |-> FALSE, restored |-> FALSE, wrote |-> {}]

Init ==
    /\ lake = [t \in TableSet |-> << >>]
    /\ meta = [c \in Catalogs |-> << >>]
    /\ files = FirstSpec
    /\ run = [p \in Operators |-> Idle]
    /\ begun = 0 /\ edits = 0 /\ faults = 0

Ended(x) == x.pc \in {"idle", "done", "dead"}

\* What ended runs leave for the properties is forgotten with the next step.
Lasting(x) == IF Ended(x) THEN Idle ELSE x

Steps(p, x) == run' = [q \in Operators |-> IF q = p THEN x ELSE Lasting(run[q])]

Targets(spec) == {t \in TableSet : Wanted(spec, t) # << >>}
Bound(x) == {CatalogOf[t] : t \in Targets(x.spec)}
Changes(x) == {t \in TableSet : x.plan[t].action # "none"}
Refused(x) == \E t \in TableSet : Breaking(x.plan[t])

Overlaid(x, t) == ApplyRenames(Wanted(x.spec, t), x.overlay[t])

\* What SpecErrors stop before anything is asked.
Sound(x) ==
    /\ Agree(Ontology[x.spec])
    /\ \A t \in TableSet : CheckRenames(Wanted(x.spec, t))
    /\ \A t \in Targets(x.spec) : ~OverlayClashes(Wanted(x.spec, t), x.overlay[t])

-----------------------------------------------------------------------------
(* The history. table_exists answers no to whatever goes wrong, and a history   *)
(* whose table is said not to be there is read as empty.                        *)

Recording == {c \in Catalogs : meta[c] # << >>}

\* Probes that fail in one step are one fault.
Missing(those) ==
    /\ those # {} => faults < MaxFaults
    /\ faults' = IF those = {} THEN faults ELSE faults + 1

\* What is read of a history by someone who is shown those of some catalogs.
Rows(c, shown) == IF c \in shown THEN meta[c] ELSE << >>

Versions(c) == {meta[c][i].version : i \in DOMAIN meta[c]}
VersionsIn(catalogs) == UNION {Versions(c) : c \in catalogs}
Highest(versions) == IF versions = {} THEN 0 ELSE CHOOSE v \in versions : \A w \in versions : w <= v

\* The last row of the highest version.
Latest(c, newestFirst) ==
    LET top == {i \in DOMAIN meta[c] : meta[c][i].version = Highest(Versions(c))}
    IN  meta[c][CHOOSE i \in top : \A j \in top : IF newestFirst THEN i <= j ELSE i >= j]

Stale(c, spec, newestFirst) ==
    \/ meta[c] = << >>
    \/ Latest(c, newestFirst).spec # spec
    \/ Latest(c, newestFirst).status # "applied"

Holders(version, shown) == {c \in shown : version \in Versions(c)}

\* The row of a version a catalog holds: the last of them.
Held(c, version, newestFirst) ==
    LET of == {i \in DOMAIN meta[c] : meta[c][i].version = version}
    IN  meta[c][CHOOSE i \in of : \A j \in of : IF newestFirst THEN i <= j ELSE i >= j]

OneSpec(version, shown, newestFirst) ==
    \A c, d \in Holders(version, shown) :
        Held(c, version, newestFirst).spec = Held(d, version, newestFirst).spec

\* Rows are sorted by version; those of one version come in the order of the scan.
Ahead(rows, newestFirst, i, j) ==
    \/ rows[i].version < rows[j].version
    \/ rows[i].version = rows[j].version /\ IF newestFirst THEN i > j ELSE i < j

\* The renames of a table in some of the rows; of a row, each once.
RenamesIn(rows, t, some) ==
    UNION {{[row |-> i, old |-> r.old, new |-> r.new] : r \in {q \in rows[i].renames : q.table = t}} : i \in some}

\* The order a rollback goes through them: row by row, and of one row in any.
Sorted(rows, renames, newestFirst) ==
    LET listed == SetToSeq(renames)
        Sooner(i, j) ==
            \/ Ahead(rows, newestFirst, listed[i].row, listed[j].row)
            \/ listed[i].row = listed[j].row /\ i < j
        place == [i \in DOMAIN listed |-> 1 + Cardinality({j \in DOMAIN listed : Sooner(j, i)})]
    IN  [n \in DOMAIN listed |-> listed[CHOOSE i \in DOMAIN listed : place[i] = n]]

\* A slip: the records the target already includes are gone through, not those after it.
RenamesUpTo(rows, t, version, newestFirst) ==
    Sorted(rows, RenamesIn(rows, t, {i \in DOMAIN rows : rows[i].version <= version}), newestFirst)

\* The renames a catalog recorded for a table after a version.
RenamesSince(rows, t, version, newestFirst) ==
    Sorted(rows, RenamesIn(rows, t, {i \in DOMAIN rows : rows[i].version > version}), newestFirst)

\* The names the target's columns go by now.
Back(t, shown, version, newestFirst) ==
    ReverseRenames(RenamesSince(Rows(CatalogOf[t], shown), t, version, newestFirst))

-----------------------------------------------------------------------------
(* Planning. *)

MayBegin(p) ==
    /\ Ended(run[p])
    /\ begun < MaxRuns
    /\ Cardinality({q \in Operators : ~Ended(run[q])}) < MaxTogether

Start(p, x) ==
    /\ begun' = begun + 1
    /\ Steps(p, IF Sound(x) THEN [x EXCEPT !.pc = "diff"] ELSE Idle)
    /\ UNCHANGED <<lake, meta, files, edits>>

Apply(p) ==
    /\ MayBegin(p)
    /\ Start(p, [Idle EXCEPT !.spec = files])
    /\ UNCHANGED faults

\* Every catalog's history is read once. Without --to, one version back.
Rollback(p) ==
    /\ MayBegin(p)
    /\ \E unseen \in SUBSET Recording, newestFirst \in BOOLEAN :
         LET shown == Catalogs \ unseen
             top == Highest(VersionsIn(shown))
         IN  /\ Missing(unseen)
             /\ OneSpec(top, shown, newestFirst)
             /\ \E version \in VersionsIn(shown) :
                  /\ OneSpec(version, shown, newestFirst)
                  /\ LET target == Held(CHOOSE c \in Holders(version, shown) : TRUE, version, newestFirst).spec
                         recorded == Held(CHOOSE c \in Holders(top, shown) : TRUE, top, newestFirst).spec
                     IN  Start(p, [Idle EXCEPT !.rollback = TRUE, !.spec = target, !.snap = recorded,
                                      !.target = version,
                                      !.read = [c \in Catalogs |-> Len(Rows(c, shown))],
                                      !.overlay = [t \in TableSet |-> Back(t, shown, version, newestFirst)]])

\* The tables it asks for: those to diff, and those a rollback would leave whole.
Probed(x) == Targets(x.spec) \cup (IF x.rollback THEN Targets(x.snap) ELSE {})

\* diff_ontology, one table at a time; then what a rollback will report and restore.
DiffNext(p) ==
    LET x == run[p]
        t == Tables[x.at]
    IN  /\ x.pc = "diff"
        /\ \E missed \in SUBSET {u \in Probed(x) \cap {t} : lake[u] # << >>} :
             LET live == IF t \in missed THEN << >> ELSE lake[t]
                 found == IF t \in Targets(x.spec) THEN DiffTable(Overlaid(x, t), live) ELSE NoChange
                 left == IF x.rollback
                         THEN {<<t, c>> : c \in LeftBehind(Wanted(x.snap, t), Wanted(x.spec, t),
                                                           Overlaid(x, t), live)}
                         ELSE {}
                 planned == [x EXCEPT !.plan[t] = found, !.found[t] = IF x.rollback THEN lake[t] ELSE @,
                                      !.missed = @ \cup missed, !.left = @ \cup left]
             IN  /\ Missing(missed)
                 /\ Steps(p, IF x.at < Len(Tables) THEN [planned EXCEPT !.at = @ + 1]
                             ELSE [planned EXCEPT !.pc = "confirm", !.at = 1,
                                                  !.rewrites = x.rollback /\ files # x.spec])
        /\ UNCHANGED <<lake, meta, files, begun, edits>>

\* A breaking plan is not asked about, and neither is an apply with nothing to do.
Asked(x) == ~Refused(x) /\ (x.rollback \/ Changes(x) # {})

Decline(p) ==
    /\ run[p].pc = "confirm" /\ Asked(run[p])
    /\ Steps(p, Idle)
    /\ UNCHANGED <<lake, meta, files, begun, edits, faults>>

-----------------------------------------------------------------------------
(* Execution. *)

\* A slip: only the runs that were applied count.
VersionOfApplied(x, unseen) ==
    1 + Highest(UNION {{meta[c][i].version : i \in {j \in DOMAIN meta[c] : meta[c][j].status = "applied"}} :
                          c \in Bound(x) \ unseen})

\* One past the highest version any catalog of the plan has recorded, as far as it is shown.
Version(x, unseen) == 1 + Highest(VersionsIn(Bound(x) \ unseen))

Pending(x, snap, unread, newestFirst) ==
    {c \in Bound(x) : \/ c \in unread \/ Stale(c, snap, newestFirst)
                      \/ \E t \in Changes(x) : CatalogOf[t] = c}

\* A slip: only a rollback that went well restores them.
FinishIfOk(x, status) ==
    [x EXCEPT !.status = status,
              !.pc = IF x.rollback /\ status \in {"applied", "up-to-date"} THEN "restore" ELSE "done"]

\* touched_nothing leaves the files alone; anything else of a rollback restores them.
Finish(x, status) ==
    LET nothing == status \in {"refused", "failed"} /\ x.landed = {}
    IN  [x EXCEPT !.status = status, !.pc = IF x.rollback /\ ~nothing THEN "restore" ELSE "done"]

ChangesFrom(x, i) == {j \in i .. Len(Tables) : Tables[j] \in Changes(x)}

\* A slip: the tables the plan leaves alone are edited as well.
OnwardEveryTable(x, i) ==
    IF i > Len(Tables) THEN [x EXCEPT !.pc = "record"] ELSE [x EXCEPT !.pc = "execute", !.at = i]

\* The next table the plan changes; after the last, the record.
Onward(x, i) ==
    IF ChangesFrom(x, i) = {} THEN [x EXCEPT !.pc = "record"]
    ELSE [x EXCEPT !.pc = "execute",
                   !.at = CHOOSE j \in ChangesFrom(x, i) : \A k \in ChangesFrom(x, i) : j <= k]

BeginRefused(x) == Refused(x) \/ Bound(x) \cap ReadOnly # {}

\* Confirmed, apply_plan up to its first write. An apply reads the spec files again here.
\* The histories are read twice, for the version and for what is on record.
Begin(p) ==
    LET x == run[p]
        snap == IF x.rollback THEN x.spec ELSE files
        history == IF BeginRefused(x) THEN {} ELSE Bound(x) \cap Recording
    IN  /\ x.pc = "confirm"
        /\ \E newestFirst \in BOOLEAN, unseen \in SUBSET history, unread \in SUBSET history :
             LET pending == Pending(x, snap, unread, newestFirst)
                 chosen == [x EXCEPT !.snap = snap, !.version = Version(x, unseen), !.pending = pending,
                                     !.base = [c \in Catalogs |-> Len(Rows(c, Catalogs \ unseen))]]
             IN  /\ Missing(unseen \cup unread)
                 /\ Steps(p, IF BeginRefused(x) THEN Finish(x, "refused")
                             ELSE IF Changes(x) = {} /\ pending = {} THEN Finish(chosen, "up-to-date")
                             ELSE Onward(chosen, 1))
        /\ UNCHANGED <<lake, meta, files, begun, edits>>

Tried(x, ok) ==
    [x EXCEPT !.tried = @ \cup {Tables[x.at]}, !.failed = @ \/ ~ok,
              !.landed = IF ok THEN @ \cup {Tables[x.at]} ELSE @]

\* A slip: a table that failed does not stop the run.
AfterTablePushingOn(x, ok) == Onward(Tried(x, ok), x.at + 1)

\* The run stops at the first table that fails.
AfterTable(x, ok) ==
    IF ok THEN Onward(Tried(x, TRUE), x.at + 1) ELSE [Tried(x, FALSE) EXCEPT !.pc = "record"]

Executing(p) == run[p].pc = "execute"
NextChange(p) == run[p].plan[Tables[run[p].at]]

\* The planned change is made to the table as it is now, in one transaction.
TableLands(p, answered) ==
    LET x == run[p]
        t == Tables[x.at]
    IN  /\ Executing(p)
        /\ Accepts(lake[t], NextChange(p))
        /\ ~answered => faults < MaxFaults
        /\ faults' = IF answered THEN faults ELSE faults + 1
        /\ lake' = [lake EXCEPT ![t] = Altered(lake[t], NextChange(p))]
        /\ run' = [q \in Operators |->
            IF q = p THEN AfterTable([x EXCEPT !.changed = @ \cup {t}], answered)
            ELSE IF Ended(run[q]) THEN Idle ELSE [run[q] EXCEPT !.overtaken = TRUE]]
        /\ UNCHANGED <<meta, files, begun, edits>>

TableFails(p) ==
    LET refusal == ~Accepts(lake[Tables[run[p].at]], NextChange(p))
    IN  /\ Executing(p)
        /\ refusal \/ faults < MaxFaults
        /\ faults' = IF refusal THEN faults ELSE faults + 1
        /\ Steps(p, AfterTable(run[p], FALSE))
        /\ UNCHANGED <<lake, meta, files, begun, edits>>

-----------------------------------------------------------------------------
(* The record. *)

RowStatus(x) ==
    IF ~x.failed THEN "applied" ELSE IF x.landed # {} THEN "partial" ELSE "failed"

\* A failed table is in the summary too, with the renames it was planned to make.
RenamesOf(x, c) ==
    UNION {{[table |-> t, new |-> r.column, old |-> r.from] : r \in OfKind(x.plan[t], "rename")} :
               t \in {u \in x.tried : CatalogOf[u] = c}}

\* live: for properties, the columns of the catalog's tables as the row is written.
Row(x, c) ==
    [version |-> x.version, spec |-> x.snap, status |-> RowStatus(x), renames |-> RenamesOf(x, c),
     live |-> [t \in {u \in TableSet : CatalogOf[u] = c} |-> lake[t]]]

\* Catalogs are recorded in the order the plan came to them.
NextCatalog(x) ==
    LET first == CHOOSE i \in DOMAIN Tables :
                    /\ CatalogOf[Tables[i]] \in x.pending /\ Tables[i] \in Targets(x.spec)
                    /\ \A j \in 1 .. i - 1 :
                         ~(CatalogOf[Tables[j]] \in x.pending /\ Tables[j] \in Targets(x.spec))
    IN  CatalogOf[Tables[first]]

\* After the last catalog the run is over.
Recorded(x, ok) ==
    LET then == [x EXCEPT !.pending = @ \ {NextCatalog(x)}, !.unrecorded = @ \/ ~ok]
    IN  IF then.pending # {} THEN then
        ELSE Finish(then, IF then.failed \/ then.unrecorded THEN "failed" ELSE "applied")

RecordLands(p, answered) ==
    LET x == run[p]
        c == NextCatalog(x)
    IN  /\ x.pc = "record"
        /\ ~answered => faults < MaxFaults
        /\ faults' = IF answered THEN faults ELSE faults + 1
        /\ meta' = [meta EXCEPT ![c] = Append(@, Row(x, c))]
        /\ Steps(p, Recorded([x EXCEPT !.wrote = @ \cup {<<c, Len(meta[c]) + 1>>}], answered))
        /\ UNCHANGED <<lake, files, begun, edits>>

RecordFails(p) ==
    /\ run[p].pc = "record"
    /\ faults < MaxFaults
    /\ faults' = faults + 1
    /\ Steps(p, Recorded(run[p], FALSE))
    /\ UNCHANGED <<lake, meta, files, begun, edits>>

\* The files that differed when the plan was made are written over.
Restore(p) ==
    LET x == run[p]
    IN  /\ x.pc = "restore"
        /\ files' = IF x.rewrites THEN x.spec ELSE files
        /\ Steps(p, [x EXCEPT !.pc = "done", !.restored = TRUE])
        /\ UNCHANGED <<lake, meta, begun, edits, faults>>

Die(p) ==
    /\ run[p].pc \in {"execute", "record", "restore"}
    /\ faults < MaxFaults
    /\ faults' = faults + 1
    /\ Steps(p, [Idle EXCEPT !.pc = "dead"])
    /\ UNCHANGED <<lake, meta, files, begun, edits>>

Edit ==
    /\ edits < MaxEdits
    /\ edits' = edits + 1
    /\ files' \in Specs \ {files}
    /\ run' = [q \in Operators |-> Lasting(run[q])]
    /\ UNCHANGED <<lake, meta, begun, faults>>

Next ==
    \/ \E p \in Operators :
        \/ Apply(p) \/ Rollback(p) \/ DiffNext(p) \/ Decline(p) \/ Begin(p)
        \/ TableFails(p) \/ RecordFails(p) \/ Restore(p) \/ Die(p)
        \/ \E answered \in BOOLEAN : TableLands(p, answered) \/ RecordLands(p, answered)
    \/ Edit

Spec == Init /\ [][Next]_vars

-----------------------------------------------------------------------------
(* Properties. *)

Idents == [id : Nat \ {0}, type : STRING, required : BOOLEAN]

TypeOK ==
    /\ files \in Specs
    /\ begun \in 0 .. MaxRuns /\ edits \in 0 .. MaxEdits /\ faults \in 0 .. MaxFaults
    /\ \A t \in TableSet : \A c \in DOMAIN lake[t] : lake[t][c] \in Idents
    /\ \A c \in Catalogs : \A i \in DOMAIN meta[c] :
          /\ meta[c][i].version \in 1 .. MaxRuns
          /\ meta[c][i].spec \in Specs
          /\ meta[c][i].status \in {"applied", "partial", "failed"}
    /\ \A p \in Operators :
          /\ run[p].pc \in PCs /\ run[p].status \in Statuses
          /\ run[p].at \in DOMAIN Tables
          /\ run[p].landed \subseteq run[p].tried /\ run[p].tried \subseteq Changes(run[p])
          /\ run[p].pending \subseteq Catalogs
          /\ run[p].pc \in {"execute", "record"} => ~Refused(run[p])

(* No migration loses what a table stores, whatever the lake has become since  *)
(* it was planned: a column keeps its field id, only ever widens and is never  *)
(* made required, and two columns never share an id.                           *)
NothingStoredIsLost ==
    [][\A t \in {u \in TableSet : lake'[u] # lake[u]} :
        /\ \A c \in DOMAIN lake[t] : \E d \in DOMAIN lake'[t] :
              /\ lake'[t][d].id = lake[t][c].id
              /\ Alterable(lake[t][c].type, lake'[t][d].type)
              /\ lake'[t][d].required => lake[t][c].required
        /\ \A c, d \in DOMAIN lake'[t] : lake'[t][c].id = lake'[t][d].id => c = d]_vars

(* Two renames of a plan take one column: a rollback's renames are held against  *)
(* the columns of the spec it restores, and not against the renames of that spec. *)
Contested(x) ==
    \E t \in TableSet : \E c, d \in OfKind(x.plan[t], "rename") : c.from = d.from /\ c # d

\* What nothing validates: each property has a column to plan, and no other makes a key's optional.
Plannable(ontology) ==
    \A p \in ontology.properties :
        /\ p.type # Virtual
        /\ p.key => \A d \in Wanting(ontology, p.table, p.column) : d.required

Executed(x) == x.version # 0 /\ x.pc \in {"record", "restore", "done"}

(* "Re-running is safe because the plan is re-derived": a run that no table     *)
(* stopped and no other run overtook leaves nothing to plan for its spec; one   *)
(* apply is enough, whatever renames, promotions and loosenings it combines, as  *)
(* long as no two of its renames take one column; and the validator's check of   *)
(* the live tables, which shares no code with the plan, has no error left where  *)
(* there was a column to plan for each property (executor.py; validator.py,      *)
(* check_physical).                                                              *)
AppliedMeansLive ==
    \A p \in Operators :
        Executed(run[p]) /\ ~run[p].failed /\ ~run[p].overtaken /\ ~Contested(run[p]) =>
            \A t \in Targets(run[p].spec) :
                /\ DiffTable(Overlaid(run[p], t), lake[t]) = NoChange
                /\ Plannable(Ontology[run[p].spec]) =>
                       PhysicallySound(Ontology[run[p].spec], t, lake[t])

(* The row a run records says what happened to the lake: applied, every change  *)
(* of the plan was made; partial, some were; failed, none but one whose answer  *)
(* was lost. No table behind one that failed was changed, and each rename that  *)
(* was made is in the row, from which a rollback finds the way back.            *)
HistoryTellsWhatLanded ==
    \A p \in Operators : \A written \in run[p].wrote :
        LET x == run[p]
            c == written[1]
            row == meta[c][written[2]]
        IN  /\ row.status = "applied" => x.changed = Changes(x)
            /\ row.status = "partial" => x.changed # {} /\ x.landed # Changes(x)
            /\ row.status = "failed" => x.changed \subseteq {Tables[x.at]}
            /\ \A i1, i2 \in DOMAIN Tables :
                  i1 < i2 /\ Tables[i1] \in Changes(x) /\ Tables[i2] \in x.changed =>
                      Tables[i1] \in x.landed
            /\ \A t \in x.changed : \A r \in OfKind(x.plan[t], "rename") :
                  CatalogOf[t] = c => [table |-> t, new |-> r.column, old |-> r.from] \in row.renames

(* The version a run records is past every version it read in that history when *)
(* it chose it, whether those runs were applied or failed. Two migrations of a   *)
(* catalog share a number, or take them out of order, only when they overlap, or *)
(* when a probe fails and a history is read as empty (meta.py, history).         *)
VersionsPassWhatWasRecorded ==
    \A p \in Operators : \A written \in run[p].wrote :
        LET c == written[1]
        IN  \A i \in 1 .. run[p].base[c] : meta[c][i].version < meta[c][written[2]].version

(* "version 7" has to name the same apply in every lake the spec touches          *)
(* (executor.py): no two runs record one version in a history. A run writes one  *)
(* row there. It holds of runs that do not overlap and read their histories.      *)
VersionNamesOneApply ==
    \A c \in Catalogs : \A i, j \in DOMAIN meta[c] :
        i # j => meta[c][i].version # meta[c][j].version

(* A rollback that ends after it changed a table has restored the spec files,    *)
(* whatever error it reports, save in one case: the only table it changed is the *)
(* one it stopped at, whose answer was lost. It restores them only if it changed *)
(* a table or had none to change.                                                *)
FilesFollowTheLake ==
    \A p \in Operators :
        LET x == run[p]
        IN  x.rollback =>
            /\ x.pc = "done" /\ x.changed # {} /\ ~x.restored =>
                  x.failed /\ x.landed = {} /\ x.changed = {Tables[x.at]}
            /\ x.restored => x.changed # {} \/ Changes(x) = {}

(* "The lake is identical either way": where a rollback says that nothing was    *)
(* rolled back and leaves the spec files, no table has changed (cli.py).         *)
FilesLeftMeanLakeLeft ==
    \A p \in Operators :
        LET x == run[p]
        IN  x.rollback /\ x.pc = "done" /\ ~x.restored => x.changed = {}

\* Columns of a table that the run will leave live and its spec no longer maps.
Stranded(x, t) ==
    LET after == IF x.plan[t].action = "none" THEN lake[t] ELSE Altered(lake[t], x.plan[t])
    IN  {c \in DOMAIN after : c \in DOMAIN Wanted(x.snap, t) /\ c \notin DOMAIN Wanted(x.spec, t)}

Foretelling(x) == x.rollback /\ x.pc = "confirm" /\ ~x.overtaken /\ ~Refused(x)

(* A rollback names every column it strands: mapped by the spec the lake was at, *)
(* live after the run, and not mapped by the spec it restored. Provided it was   *)
(* shown the table: table_exists answers no to an error (rollback.py).           *)
RollbackNamesWhatItStrands ==
    \A p \in Operators : Foretelling(run[p]) =>
        \A t \in TableSet \ run[p].missed : \A c \in Stranded(run[p], t) : <<t, c>> \in run[p].left

(* "What it cannot reverse it says, rather than fakes" (rollback.py): also of a   *)
(* table it asked for and was not shown.                                          *)
RollbackSaysWhatItCannotReverse ==
    \A p \in Operators : Foretelling(run[p]) =>
        \A t \in TableSet : \A c \in Stranded(run[p], t) : <<t, c>> \in run[p].left

-----------------------------------------------------------------------------
(* The way back. *)

Became(earlier, later, n, m) ==
    n \in DOMAIN earlier /\ m \in DOMAIN later /\ earlier[n].id = later[m].id

Tells(earlier, later, renames) ==
    /\ \A n \in DOMAIN earlier, m \in DOMAIN later :
          Became(earlier, later, n, m) /\ n # m => \E r \in renames : r.old = n /\ r.new = m
    /\ \A r \in renames : r.new \in DOMAIN later => Became(earlier, later, r.old, r.new)

Before(c, x) == SubSeq(meta[c], 1, x.read[c])

\* Every rename of t is in the rows the rollback read, in the order it was made.
RenamesAreTold(t, x) ==
    LET rows == Before(CatalogOf[t], x)
    IN  /\ rows # << >>
        /\ \A i \in 2 .. Len(rows) :
              /\ rows[i - 1].version < rows[i].version
              /\ Tells(rows[i - 1].live[t], rows[i].live[t], {r \in rows[i].renames : r.table = t})
        /\ Tells(Last(rows).live[t], x.found[t], {})

\* A name that one column gave up and another took.
NameIsReused(t, x) ==
    LET rows == Before(CatalogOf[t], x)
        times == {rows[i].live[t] : i \in DOMAIN rows} \cup {x.found[t]}
    IN  \E early, late \in times : \E n \in DOMAIN early \cap DOMAIN late :
            early[n].id # late[n].id

\* A rename that was planned and not made, and is in the history all the same.
ClaimsAFailedRename(t, x) ==
    LET rows == Before(CatalogOf[t], x)
    IN  \E i \in DOMAIN rows : \E r \in rows[i].renames :
            r.table = t /\ r.new \notin DOMAIN rows[i].live[t]

BringsBack(t, x) ==
    \A i \in DOMAIN Before(CatalogOf[t], x) :
        LET row == Before(CatalogOf[t], x)[i]
        IN  row.version = x.target =>
            \A n \in DOMAIN row.live[t] \cap DOMAIN Wanted(x.spec, t) :
                lake[t][n].id = row.live[t][n].id

RolledBack(x) == x.rollback /\ Executed(x) /\ ~x.failed /\ ~x.overtaken /\ ~Contested(x)

(* After a rollback each column of the restored spec is the column it was at     *)
(* that version, with its values, however many renames lie between: provided     *)
(* the rows it read of the history tell them all and claim none that failed, no  *)
(* name was given up and taken again, and no two renames of the plan take one    *)
(* column. A history that a failed probe hid from it was not read, and tells it  *)
(* nothing (meta.py, history).                                                   *)
RollbackFindsTheColumns ==
    \A p \in Operators : RolledBack(run[p]) =>
        \A t \in Targets(run[p].spec) :
            RenamesAreTold(t, run[p]) /\ ~ClaimsAFailedRename(t, run[p]) /\ ~NameIsReused(t, run[p]) =>
                BringsBack(t, run[p])

(* TableOutcome: "The renames this table performed [...] as data, because          *)
(* `rollback` has to *invert* it". Renames that were only planned do not bend the  *)
(* way back: a rollback of a rollback that failed finds the columns too.           *)
RenamesLeadBack ==
    \A p \in Operators : RolledBack(run[p]) =>
        \A t \in Targets(run[p].spec) :
            RenamesAreTold(t, run[p]) /\ ~NameIsReused(t, run[p]) => BringsBack(t, run[p])

(* "The information is already in the history Loom itself wrote, so rollback reads *)
(* it, composes the chain, inverts it" (rollback.py): a rollback finds the columns *)
(* that the rows on record lead back to, those it was shown or not. Judged before  *)
(* it adds rows of its own.                                                        *)
HistoryLeadsBack ==
    \A p \in Operators : RolledBack(run[p]) /\ run[p].wrote = {} =>
        LET x == [run[p] EXCEPT !.read = [c \in Catalogs |-> Len(meta[c])]]
        IN  \A t \in Targets(x.spec) :
                RenamesAreTold(t, x) /\ ~ClaimsAFailedRename(t, x) /\ ~NameIsReused(t, x) =>
                    BringsBack(t, x)
=============================================================================
