------------------------- MODULE IngestRuntimeProof -------------------------
(* IngestRuntime's properties for any files, entries, commands, invocations    *)
(* and other writers, under every fault it models. An invocation is described   *)
(* by what its own record says (RunInv), by what the table and the logs say of   *)
(* it (AccountInv, AloneInv), and by what it read (ReadInv).                     *)
EXTENDS IngestRuntime, FiniteSetTheorems, TLAPS

-----------------------------------------------------------------------------
(* Types. *)

Authors == Invocations \cup Outsiders

CellValues == Invocations \cup {NoValue} \cup {cells[c] : cells \in Contents, c \in Columns}

Row == [key: Keys, by: Authors, cells: [Columns -> CellValues]]

Failures ==
    {"masked_property", "duplicate_load", "unmapped_column", "missing_column", "table_missing",
     "type_error", "null_key", "duplicate_key", "ambiguous_key", "empty_replace", "source_error",
     "conflict", "write_failed"}

Ids == (DOMAIN Entries) \X (DOMAIN Files)

RunState ==
    [pc: PCs, job: JobRecords \cup {NoJob}, at: Nat, dry: BOOLEAN, alone: BOOLEAN, snap: Nat,
     read: SUBSET Row, status: Statuses, why: SUBSET Failures, refusal: SUBSET Failures,
     seen: Nat, blind: BOOLEAN, landed: Nat, unlogged: BOOLEAN]

Commit == [by: Authors, id: Ids \cup {<< >>}, alone: BOOLEAN, seen: Nat, blind: BOOLEAN]

LoadRecord ==
    [by: Invocations, id: Ids, status: {"applied", "refused", "failed"}, alone: BOOLEAN]

TableInv ==
    /\ exists \in BOOLEAN
    /\ rows \subseteq Row /\ IsFiniteSet(rows)
    /\ history \in Seq(Commit)
    /\ loads \in Seq(LoadRecord)

-----------------------------------------------------------------------------
(* What the record of a run says by itself. *)

Running(x) == x.pc \notin {"idle", "done", "dead"}

\* The load can be written as far as its file and its table's schema go.
Passable(x) ==
    /\ ColumnFailures(File(x)) = {}
    /\ Mode(x) = "merge" \/ Orphaned = {}
    /\ Absorbed(LineFailures(File(x)), x.job.reject)

\* What each step has found when it is due.
Screened(x) ==
    /\ x.pc = "table" => x.why = ColumnFailures(File(x))
    /\ x.pc \in {"snapshot", "scan"} => x.why = LineFailures(File(x))
    /\ x.pc \in {"snapshot", "scan", "rejects", "commit"} => Passable(x)
    /\ x.pc \in {"rejects", "commit"} => /\ ~ Empties(File(x), Mode(x))
                                         /\ Absorbed(x.why, x.job.reject)
    /\ x.pc = "snapshot" => Mode(x) # "append"
    /\ x.pc = "scan" => Mode(x) = "merge"

\* How many loads are in, and where the order is.
Counted(x) ==
    /\ x.dry => ~ x.alone /\ x.landed = 0
    /\ ~ x.dry /\ ~ x.alone /\ x.pc # "sequence" => x.landed = x.at - 1
    /\ x.pc = "sequence" => /\ ~ x.alone /\ x.job.sequence
                            /\ x.status \in {"applied", "refused", "failed"}
                            /\ x.landed = IF Ok(x.status) THEN x.at ELSE x.at - 1
                            /\ Ok(x.status) => x.at = Len(x.job.order)

RunInv(x) ==
    /\ x \in RunState
    /\ Running(x) => /\ x.job \in Jobs /\ x.at \in DOMAIN x.job.order
                     /\ Counted(x)
                     /\ Screened(x)
    /\ x.pc \in {"commit", "record", "sequence"} => ~ x.dry
    /\ x.pc = "confirm" => x.dry
    /\ x.pc = "record" => x.status \in {"applied", "refused", "failed"}

-----------------------------------------------------------------------------
(* What the table and the logs say of an invocation. *)

\* As it is run, and not as it was rehearsed.
IdAt(x, k) == <<x.job.order[k], x.job.later[x.job.order[k]]>>

\* The loads of the order that it has still to write or refuse.
Ahead(x) ==
    {k \in DOMAIN x.job.order :
        Running(x) /\ x.pc # "sequence" /\ (x.dry \/ x.at < k \/ (x.at = k /\ x.pc # "record"))}

\* The loads that are in, as it says.
Behind(x) == {k \in DOMAIN x.job.order : Running(x) /\ ~ x.dry /\ ~ x.alone /\ k <= x.landed}

LoggedBy(i, id) == {m \in DOMAIN loads : loads[m].by = i /\ loads[m].id = id}

OfOrder(x, id) == \E k \in DOMAIN x.job.order : id = IdAt(x, k)

\* A status and what it promises of the commits it is reported for.
Agrees(status, landings, written) ==
    /\ status = "applied" => IF written THEN \E n \in landings : landings = {n} ELSE landings = {}
    /\ status = "refused" => landings = {}

\* The load at this place of its order is in, or had nothing to write.
In(i, x, k) ==
    \/ LandingsOf(i, IdAt(x, k)) # {}
    \/ ~ Commits(Files[IdAt(x, k)[2]], Entries[IdAt(x, k)[1]].mode)

AccountInv(i, x) ==
    /\ \A n \in DOMAIN history : history[n].by = i => x.pc # "idle" /\ OfOrder(x, history[n].id)
    /\ \A m \in DOMAIN loads : loads[m].by = i => x.pc # "idle" /\ OfOrder(x, loads[m].id)
    /\ \A id \in Ids : LandingsOf(i, id) = {} \/ \E n \in DOMAIN history : LandingsOf(i, id) = {n}
    /\ \A k \in Ahead(x) : LandingsOf(i, IdAt(x, k)) = {} /\ LoggedBy(i, IdAt(x, k)) = {}
    /\ \A k \in Behind(x) : In(i, x, k)
    /\ x.pc = "record" =>
          /\ LoggedBy(i, LoadId(x)) = {}
          /\ Agrees(x.status, LandingsOf(i, LoadId(x)), Commits(File(x), Mode(x)))
    /\ \A m \in DOMAIN loads : loads[m].by = i =>
          Agrees(loads[m].status, LandingsOf(i, loads[m].id),
                 Commits(Files[loads[m].id[2]], Entries[loads[m].id[1]].mode))
    /\ \A n \in DOMAIN history : history[n].by = i =>
          \/ x.unlogged \/ x.pc = "dead"
          \/ x.pc = "record" /\ history[n].id = LoadId(x) /\ x.status \in {"applied", "failed"}
          \/ \E m \in LoggedBy(i, history[n].id) : loads[m].status \in {"applied", "failed"}

\* What a load found in the log is what the log says of its batch to that point.
LogInv(x) ==
    /\ x.seen <= Len(loads)
    /\ x.pc \in {"table", "snapshot", "scan", "rejects", "commit"} =>
          \A m \in 1..x.seen :
              loads[m].id = LoadId(x) => loads[m].status = "refused" \/ x.blind

\* A refusal that says its surroundings were the matter, and nothing else.
TurnsOnly(refusal) ==
    refusal \cap Surroundings # {} /\ refusal \subseteq Surroundings \cup RowFailures

\* Why a load was refused, or what refuses it again.
Justified(x, refusal) ==
    \/ TurnsOnly(refusal)
    \/ ~ Passable(x) \/ Empties(File(x), Mode(x))
    \/ x.pc = "landed" /\ (Entries[Entry(x)].withheld \/ Landed(LoadId(x), loads))

\* The load's file is the one that was rehearsed.
Unchanged(x) == x.job.file[Entry(x)] = x.job.later[Entry(x)]

AloneInv(x) ==
    x.alone /\ Unchanged(x) /\ (x.pc = "landed" \/ ~ x.blind)
        /\ x.pc \in {"landed", "table", "snapshot", "scan", "rejects", "commit"}
            => Justified(x, x.refusal)

\* While its snapshot is the table's, what a merge read is what it replaces.
ReadInv(x) ==
    /\ x.snap <= Snapshot
    /\ x.pc \in {"rejects", "commit"} /\ Mode(x) = "merge" =>
          /\ IsFiniteSet(x.read) /\ ~ Ambiguous(File(x), x.read)
          /\ x.snap = Snapshot => x.read = {y \in rows : y.key \in KeysOf(File(x))}

\* A commit there is: another writer's, or one of a load that was due.
CommitInv(c) ==
    /\ c.by \in Outsiders => c.id = << >> /\ ~ c.alone /\ c.seen = 0
    /\ c.by \in Invocations => c.id \in Ids
    /\ c.seen <= Len(loads)
    /\ c.alone => /\ run[c.by].alone
                  /\ AsRehearsed(c.by, c.id) /\ ~ c.blind => TurnsOnly(run[c.by].refusal)
    /\ \A m \in 1..c.seen : loads[m].id = c.id => loads[m].status = "refused" \/ c.blind

HistoryInv == \A n \in DOMAIN history : CommitInv(history[n])

\* It came after every load before it in its order.
InOrder(c) ==
    c.by \in Invocations /\ ~ c.alone
        => \A k \in DOMAIN run[c.by].job.order :
              c.id = IdAt(run[c.by], k) => \A l \in 1..(k - 1) : Written(c.by, l)

\* What the record of a sequence says is so.
Told(s) ==
    /\ s.by \in Invocations /\ s.landed \in Nat
    /\ run[s.by].pc # "idle" /\ run[s.by].job \in Jobs /\ s.landed <= Len(run[s.by].job.order)
    /\ \A k \in 1..s.landed : Written(s.by, k)
    /\ s.status = "applied" <=> s.landed = Len(run[s.by].job.order)
    /\ s.status = "partial" => s.landed > 0

OrderInv ==
    /\ \A n \in DOMAIN history : InOrder(history[n])
    /\ \A s \in sequences : Told(s)

IInv ==
    /\ TableInv
    /\ run \in [Invocations -> RunState]
    /\ \A i \in Invocations :
          LET x == run[i]
          IN  RunInv(x) /\ AccountInv(i, x) /\ LogInv(x) /\ AloneInv(x) /\ ReadInv(x)
    /\ HistoryInv
    /\ OrderInv

-----------------------------------------------------------------------------
(* What IngestRules' operators return. *)

LEMMA FileFields ==
    ASSUME NEW file \in FileRecords
    PROVE  /\ file.columns \subseteq Mapped
           /\ DOMAIN file.lines = 1..Len(file.lines) /\ Len(file.lines) \in Nat
           /\ \A i \in DOMAIN file.lines : file.lines[i].key \in Keys \cup {NullKey}
<1>. DEFINE Line == [key: Keys \cup {NullKey}, fits: BOOLEAN]
<1>1. file.columns \subseteq Mapped /\ file.lines \in Seq(Line)
    BY DEF FileRecords
<1>2. \A line \in Line : line.key \in Keys \cup {NullKey}
    OBVIOUS
<1>. HIDE DEF Line
<1>. QED
    BY <1>1, <1>2

(* The keys of a file are finitely many keys of the table. *)
LEMMA KeysOfFile ==
    ASSUME NEW file \in FileRecords
    PROVE  /\ KeysOf(file) \subseteq Keys /\ IsFiniteSet(KeysOf(file))
           /\ IsFiniteSet(Kept(file))
           /\ KeysOf(file) = {} <=> Kept(file) = {}
<1>1. /\ DOMAIN file.lines = 1..Len(file.lines) /\ Len(file.lines) \in Nat
      /\ \A i \in DOMAIN file.lines : file.lines[i].key \in Keys \cup {NullKey}
    BY FileFields
<1>2. Kept(file) \subseteq DOMAIN file.lines
    BY DEF Kept, Indices
<1>3. \A i \in Kept(file) : file.lines[i].key \in Keys
    BY <1>1, <1>2 DEF Kept, SetAside, Indices
<1>4. IsFiniteSet(Kept(file))
    <2>1. IsFiniteSet(1..Len(file.lines))
        BY <1>1, FS_Interval
    <2>. QED
        BY <1>1, <1>2, <2>1, FS_Subset
<1>5. DEFINE f == [i \in Kept(file) |-> file.lines[i].key]
<1>6. f \in Surjection(Kept(file), KeysOf(file))
    BY DEF Surjection, KeysOf
<1>7. IsFiniteSet(KeysOf(file))
    BY <1>4, <1>6, FS_Surjection
<1>. QED
    BY <1>3, <1>4, <1>7 DEF KeysOf

(* Without a duplicate key there are as many keys as lines that are kept. *)
LEMMA KeysTellLinesApart ==
    ASSUME NEW file \in FileRecords, "duplicate_key" \notin LineFailures(file)
    PROVE  Cardinality(Kept(file)) = Cardinality(KeysOf(file))
<1>1. /\ DOMAIN file.lines = 1..Len(file.lines) /\ Len(file.lines) \in Nat
      /\ Kept(file) \subseteq DOMAIN file.lines
    BY FileFields DEF Kept, Indices
<1>2. {j \in Kept(file) : \E k \in Kept(file) : k < j /\ file.lines[k].key = file.lines[j].key} = {}
    BY DEF LineFailures
<1>3. \A j, k \in Kept(file) : file.lines[j].key = file.lines[k].key => j = k
    <2>1. SUFFICES ASSUME NEW j \in Kept(file), NEW k \in Kept(file),
                          file.lines[j].key = file.lines[k].key, j # k
                   PROVE  FALSE
        OBVIOUS
    <2>2. j \in Nat /\ k \in Nat
        BY <1>1
    <2>3. j < k \/ k < j
        BY <2>1, <2>2
    <2>. QED
        BY <1>2, <2>1, <2>3
<1>4. DEFINE f == [i \in Kept(file) |-> file.lines[i].key]
<1>5. f \in Surjection(Kept(file), KeysOf(file))
    BY DEF Surjection, KeysOf
<1>6. f \in Injection(Kept(file), KeysOf(file))
    BY <1>3, <1>5 DEF Injection, IsInjective, Surjection
<1>. QED
    BY <1>5, <1>6, KeysOfFile, FS_Surjection

(* A line that is set aside is a failure of the file. *)
LEMMA SetAsideFails ==
    ASSUME NEW file, SetAside(file) # {}
    PROVE  LineFailures(file) # {}
<1>1. PICK i \in SetAside(file) : TRUE
    OBVIOUS
<1>2. CASE file.lines[i].fits
    BY <1>1, <1>2 DEF LineFailures
<1>3. CASE ~ file.lines[i].fits
    BY <1>1, <1>3 DEF LineFailures, SetAside
<1>. QED
    BY <1>2, <1>3

(* At most one row matches where nothing is ambiguous. *)
LEMMA OneMatch ==
    ASSUME NEW file, NEW read, IsFiniteSet(read), ~ Ambiguous(file, read), NEW key \in KeysOf(file),
           NEW x \in Matching(read, key), NEW y \in Matching(read, key)
    PROVE  x = y
<1>1. IsFiniteSet(Matching(read, key)) /\ Cardinality(Matching(read, key)) \in Nat
    BY FS_Subset, FS_CardinalityType DEF Matching
<1>2. ~ Cardinality(Matching(read, key)) > 1
    BY DEF Ambiguous
<1>3. Cardinality({x, y}) <= 1
    <2>1. {x, y} \in SUBSET Matching(read, key)
        OBVIOUS
    <2>2. Cardinality({x, y}) <= Cardinality(Matching(read, key)) /\ IsFiniteSet({x, y})
        BY <1>1, <2>1, FS_Subset
    <2>3. Cardinality({x, y}) \in Nat
        BY <2>2, FS_CardinalityType
    <2>. QED
        BY <1>1, <1>2, <2>2, <2>3
<1>4. CASE x # y
    <2>1. IsFiniteSet({x}) /\ Cardinality({x}) = 1
        BY FS_Singleton
    <2>2. Cardinality({x} \cup {y}) = IF y \in {x} THEN Cardinality({x}) ELSE Cardinality({x}) + 1
        BY <2>1, FS_AddElement, Zenon
    <2>3. {x} \cup {y} = {x, y}
        OBVIOUS
    <2>. QED
        BY <1>3, <1>4, <2>1, <2>2, <2>3
<1>. QED
    BY <1>4

(* What _prepare makes: a row for each key, of its author, with a value for    *)
(* every column.                                                               *)
LEMMA PreparedRows ==
    ASSUME NEW file \in FileRecords, NEW mode, NEW by \in Invocations, NEW read \in SUBSET Row
    PROVE  /\ Prepared(file, mode, by, read) \subseteq Row
           /\ IsFiniteSet(Prepared(file, mode, by, read))
           /\ \A y \in Prepared(file, mode, by, read) : y.by = by /\ y.key \in KeysOf(file)
           /\ \A key \in KeysOf(file) : \E y \in Prepared(file, mode, by, read) :
                 Matching(Prepared(file, mode, by, read), key) = {y}
<1>. DEFINE cells(key) == IF mode = "merge" /\ Matching(read, key) # {}
                          THEN Carried(file, by, CHOOSE x \in Matching(read, key) : TRUE)
                          ELSE Fresh(file, by)
            row(key) == [key |-> key, by |-> by, cells |-> cells(key)]
            f == [key \in KeysOf(file) |-> row(key)]
            new == Prepared(file, mode, by, read)
<1>1. new = {row(key) : key \in KeysOf(file)}
    BY Zenon DEF Prepared
<1>2. \A key \in KeysOf(file) : cells(key) \in [Columns -> CellValues]
    <2>1. Fresh(file, by) \in [Columns -> CellValues]
        BY DEF Fresh, CellValues
    <2>2. \A x \in Row : Carried(file, by, x) \in [Columns -> CellValues]
        BY DEF Carried, CellValues, Row
    <2>3. \A key \in KeysOf(file) :
             Matching(read, key) # {} => (CHOOSE x \in Matching(read, key) : TRUE) \in Row
        BY DEF Matching
    <2>. QED
        BY <2>1, <2>2, <2>3
<1>. HIDE DEF cells
<1>3. new \subseteq Row
    BY <1>1, <1>2, KeysOfFile DEF Row, Authors
<1>4. f \in Surjection(KeysOf(file), new)
    BY <1>1 DEF Surjection
<1>5. IsFiniteSet(new)
    BY <1>4, KeysOfFile, FS_Surjection
<1>6. \A key \in KeysOf(file) : row(key) \in new /\ Matching(new, key) = {row(key)}
    BY <1>1 DEF Matching
<1>7. \A y \in new : y.by = by /\ y.key \in KeysOf(file)
    BY <1>1
<1>. HIDE DEF new, row
<1>. QED
    BY <1>3, <1>5, <1>6, <1>7 DEF new

(* A load in its place is what its mode makes of the table. *)
LEMMA RewrittenRows ==
    ASSUME NEW file \in FileRecords, NEW mode \in Modes, NEW by \in Invocations, NEW read \in SUBSET Row,
           NEW old \in SUBSET Row, IsFiniteSet(old)
    PROVE  /\ Rewritten(old, file, mode, Prepared(file, mode, by, read)) \subseteq Row
           /\ IsFiniteSet(Rewritten(old, file, mode, Prepared(file, mode, by, read)))
<1>. DEFINE new == Prepared(file, mode, by, read)
<1>1. new \subseteq Row /\ IsFiniteSet(new)
    BY PreparedRows
<1>. HIDE DEF new
<1>2. IsFiniteSet(old \cup new)
    BY <1>1, FS_Union
<1>3. Rewritten(old, file, mode, new) \in SUBSET (old \cup new)
    BY DEF Rewritten, Modes
<1>. QED
    BY <1>1, <1>2, <1>3, FS_Subset DEF new

-----------------------------------------------------------------------------
(* The order of a command, and the load a run is at. *)

LEMMA JobFacts ==
    ASSUME NEW job \in Jobs
    PROVE  /\ DOMAIN job.order = 1..Len(job.order) /\ Len(job.order) \in Nat
           /\ 1 \in DOMAIN job.order
           /\ \A k \in DOMAIN job.order : /\ job.order[k] \in DOMAIN Entries
                                          /\ job.file[job.order[k]] \in DOMAIN Files
                                          /\ job.later[job.order[k]] \in DOMAIN Files
           /\ \A k, l \in DOMAIN job.order : job.order[k] = job.order[l] => k = l
<1>1. job.order \in Seq(DOMAIN Entries) /\ job.order # << >>
    BY IngestAssumption DEF JobRecords
<1>2. /\ job.file \in UNION {[S -> DOMAIN Files] : S \in SUBSET DOMAIN Entries}
      /\ job.later \in UNION {[S -> DOMAIN Files] : S \in SUBSET DOMAIN Entries}
    BY IngestAssumption DEF JobRecords
<1>3. ASSUME NEW f \in {job.file, job.later}, NEW entry \in DOMAIN f
      PROVE  f[entry] \in DOMAIN Files
    <2>1. PICK S \in SUBSET DOMAIN Entries : f \in [S -> DOMAIN Files]
        BY <1>2
    <2>. QED
        BY <2>1
<1>4. \A k \in DOMAIN job.order : job.order[k] \in DOMAIN job.file /\ job.order[k] \in DOMAIN job.later
    BY IngestAssumption
<1>5. \A k, l \in DOMAIN job.order : job.order[k] = job.order[l] => k = l
    BY IngestAssumption
<1>6. /\ DOMAIN job.order = 1..Len(job.order) /\ Len(job.order) \in Nat
      /\ 1 \in DOMAIN job.order
      /\ \A k \in DOMAIN job.order : job.order[k] \in DOMAIN Entries
    BY <1>1
<1>. QED
    BY <1>3, <1>4, <1>5, <1>6

LEMMA EntryFields ==
    ASSUME NEW entry \in DOMAIN Entries
    PROVE  Entries[entry].mode \in Modes /\ Entries[entry].withheld \in BOOLEAN
BY IngestAssumption

LEMMA LoadFacts ==
    ASSUME NEW x, x.job \in Jobs, x.at \in DOMAIN x.job.order
    PROVE  /\ Entry(x) \in DOMAIN Entries /\ FileName(x) \in DOMAIN Files
           /\ File(x) \in FileRecords /\ Mode(x) \in Modes
           /\ LoadId(x) \in Ids /\ (~ x.dry => LoadId(x) = IdAt(x, x.at))
           /\ x.at \in Nat /\ x.at >= 1 /\ x.at <= Len(x.job.order) /\ Len(x.job.order) \in Nat
<1>1. Entry(x) \in DOMAIN Entries /\ FileName(x) \in DOMAIN Files
    BY JobFacts DEF Entry, FileName
<1>2. File(x) \in FileRecords
    BY <1>1, IngestAssumption DEF File
<1>3. Mode(x) \in Modes
    BY <1>1, EntryFields DEF Mode
<1>4. LoadId(x) \in Ids /\ (~ x.dry => LoadId(x) = IdAt(x, x.at))
    BY <1>1 DEF LoadId, Ids, IdAt, Entry, FileName
<1>. QED
    BY <1>1, <1>2, <1>3, <1>4, JobFacts

(* An order has no batch twice, and each has a place in the log. *)
LEMMA IdsOfOrder ==
    ASSUME NEW x, x.job \in Jobs
    PROVE  /\ \A k \in DOMAIN x.job.order : IdAt(x, k) \in Ids
           /\ \A k, l \in DOMAIN x.job.order : IdAt(x, k) = IdAt(x, l) => k = l
<1>1. \A k \in DOMAIN x.job.order : IdAt(x, k) \in Ids
    BY JobFacts DEF IdAt, Ids
<1>2. \A k, l \in DOMAIN x.job.order : IdAt(x, k) = IdAt(x, l) => x.job.order[k] = x.job.order[l]
    BY DEF IdAt
<1>. QED
    BY <1>1, <1>2, JobFacts

-----------------------------------------------------------------------------
(* What a step makes of the run that takes it. *)

Loading == {"landed", "table", "snapshot", "scan", "rejects", "commit"}

\* A run that has a load to see through.
Due(x) ==
    /\ x \in RunState /\ x.pc \in Loading
    /\ x.job \in Jobs /\ x.at \in DOMAIN x.job.order
    /\ Counted(x)
    /\ x.pc = "commit" => ~ x.dry

\* A step that neither writes nor records.
Moves(x, y) ==
    /\ RunInv(y) /\ y.pc # "idle"
    /\ y.job = x.job /\ y.unlogged = x.unlogged
    /\ x.alone => y.alone /\ y.refusal = x.refusal
    /\ Ahead(y) \subseteq Ahead(x) /\ Behind(y) \subseteq Behind(x)
    /\ y.pc = "record" => y.at \in Ahead(x) /\ y.status \in {"refused", "failed"}
    /\ x.pc = "record" => y.pc = "dead"

\* One with which a load is through, for these reasons.
Stops(x, y, why) ==
    /\ Moves(x, y)
    /\ y.seen \in {0, x.seen} /\ y.snap \in {0, x.snap}
    /\ y.pc \notin Loading \ {"landed"}
    /\ y.pc = "landed" /\ y.alone => y.at = x.at /\ y.refusal = why

\* One with which it goes on.
GoesOn(x, y) ==
    /\ Moves(x, y)
    /\ y.pc \in Loading \ {"landed"}
    /\ y.seen = x.seen /\ y.blind = x.blind /\ y.at = x.at /\ y.dry = x.dry
    /\ y.alone = x.alone /\ y.refusal = x.refusal

LEMMA BeginFields ==
    ASSUME NEW x \in RunState, NEW at \in Nat, NEW y, y = Begin(x, at)
    PROVE  /\ y \in RunState /\ y.pc = "landed" /\ y.at = at
           /\ y.snap = 0 /\ y.seen = 0
           /\ y.job = x.job /\ y.dry = x.dry /\ y.alone = x.alone
           /\ y.refusal = x.refusal /\ y.landed = x.landed /\ y.unlogged = x.unlogged
BY DEF Begin, RunState, PCs, Statuses

(* A run that ended claims nothing any more. *)
LEMMA ClosedRun ==
    ASSUME NEW x \in RunState, NEW pc \in {"done", "dead"}, NEW y, y = Closed(x, pc)
    PROVE  /\ RunInv(y) /\ y.pc = pc
           /\ y.job = x.job /\ y.unlogged = x.unlogged
           /\ y.alone = x.alone /\ y.refusal = x.refusal
           /\ y.seen = 0 /\ y.snap = 0
           /\ Ahead(y) = {} /\ Behind(y) = {}
<1>1. Idle \in RunState /\ Idle.snap = 0 /\ Idle.seen = 0
    BY DEF Idle, RunState, PCs, Statuses
<1>2. pc \in PCs
    BY DEF PCs
<1>3. /\ y \in RunState /\ y.pc = pc /\ y.job = x.job /\ y.unlogged = x.unlogged
      /\ y.alone = x.alone /\ y.refusal = x.refusal /\ y.seen = 0 /\ y.snap = 0
    BY <1>1, <1>2 DEF Closed, RunState
<1>4. RunInv(y)
    BY <1>3 DEF RunInv, Running
<1>5. Ahead(y) = {} /\ Behind(y) = {}
    BY <1>3 DEF Ahead, Behind, Running
<1>. QED
    BY <1>3, <1>4, <1>5

\* The same load, with what it came to noted.
Noted(x, z, why) ==
    /\ z \in RunState /\ z.pc = x.pc /\ z.job = x.job /\ z.at = x.at /\ z.dry = x.dry
    /\ z.alone = x.alone /\ z.why = why /\ z.snap \in {0, x.snap} /\ z.seen = x.seen
    /\ z.landed = x.landed /\ z.unlogged = x.unlogged /\ z.refusal = x.refusal

Noting(x, status, why) == [x EXCEPT !.status = status, !.why = why, !.snap = 0, !.read = {}]

LEMMA NotedFields ==
    ASSUME NEW x \in RunState, NEW why \in SUBSET Failures, NEW status \in Statuses
    PROVE  /\ Noted(x, Noting(x, status, why), why)
           /\ Noting(x, status, why).status = status /\ Noting(x, status, why).snap = 0
BY DEF Noted, Noting, RunState

(* A rehearsal that ends goes on to the next load, the question, the end, or   *)
(* the same load for real.                                                     *)
LEMMA RehearsalEnds ==
    ASSUME NEW x, Due(x), x.dry, NEW why \in SUBSET Failures,
           NEW status \in {"refused", "previewed"}, NEW z, Noted(x, z, why)
    PROVE  Stops(x, Rehearsed(z, status), why)
<1>. DEFINE y == Rehearsed(z, status)
<1>1. /\ z \in RunState /\ z.pc = x.pc /\ z.job = x.job /\ z.at = x.at /\ z.dry = x.dry
      /\ z.alone = x.alone /\ z.why = why /\ z.snap \in {0, x.snap} /\ z.seen = x.seen
      /\ z.landed = x.landed /\ z.unlogged = x.unlogged /\ z.refusal = x.refusal
    BY DEF Noted
<1>2. /\ x.job \in Jobs /\ x.at \in DOMAIN x.job.order /\ ~ x.alone /\ x.landed = 0
      /\ x.at \in Nat /\ x.at >= 1 /\ DOMAIN x.job.order = 1..Len(x.job.order)
      /\ x.pc \in Loading
    BY LoadFacts, JobFacts DEF Due, Counted
<1>. HIDE DEF y
<1>3. CASE ~ Ok(status) /\ ~ x.job.rehearsal
    <2>. DEFINE b == Begin(z, z.at)
    <2>1. y = [b EXCEPT !.dry = FALSE, !.alone = TRUE, !.refusal = why]
        BY <1>1, <1>3, Zenon DEF Rehearsed, y
    <2>2. z \in RunState /\ z.at \in Nat
        BY <1>1, <1>2
    <2>3. /\ b \in RunState /\ b.pc = "landed" /\ b.at = z.at /\ b.snap = 0 /\ b.seen = 0
          /\ b.job = z.job /\ b.unlogged = z.unlogged
        BY <2>2, BeginFields
    <2>. HIDE DEF b
    <2>4. /\ y \in RunState /\ y.pc = "landed" /\ y.at = x.at /\ y.snap = 0 /\ y.seen = 0
          /\ y.job = x.job /\ y.unlogged = x.unlogged /\ ~ y.dry /\ y.alone /\ y.refusal = why
        BY <1>1, <2>1, <2>3 DEF RunState
    <2>5. RunInv(y)
        BY <1>2, <2>4 DEF RunInv, Running, Counted, Screened
    <2>6. Ahead(y) \subseteq Ahead(x) /\ Behind(y) = {}
        BY <1>2, <2>4 DEF Ahead, Behind, Running, Loading
    <2>. QED
        BY <1>2, <2>4, <2>5, <2>6 DEF Stops, Moves, Loading, y
<1>4. CASE Ok(status) /\ x.at < Len(x.job.order)
    <2>1. y = Begin(z, x.at + 1)
        BY <1>1, <1>4, Zenon DEF Rehearsed, y
    <2>2. z \in RunState /\ x.at + 1 \in Nat
        BY <1>1, <1>2
    <2>3. /\ y \in RunState /\ y.pc = "landed" /\ y.at = x.at + 1 /\ y.snap = 0 /\ y.seen = 0
          /\ y.job = z.job /\ y.unlogged = z.unlogged /\ y.landed = z.landed /\ y.dry = z.dry
          /\ y.alone = z.alone
        BY <2>1, <2>2, BeginFields
    <2>4. /\ y \in RunState /\ y.pc = "landed" /\ y.at = x.at + 1 /\ y.snap = 0 /\ y.seen = 0
          /\ y.job = x.job /\ y.unlogged = x.unlogged /\ y.landed = 0 /\ y.dry /\ ~ y.alone
        BY <1>1, <1>2, <2>3
    <2>5. x.at + 1 \in DOMAIN x.job.order
        BY <1>2, <1>4
    <2>6. RunInv(y)
        BY <1>2, <2>4, <2>5 DEF RunInv, Running, Counted, Screened
    <2>7. Ahead(y) \subseteq Ahead(x) /\ Behind(y) = {}
        BY <1>2, <2>4 DEF Ahead, Behind, Running, Loading
    <2>. QED
        BY <1>2, <2>4, <2>6, <2>7 DEF Stops, Moves, Loading, y
<1>5. CASE Ok(status) /\ ~ x.at < Len(x.job.order) /\ ~ x.job.rehearsal
    <2>1. y = [z EXCEPT !.pc = "confirm"]
        BY <1>1, <1>5, Zenon DEF Rehearsed, y
    <2>2. /\ y \in RunState /\ y.pc = "confirm" /\ y.at = x.at /\ y.snap = z.snap /\ y.seen = x.seen
          /\ y.job = x.job /\ y.unlogged = x.unlogged /\ y.landed = 0 /\ y.dry /\ ~ y.alone
        BY <1>1, <1>2, <2>1 DEF RunState, PCs
    <2>3. RunInv(y)
        BY <1>2, <2>2 DEF RunInv, Running, Counted, Screened
    <2>4. Ahead(y) \subseteq Ahead(x) /\ Behind(y) = {}
        BY <1>2, <2>2 DEF Ahead, Behind, Running, Loading
    <2>. QED
        BY <1>1, <1>2, <2>2, <2>3, <2>4 DEF Stops, Moves, Loading, y
<1>6. CASE x.job.rehearsal /\ ~ (Ok(status) /\ x.at < Len(x.job.order))
    <2>1. y = Closed(z, "done")
        BY <1>1, <1>6, Zenon DEF Rehearsed, y
    <2>. QED
        BY <1>1, <1>2, <2>1, ClosedRun DEF Stops, Moves, Loading, y
<1>. QED
    BY <1>3, <1>4, <1>5, <1>6 DEF y

(* A load that ends for real goes on to the next one, or ends its order.       *)
LEMMA LoadEnds ==
    ASSUME NEW x \in RunState, x.job \in Jobs, x.at \in DOMAIN x.job.order, Counted(x), ~ x.dry,
           x.pc \in {"landed", "record"}, NEW status \in {"applied", "refused", "failed"},
           NEW y, y = Loaded(x, status)
    PROVE  /\ RunInv(y) /\ y.pc \in {"landed", "sequence", "done"}
           /\ y.job = x.job /\ y.unlogged = x.unlogged /\ y.alone = x.alone /\ y.refusal = x.refusal
           /\ Ahead(y) \subseteq Ahead(x) /\ x.at \notin Ahead(y)
           /\ Behind(y) \subseteq Behind(x) \cup {k \in {x.at} : Ok(status) /\ ~ x.alone}
           /\ y.seen \in {0, x.seen} /\ y.snap \in {0, x.snap}
           /\ y.pc = "landed" => ~ y.alone
<1>. DEFINE z == [x EXCEPT !.status = status, !.landed = IF Ok(status) THEN x.landed + 1 ELSE x.landed]
<1>1. /\ z \in RunState /\ z.pc = x.pc /\ z.job = x.job /\ z.at = x.at /\ z.dry = x.dry
      /\ z.alone = x.alone /\ z.snap = x.snap /\ z.seen = x.seen
      /\ z.unlogged = x.unlogged /\ z.status = status /\ z.refusal = x.refusal
      /\ z.landed = IF Ok(status) THEN x.landed + 1 ELSE x.landed
    <2>1. (IF Ok(status) THEN x.landed + 1 ELSE x.landed) \in Nat
        BY DEF RunState
    <2>2. status \in Statuses
        BY DEF Statuses
    <2>. QED
        BY <2>1, <2>2 DEF RunState
<1>2. /\ x.at \in Nat /\ x.at >= 1 /\ DOMAIN x.job.order = 1..Len(x.job.order)
      /\ Len(x.job.order) \in Nat /\ x.at <= Len(x.job.order)
      /\ ~ x.alone => x.landed = x.at - 1
      /\ x.landed \in Nat
    BY LoadFacts, JobFacts DEF Counted, RunState
<1>. HIDE DEF z
<1>3. CASE x.alone
    <2>1. y = Closed(z, "done")
        BY <1>3, Zenon DEF Loaded, z
    <2>. QED
        BY <1>1, <2>1, ClosedRun
<1>4. CASE ~ x.alone /\ Ok(status) /\ x.at < Len(x.job.order)
    <2>1. y = Begin(z, x.at + 1)
        BY <1>4, Zenon DEF Loaded, RunsOn, z
    <2>2. z \in RunState /\ x.at + 1 \in Nat
        BY <1>1, <1>2
    <2>3. /\ y \in RunState /\ y.pc = "landed" /\ y.at = x.at + 1 /\ y.snap = 0 /\ y.seen = 0
          /\ y.job = z.job /\ y.unlogged = z.unlogged /\ y.landed = z.landed /\ y.dry = z.dry
          /\ y.alone = z.alone /\ y.refusal = z.refusal
        BY <2>1, <2>2, BeginFields
    <2>4. /\ y \in RunState /\ y.pc = "landed" /\ y.at = x.at + 1 /\ y.snap = 0 /\ y.seen = 0
          /\ y.job = x.job /\ y.unlogged = x.unlogged /\ y.landed = x.at /\ ~ y.dry /\ ~ y.alone
          /\ y.alone = x.alone /\ y.refusal = x.refusal
        BY <1>1, <1>2, <1>4, <2>3
    <2>5. x.at + 1 \in DOMAIN x.job.order
        BY <1>2, <1>4
    <2>6. RunInv(y)
        BY <1>2, <2>4, <2>5 DEF RunInv, Running, Counted, Screened
    <2>7. Ahead(y) \subseteq Ahead(x) /\ x.at \notin Ahead(y)
        BY <1>2, <2>4 DEF Ahead, Running
    <2>8. Behind(y) \subseteq Behind(x) \cup {k \in {x.at} : Ok(status) /\ ~ x.alone}
        BY <1>2, <1>4, <2>4 DEF Behind, Running
    <2>. QED
        BY <1>4, <2>4, <2>6, <2>7, <2>8
<1>5. CASE ~ x.alone /\ ~ (Ok(status) /\ x.at < Len(x.job.order)) /\ x.job.sequence
    <2>1. y = [z EXCEPT !.pc = "sequence"]
        BY <1>5, Zenon DEF Loaded, RunsOn, z
    <2>2. /\ y \in RunState /\ y.pc = "sequence" /\ y.at = x.at /\ y.snap = x.snap /\ y.seen = x.seen
          /\ y.job = x.job /\ y.unlogged = x.unlogged /\ ~ y.dry /\ ~ y.alone
          /\ y.alone = x.alone /\ y.refusal = x.refusal /\ y.status = status /\ y.landed = z.landed
        BY <1>1, <1>5, <2>1 DEF RunState, PCs
    <2>3. y.landed = IF Ok(status) THEN x.at ELSE x.at - 1
        BY <1>1, <1>2, <1>5, <2>2
    <2>4. RunInv(y)
        BY <1>2, <1>5, <2>2, <2>3 DEF RunInv, Running, Counted, Screened
    <2>5. Ahead(y) = {}
        BY <2>2 DEF Ahead
    <2>6. Behind(y) \subseteq Behind(x) \cup {k \in {x.at} : Ok(status) /\ ~ x.alone}
        BY <1>2, <1>5, <2>2, <2>3 DEF Behind, Running
    <2>. QED
        BY <1>5, <2>2, <2>4, <2>5, <2>6
<1>6. CASE ~ x.alone /\ ~ (Ok(status) /\ x.at < Len(x.job.order)) /\ ~ x.job.sequence
    <2>1. y = Closed(z, "done")
        BY <1>6, Zenon DEF Loaded, RunsOn, z
    <2>. QED
        BY <1>1, <2>1, ClosedRun
<1>. QED
    BY <1>3, <1>4, <1>5, <1>6

(* A load that is concluded for real is due for its record. *)
LEMMA ConcludedForReal ==
    ASSUME NEW x, Due(x), ~ x.dry, NEW why \in SUBSET Failures,
           NEW status \in {"applied", "refused", "failed"}, NEW y, y = Concluded(x, status, why)
    PROVE  /\ RunInv(y) /\ y.pc = "record" /\ y.status = status
           /\ y.job = x.job /\ y.unlogged = x.unlogged /\ y.alone = x.alone /\ y.refusal = x.refusal
           /\ y.at = x.at /\ y.seen = x.seen /\ y.snap = 0 /\ ~ y.dry
           /\ x.at \in Ahead(x) /\ Ahead(y) = Ahead(x) \ {x.at} /\ Behind(y) = Behind(x)
<1>. DEFINE z == Noting(x, status, why)
<1>1. z = Noting(x, status, why)
    OBVIOUS
<1>2. y = [z EXCEPT !.pc = "record"]
    BY Zenon DEF Concluded, Noting
<1>. HIDE DEF z
<1>3. x \in RunState /\ status \in Statuses
    BY DEF Due, Statuses
<1>4. Noted(x, z, why) /\ z.status = status /\ z.snap = 0
    BY <1>1, <1>3, NotedFields
<1>5. /\ y \in RunState /\ y.pc = "record" /\ y.status = status
      /\ y.job = x.job /\ y.unlogged = x.unlogged /\ y.alone = x.alone /\ y.refusal = x.refusal
      /\ y.at = x.at /\ y.seen = x.seen /\ y.snap = 0 /\ y.dry = x.dry /\ y.landed = x.landed
    BY <1>4, <1>2 DEF Noted, RunState, PCs
<1>6. /\ x.job \in Jobs /\ x.at \in DOMAIN x.job.order /\ x.pc \in Loading
      /\ x.at \in Nat /\ Counted(x) /\ DOMAIN x.job.order \subseteq Nat
    BY LoadFacts, JobFacts DEF Due
<1>7. Counted(y) /\ Screened(y)
    BY <1>5, <1>6 DEF Counted, Screened, Loading
<1>8. RunInv(y)
    BY <1>5, <1>6, <1>7 DEF RunInv, Running
<1>9. x.at \in Ahead(x) /\ Ahead(y) = Ahead(x) \ {x.at} /\ Behind(y) = Behind(x)
    BY <1>5, <1>6 DEF Ahead, Behind, Running, Loading
<1>. QED
    BY <1>5, <1>8, <1>9

(* What _refuse and a preview leave. *)
LEMMA ConcludedStops ==
    ASSUME NEW x, Due(x), NEW why \in SUBSET Failures, NEW status,
           status \in IF x.dry THEN {"refused", "previewed"} ELSE {"refused", "failed"},
           NEW y, y = Concluded(x, status, why)
    PROVE  Stops(x, y, why)
<1>1. CASE x.dry
    <2>. DEFINE z == Noting(x, status, why)
    <2>1. status \in {"refused", "previewed"} /\ x \in RunState /\ status \in Statuses
        BY <1>1 DEF Due, Statuses
    <2>2. z = Noting(x, status, why)
        OBVIOUS
    <2>3. y = Ended(z, status)
        BY <1>1, Zenon DEF Concluded, Noting
    <2>. HIDE DEF z
    <2>4. Noted(x, z, why)
        BY <2>1, <2>2, NotedFields
    <2>5. z.dry = x.dry
        BY <2>4 DEF Noted
    <2>6. y = Rehearsed(z, status)
        BY <1>1, <2>3, <2>5, Zenon DEF Ended
    <2>. QED
        BY <1>1, <2>1, <2>4, <2>6, RehearsalEnds
<1>2. CASE ~ x.dry
    <2>1. status \in {"refused", "failed"}
        BY <1>2
    <2>2. /\ RunInv(y) /\ y.pc = "record" /\ y.status = status
          /\ y.job = x.job /\ y.unlogged = x.unlogged /\ y.alone = x.alone /\ y.refusal = x.refusal
          /\ y.at = x.at /\ y.seen = x.seen /\ y.snap = 0
          /\ x.at \in Ahead(x) /\ Ahead(y) = Ahead(x) \ {x.at} /\ Behind(y) = Behind(x)
        BY <1>2, <2>1, ConcludedForReal
    <2>3. x.pc # "record"
        BY DEF Due, Loading
    <2>. QED
        BY <2>1, <2>2, <2>3 DEF Stops, Moves, Loading
<1>. QED
    BY <1>1, <1>2

\* A load that went well, so far as a rehearsal goes, is not tried again.
Passes(x, y) == Stops(x, y, {}) /\ ~ (y.pc = "landed" /\ y.alone)

LEMMA PreviewPasses ==
    ASSUME NEW x, Due(x), x.dry, NEW why \in SUBSET Failures, NEW y, y = Concluded(x, "previewed", why)
    PROVE  Passes(x, y)
<1>1. Stops(x, y, why)
    BY ConcludedStops
<1>. DEFINE z == Noting(x, "previewed", why)
<1>2. x \in RunState /\ ~ x.alone
    BY DEF Due, Counted
<1>3. z = Noting(x, "previewed", why)
    OBVIOUS
<1>4. y = Ended(z, "previewed")
    BY Zenon DEF Concluded, Noting
<1>. HIDE DEF z
<1>5. "previewed" \in Statuses
    BY DEF Statuses
<1>6. Noted(x, z, why)
    BY <1>2, <1>3, <1>5, NotedFields
<1>7. z \in RunState /\ z.dry = x.dry /\ z.alone = x.alone /\ z.job = x.job /\ z.at = x.at
    BY <1>6 DEF Noted
<1>8. y = Rehearsed(z, "previewed")
    BY <1>7, <1>4, Zenon DEF Ended
<1>9. \/ y = Begin(z, x.at + 1) \/ y = [z EXCEPT !.pc = "confirm"] \/ y = Closed(z, "done")
    BY <1>7, <1>8 DEF Rehearsed, Ok
<1>10. ~ (y.pc = "landed" /\ y.alone)
    <2>1. CASE y = Begin(z, x.at + 1)
        <3>1. x.at + 1 \in Nat
            BY LoadFacts DEF Due
        <3>. QED
            BY <1>2, <1>7, <2>1, <3>1, BeginFields
    <2>2. CASE y = [z EXCEPT !.pc = "confirm"]
        BY <1>7, <2>2 DEF RunState
    <2>3. CASE y = Closed(z, "done")
        BY <1>7, <2>3, ClosedRun
    <2>. QED
        BY <1>9, <2>1, <2>2, <2>3
<1>. QED
    BY <1>1, <1>10 DEF Passes, Stops

(* A file as it is, and why a load of it may be refused. *)
LEMMA FailuresFound ==
    ASSUME NEW file, NEW mode, NEW there \in BOOLEAN
    PROVE  /\ ColumnFailures(file) \subseteq Failures
           /\ TableFailures(mode, there) \subseteq Failures
           /\ LineFailures(file) \subseteq Failures
<1>1. ColumnFailures(file) \subseteq Failures
    BY DEF ColumnFailures, Failures
<1>2. TableFailures(mode, there) \subseteq Failures
    BY DEF TableFailures, Failures
<1>3. LineFailures(file) \subseteq Failures
    BY DEF LineFailures, Failures
<1>. QED
    BY <1>1, <1>2, <1>3

(* A step to the next call keeps the load, and what is found is noted. *)
LEMMA StepOn ==
    ASSUME NEW x, Due(x), NEW y \in RunState, NEW pc \in Loading \ {"landed"},
           y.pc = pc, y.job = x.job, y.at = x.at, y.dry = x.dry, y.alone = x.alone,
           y.refusal = x.refusal, y.seen = x.seen, y.blind = x.blind, y.landed = x.landed,
           y.unlogged = x.unlogged, pc = "commit" => ~ x.dry, Screened(y)
    PROVE  GoesOn(x, y)
<1>1. /\ x.job \in Jobs /\ x.at \in DOMAIN x.job.order /\ x.pc \in Loading /\ Counted(x)
      /\ x \in RunState
    BY DEF Due
<1>2. Counted(y)
    BY <1>1 DEF Counted, Loading
<1>3. RunInv(y)
    BY <1>1, <1>2 DEF RunInv, Running, Loading
<1>4. Ahead(y) \subseteq Ahead(x) /\ Behind(y) \subseteq Behind(x)
    BY <1>1 DEF Ahead, Behind, Running, Loading
<1>. QED
    BY <1>1, <1>3, <1>4 DEF GoesOn, Moves, Loading

(* Once all is found but what the commit finds, the load stops or goes on. *)
LEMMA ClearedRun ==
    ASSUME NEW x, Due(x), NEW y, y = Cleared(x), x.pc # "commit",
           Passable(x), ~ Empties(File(x), Mode(x)), Absorbed(x.why, x.job.reject)
    PROVE  \/ Passes(x, y)
           \/ GoesOn(x, y) /\ y.pc = "commit" /\ y.read = x.read /\ y.snap = x.snap
<1>1. CASE x.dry
    <2>1. y = Concluded(x, "previewed", x.why) /\ x.why \in SUBSET Failures
        BY <1>1 DEF Cleared, Due, RunState
    <2>. QED
        BY <1>1, <2>1, PreviewPasses
<1>2. CASE ~ x.dry
    <2>1. y = [x EXCEPT !.pc = "commit"] /\ x \in RunState
        BY <1>2 DEF Cleared, Due
    <2>2. /\ y \in RunState /\ y.pc = "commit" /\ y.job = x.job /\ y.at = x.at /\ y.dry = x.dry
          /\ y.alone = x.alone /\ y.refusal = x.refusal /\ y.seen = x.seen /\ y.blind = x.blind
          /\ y.landed = x.landed
          /\ y.unlogged = x.unlogged /\ y.read = x.read /\ y.snap = x.snap /\ y.why = x.why
        BY <2>1 DEF RunState, PCs
    <2>3. File(y) = File(x) /\ Mode(y) = Mode(x)
        BY <2>2 DEF File, FileName, Mode, Entry
    <2>4. Screened(y)
        BY <2>2, <2>3 DEF Screened, Passable
    <2>. QED
        BY <1>2, <2>2, <2>4, StepOn DEF Loading
<1>. QED
    BY <1>1, <1>2

\* Why a load is stopped here, in a way that stops it again.
Refuses(x, why) ==
    \/ TurnsOnly(why)
    \/ ~ Passable(x) \/ Empties(File(x), Mode(x))
    \/ Entries[Entry(x)].withheld \/ Landed(LoadId(x), loads)

\* A load is stopped for such a reason, passes, or goes on to be written.
LEMMA DecidedRun ==
    ASSUME NEW x, Due(x), x.pc # "commit", Passable(x), NEW failures \in SUBSET Failures,
           NEW read \in SUBSET Row, NEW y, y = Decided(x, failures, read),
           ~ Absorbed(failures, x.job.reject) => TurnsOnly(failures)
    PROVE  \/ \E why \in SUBSET Failures : Stops(x, y, why) /\ Refuses(x, why)
           \/ Passes(x, y)
           \/ /\ GoesOn(x, y) /\ y.pc \in {"rejects", "commit"}
              /\ y.read = read /\ y.snap = x.snap /\ Absorbed(failures, x.job.reject)
<1>1. CASE ~ Absorbed(failures, x.job.reject)
    <2>1. y = Concluded(x, "refused", failures)
        BY <1>1 DEF Decided
    <2>2. Stops(x, y, failures)
        BY <2>1, ConcludedStops
    <2>. QED
        BY <1>1, <2>2 DEF Refuses
<1>2. CASE Absorbed(failures, x.job.reject) /\ Empties(File(x), Mode(x))
    <2>1. y = Concluded(x, "refused", {"empty_replace"}) /\ {"empty_replace"} \in SUBSET Failures
        BY <1>2 DEF Decided, Failures
    <2>2. Stops(x, y, {"empty_replace"})
        BY <2>1, ConcludedStops
    <2>. QED
        BY <1>2, <2>1, <2>2 DEF Refuses
<1>3. CASE Absorbed(failures, x.job.reject) /\ ~ Empties(File(x), Mode(x))
    <2>. DEFINE z == [x EXCEPT !.why = failures, !.read = read]
    <2>1. y = IF x.job.reject THEN [z EXCEPT !.pc = "rejects"] ELSE Cleared(z)
        BY <1>3, Zenon DEF Decided
    <2>2. /\ z \in RunState /\ z.pc = x.pc /\ z.job = x.job /\ z.at = x.at /\ z.dry = x.dry
          /\ z.alone = x.alone /\ z.why = failures /\ z.snap = x.snap /\ z.seen = x.seen
          /\ z.landed = x.landed /\ z.unlogged = x.unlogged /\ z.refusal = x.refusal /\ z.read = read
          /\ z.blind = x.blind
        BY DEF Due, RunState
    <2>. HIDE DEF z
    <2>3. CASE x.job.reject
        <3>1. /\ y \in RunState /\ y.pc = "rejects" /\ y.job = x.job /\ y.at = x.at /\ y.dry = x.dry
              /\ y.alone = x.alone /\ y.why = failures /\ y.snap = x.snap /\ y.seen = x.seen
              /\ y.landed = x.landed /\ y.unlogged = x.unlogged /\ y.refusal = x.refusal
              /\ y.read = read /\ y.blind = x.blind
            BY <2>1, <2>2, <2>3 DEF RunState, PCs
        <3>2. File(y) = File(x) /\ Mode(y) = Mode(x)
            BY <3>1 DEF File, FileName, Mode, Entry
        <3>3. Screened(y)
            BY <1>3, <3>1, <3>2 DEF Screened, Passable
        <3>4. GoesOn(x, y)
            BY <3>1, <3>3, StepOn DEF Loading
        <3>. QED
            BY <1>3, <3>1, <3>4
    <2>4. CASE ~ x.job.reject
        <3>1. y = Cleared(z)
            BY <2>1, <2>4
        <3>2. File(z) = File(x) /\ Mode(z) = Mode(x)
            BY <2>2 DEF File, FileName, Mode, Entry
        <3>3. Counted(z) /\ Counted(x)
            BY <2>2 DEF Counted, Due, Loading
        <3>4. Due(z) /\ z.pc # "commit"
            BY <2>2, <3>3 DEF Due
        <3>5. Passable(z) /\ ~ Empties(File(z), Mode(z)) /\ Absorbed(z.why, z.job.reject)
            BY <1>3, <2>2, <3>2 DEF Passable
        <3>6. \/ Passes(z, y)
              \/ GoesOn(z, y) /\ y.pc = "commit" /\ y.read = z.read /\ y.snap = z.snap
            BY <3>1, <3>4, <3>5, ClearedRun
        <3>7. Ahead(z) = Ahead(x) /\ Behind(z) = Behind(x)
            BY <2>2 DEF Ahead, Behind, Running
        <3>8. Moves(z, y) => Moves(x, y)
            BY <2>2, <3>7 DEF Moves
        <3>9. /\ Passes(z, y) => Passes(x, y)
              /\ GoesOn(z, y) => GoesOn(x, y)
            BY <2>2, <3>8 DEF Passes, Stops, GoesOn
        <3>. QED
            BY <1>3, <2>2, <3>6, <3>9
    <2>. QED
        BY <2>3, <2>4
<1>. QED
    BY <1>1, <1>2, <1>3

\* The same load as a call found it.
Alike(x, z) ==
    /\ z \in RunState /\ z.pc = x.pc /\ z.job = x.job /\ z.at = x.at /\ z.dry = x.dry
    /\ z.alone = x.alone /\ z.landed = x.landed /\ z.unlogged = x.unlogged /\ z.refusal = x.refusal

LEMMA AlikeFacts ==
    ASSUME NEW x, NEW z, Alike(x, z)
    PROVE  /\ x.pc # "sequence" => (Counted(z) <=> Counted(x))
           /\ Ahead(z) = Ahead(x) /\ Behind(z) = Behind(x)
           /\ Entry(z) = Entry(x) /\ File(z) = File(x) /\ Mode(z) = Mode(x) /\ LoadId(z) = LoadId(x)
           /\ Passable(z) <=> Passable(x)
           /\ \A y : Moves(z, y) => Moves(x, y)
           /\ \A why : Refuses(z, why) <=> Refuses(x, why)
<1>1. Entry(z) = Entry(x) /\ File(z) = File(x) /\ Mode(z) = Mode(x) /\ LoadId(z) = LoadId(x)
    BY DEF Alike, Entry, File, FileName, Mode, LoadId
<1>2. Ahead(z) = Ahead(x) /\ Behind(z) = Behind(x)
    BY DEF Alike, Ahead, Behind, Running
<1>3. \A y : Moves(z, y) => Moves(x, y)
    BY <1>2 DEF Alike, Moves
<1>4. Passable(z) <=> Passable(x)
    BY <1>1 DEF Alike, Passable
<1>5. \A why : Refuses(z, why) <=> Refuses(x, why)
    BY <1>1, <1>4 DEF Refuses
<1>6. x.pc # "sequence" => (Counted(z) <=> Counted(x))
    BY DEF Alike, Counted
<1>. QED
    BY <1>1, <1>2, <1>3, <1>4, <1>5, <1>6

-----------------------------------------------------------------------------
(* What a step leaves as it was: the table's history and the log only grow,    *)
(* and nobody but i writes what is said of i.                                  *)

Grows ==
    /\ history' = history \/ \E c \in Commit : history' = Append(history, c)
    /\ loads' = loads \/ \E r \in LoadRecord : loads' = Append(loads, r)

\* A run goes on with its job.
Follows(x, y) ==
    x.pc # "idle" => /\ y.pc # "idle" /\ y.job = x.job
                     /\ x.alone => y.alone /\ y.refusal = x.refusal

LEMMA Appended ==
    ASSUME NEW S, NEW s \in Seq(S), NEW e \in S, NEW t, t = Append(s, e)
    PROVE  /\ t \in Seq(S) /\ Len(t) = Len(s) + 1 /\ Len(s) \in Nat
           /\ DOMAIN s = 1..Len(s) /\ DOMAIN t = 1..Len(t) /\ t[Len(t)] = e
           /\ \A k \in DOMAIN s : k \in DOMAIN t /\ t[k] = s[k] /\ k # Len(t)
           /\ \A k \in DOMAIN t : k \in DOMAIN s \/ k = Len(t)
OBVIOUS

LEMMA GrowsFacts ==
    ASSUME TableInv, Grows
    PROVE  /\ history' \in Seq(Commit) /\ Len(history) \in Nat
           /\ DOMAIN history = 1..Len(history) /\ DOMAIN history' = 1..Len(history')
           /\ Len(history') \in Nat /\ Len(history) <= Len(history')
           /\ \A n \in DOMAIN history : n \in DOMAIN history' /\ history'[n] = history[n]
           /\ \A n \in DOMAIN history' : n \in DOMAIN history
                                         \/ (n = Len(history') /\ history' # history)
           /\ loads' \in Seq(LoadRecord) /\ Len(loads) \in Nat
           /\ DOMAIN loads = 1..Len(loads) /\ DOMAIN loads' = 1..Len(loads')
           /\ Len(loads') \in Nat /\ Len(loads) <= Len(loads')
           /\ \A m \in DOMAIN loads : m \in DOMAIN loads' /\ loads'[m] = loads[m]
           /\ \A m \in DOMAIN loads' : m \in DOMAIN loads \/ (m = Len(loads') /\ loads' # loads)
<1>1. history \in Seq(Commit) /\ loads \in Seq(LoadRecord)
    BY DEF TableInv
<1>. HIDE DEF Commit, LoadRecord
<1>2. /\ history' \in Seq(Commit) /\ Len(history) \in Nat
      /\ DOMAIN history = 1..Len(history) /\ DOMAIN history' = 1..Len(history')
      /\ Len(history') \in Nat /\ Len(history) <= Len(history')
      /\ \A n \in DOMAIN history : n \in DOMAIN history' /\ history'[n] = history[n]
      /\ \A n \in DOMAIN history' : n \in DOMAIN history
                                    \/ (n = Len(history') /\ history' # history)
    <2>1. CASE history' = history
        BY <1>1, <2>1
    <2>2. CASE \E c \in Commit : history' = Append(history, c)
        <3>1. PICK c \in Commit : history' = Append(history, c)
            BY <2>2
        <3>2. /\ history' \in Seq(Commit) /\ Len(history') = Len(history) + 1 /\ Len(history) \in Nat
              /\ DOMAIN history = 1..Len(history) /\ DOMAIN history' = 1..Len(history')
              /\ \A k \in DOMAIN history : k \in DOMAIN history' /\ history'[k] = history[k]
              /\ \A k \in DOMAIN history' : k \in DOMAIN history \/ k = Len(history')
            BY <1>1, <3>1, Appended
        <3>. QED
            BY <3>2
    <2>. QED
        BY <2>1, <2>2 DEF Grows
<1>3. /\ loads' \in Seq(LoadRecord) /\ Len(loads) \in Nat
      /\ DOMAIN loads = 1..Len(loads) /\ DOMAIN loads' = 1..Len(loads')
      /\ Len(loads') \in Nat /\ Len(loads) <= Len(loads')
      /\ \A n \in DOMAIN loads : n \in DOMAIN loads' /\ loads'[n] = loads[n]
      /\ \A n \in DOMAIN loads' : n \in DOMAIN loads \/ (n = Len(loads') /\ loads' # loads)
    <2>1. CASE loads' = loads
        BY <1>1, <2>1
    <2>2. CASE \E c \in LoadRecord : loads' = Append(loads, c)
        <3>1. PICK c \in LoadRecord : loads' = Append(loads, c)
            BY <2>2
        <3>2. /\ loads' \in Seq(LoadRecord) /\ Len(loads') = Len(loads) + 1 /\ Len(loads) \in Nat
              /\ DOMAIN loads = 1..Len(loads) /\ DOMAIN loads' = 1..Len(loads')
              /\ \A k \in DOMAIN loads : k \in DOMAIN loads' /\ loads'[k] = loads[k]
              /\ \A k \in DOMAIN loads' : k \in DOMAIN loads \/ k = Len(loads')
            BY <1>1, <3>1, Appended
        <3>. QED
            BY <3>2
    <2>. QED
        BY <2>1, <2>2 DEF Grows
<1>. QED
    BY <1>2, <1>3

LEMMA CommitFields ==
    ASSUME TableInv, NEW n \in DOMAIN history
    PROVE  /\ history[n].by \in Authors /\ history[n].id \in Ids \cup {<< >>}
           /\ history[n].alone \in BOOLEAN /\ history[n].seen \in Nat
           /\ history[n].blind \in BOOLEAN
<1>1. history[n] \in Commit
    BY DEF TableInv
<1>. QED
    BY <1>1 DEF Commit

LEMMA LoadFields ==
    ASSUME TableInv, NEW m \in DOMAIN loads
    PROVE  /\ loads[m].by \in Invocations /\ loads[m].id \in Ids
           /\ loads[m].status \in {"applied", "refused", "failed"}
<1>1. loads[m] \in LoadRecord
    BY DEF TableInv
<1>. QED
    BY <1>1 DEF LoadRecord

(* What is in stays in, and what was recorded stays recorded. *)
LEMMA WrittenStays ==
    ASSUME TableInv, Grows, NEW i, Follows(run[i], run'[i]), run[i].pc # "idle", NEW k, Written(i, k)
    PROVE  Written(i, k)'
<1>1. run'[i].job = run[i].job
    BY DEF Follows
<1>2. \A n \in DOMAIN history : n \in DOMAIN history' /\ history'[n] = history[n]
    BY GrowsFacts
<1>. DEFINE name(job) == job.later[job.order[k]]
            commits(job) == Commits(Files[name(job)], Entries[job.order[k]].mode)
            id(job) == <<job.order[k], name(job)>>
<1>3. LandingsOf(i, id(run[i].job)) # {} \/ ~ commits(run[i].job)
    BY Zenon DEF Written
<1>4. Written(i, k)' <=> ((LandingsOf(i, id(run[i].job)) # {})' \/ ~ commits(run'[i].job))
    BY Zenon DEF Written
<1>. HIDE DEF commits, id
<1>5. LandingsOf(i, id(run[i].job)) # {} => (LandingsOf(i, id(run[i].job)) # {})'
    BY <1>1, <1>2 DEF LandingsOf
<1>. QED
    BY <1>1, <1>3, <1>4, <1>5

LEMMA LandedStays ==
    ASSUME TableInv, Grows, NEW id, Landed(id, loads)
    PROVE  Landed(id, loads)'
BY GrowsFacts DEF Landed

(* Commits and records that were sound remain so. *)
LEMMA CommitStays ==
    ASSUME IInv, Grows, \A j \in Invocations : Follows(run[j], run'[j]),
           NEW n \in DOMAIN history, NEW c, c = history[n]
    PROVE  CommitInv(c)' /\ InOrder(c)'
<1>1. TableInv /\ CommitInv(c) /\ InOrder(c)
    BY DEF IInv, HistoryInv, OrderInv
<1>2. c.by \in Authors /\ c.seen \in Nat /\ c.alone \in BOOLEAN
    BY <1>1, CommitFields
<1>3. c.by \in Invocations => run[c.by].pc # "idle"
    BY DEF IInv, AccountInv
<1>4. c.by \in Invocations => /\ run'[c.by].job = run[c.by].job
                              /\ run[c.by].alone => /\ run'[c.by].alone
                                                    /\ run'[c.by].refusal = run[c.by].refusal
    BY <1>3 DEF Follows
<1>5. /\ Len(loads) \in Nat /\ Len(loads') \in Nat /\ Len(loads) <= Len(loads')
      /\ \A m \in 1..Len(loads) : loads'[m] = loads[m]
    BY <1>1, GrowsFacts
<1>6. CommitInv(c)'
    <2>1. c.alone => c.by \in Invocations
        BY <1>1, <1>2 DEF CommitInv, Authors
    <2>2. \A m \in 1..c.seen : loads'[m] = loads[m]
        BY <1>1, <1>2, <1>5 DEF CommitInv
    <2>3. c.seen <= Len(loads')
        BY <1>1, <1>2, <1>5 DEF CommitInv
    <2>. QED
        BY <1>1, <1>4, <2>1, <2>2, <2>3 DEF CommitInv, AsRehearsed
<1>7. InOrder(c)'
    <2>1. SUFFICES ASSUME c.by \in Invocations, ~ c.alone,
                          NEW k \in DOMAIN run'[c.by].job.order, c.id = IdAt(run'[c.by], k),
                          NEW l \in 1..(k - 1)
                   PROVE  Written(c.by, l)'
        BY DEF InOrder
    <2>2. c.id = IdAt(run[c.by], k) /\ k \in DOMAIN run[c.by].job.order
        BY <1>4, <2>1 DEF IdAt
    <2>3. Written(c.by, l)
        BY <1>1, <2>1, <2>2 DEF InOrder
    <2>4. Follows(run[c.by], run'[c.by])
        BY <2>1
    <2>. QED
        BY <1>1, <1>3, <2>1, <2>3, <2>4, WrittenStays
<1>. QED
    BY <1>6, <1>7

LEMMA ToldStays ==
    ASSUME IInv, Grows, \A j \in Invocations : Follows(run[j], run'[j]), NEW s, Told(s)
    PROVE  Told(s)'
<1>1. TableInv
    BY DEF IInv
<1>2. /\ s.by \in Invocations /\ run[s.by].pc # "idle" /\ run'[s.by].pc # "idle"
      /\ run'[s.by].job = run[s.by].job
    BY DEF Told, Follows
<1>3. \A l : Written(s.by, l) => Written(s.by, l)'
    BY <1>1, <1>2, WrittenStays
<1>. QED
    BY <1>2, <1>3 DEF Told

LEMMA InIsWritten ==
    ASSUME NEW i, NEW k
    PROVE  Written(i, k) <=> In(i, run[i], k)
BY Zenon DEF Written, In, IdAt

(* The primed invariant of a run, by the run it is of. *)
LEMMA RunNow ==
    ASSUME NEW i, NEW z, run'[i] = z
    PROVE  /\ RunInv(run[i])' <=> RunInv(z)
           /\ AccountInv(i, run[i])' <=> AccountInv(i, z)'
           /\ LogInv(run[i])' <=> LogInv(z)'
           /\ AloneInv(run[i])' <=> AloneInv(z)'
           /\ ReadInv(run[i])' <=> ReadInv(z)'
<1>1. RunInv(run[i])' <=> RunInv(z)
    OBVIOUS
<1>2. AccountInv(i, run[i])' <=> AccountInv(i, z)'
    BY DEF AccountInv
<1>3. LogInv(run[i])' <=> LogInv(z)'
    BY DEF LogInv
<1>4. AloneInv(run[i])' <=> AloneInv(z)'
    BY DEF AloneInv, Justified
<1>5. ReadInv(run[i])' <=> ReadInv(z)'
    BY DEF ReadInv
<1>. QED
    BY <1>1, <1>2, <1>3, <1>4, <1>5

\* A step of somebody else than i, as i's account tells it.
Apart(i) ==
    /\ Grows
    /\ history' # history => history'[Len(history')].by # i
    /\ loads' # loads => loads'[Len(loads')].by # i
    /\ history' = history => rows' = rows

\* What the table and the logs say of i is as it was.
LEMMA ApartAccount ==
    ASSUME TableInv, NEW i \in Invocations, Apart(i)
    PROVE  /\ \A n \in DOMAIN history' : history'[n].by = i => n \in DOMAIN history
           /\ \A m \in DOMAIN loads' : loads'[m].by = i => m \in DOMAIN loads
           /\ \A id : LandingsOf(i, id)' = LandingsOf(i, id)
           /\ \A id : LoggedBy(i, id)' = LoggedBy(i, id)
<1>1. Grows
    BY DEF Apart
<1>2. /\ \A n \in DOMAIN history' : history'[n].by = i => n \in DOMAIN history
      /\ \A m \in DOMAIN loads' : loads'[m].by = i => m \in DOMAIN loads
    BY <1>1, GrowsFacts DEF Apart
<1>3. /\ \A n \in DOMAIN history : n \in DOMAIN history' /\ history'[n] = history[n]
      /\ \A m \in DOMAIN loads : m \in DOMAIN loads' /\ loads'[m] = loads[m]
    BY <1>1, GrowsFacts
<1>4. \A id : LandingsOf(i, id)' = LandingsOf(i, id)
    BY <1>2, <1>3 DEF LandingsOf
<1>5. \A id : LoggedBy(i, id)' = LoggedBy(i, id)
    BY <1>2, <1>3 DEF LoggedBy
<1>. QED
    BY <1>2, <1>4, <1>5

LEMMA ApartKeeps ==
    ASSUME TableInv, NEW i \in Invocations, Apart(i), NEW x,
           RunInv(x), AccountInv(i, x), LogInv(x), AloneInv(x), ReadInv(x)
    PROVE  AccountInv(i, x)' /\ LogInv(x)' /\ AloneInv(x)' /\ ReadInv(x)'
<1>1. Grows
    BY DEF Apart
<1>2. /\ \A n \in DOMAIN history : n \in DOMAIN history' /\ history'[n] = history[n]
      /\ \A m \in DOMAIN loads : m \in DOMAIN loads' /\ loads'[m] = loads[m]
      /\ Len(loads) <= Len(loads') /\ Len(loads) \in Nat /\ Len(loads') \in Nat
      /\ Len(history) <= Len(history') /\ Len(history) \in Nat /\ Len(history') \in Nat
      /\ DOMAIN loads = 1..Len(loads)
    BY <1>1, GrowsFacts
<1>3. AccountInv(i, x)'
    <2>1. /\ \A n \in DOMAIN history' : history'[n].by = i =>
                /\ n \in DOMAIN history /\ history'[n] = history[n]
          /\ \A m \in DOMAIN loads' : loads'[m].by = i =>
                /\ m \in DOMAIN loads /\ loads'[m] = loads[m]
        BY <1>2, ApartAccount
    <2>2. /\ \A id : LandingsOf(i, id)' = LandingsOf(i, id)
          /\ \A id : LoggedBy(i, id)' = LoggedBy(i, id)
        BY ApartAccount
    <2>3. \A k : In(i, x, k)' <=> In(i, x, k)
        BY <2>2 DEF In
    <2>4. \A id : \A m \in LoggedBy(i, id) : loads'[m] = loads[m]
        BY <1>2 DEF LoggedBy
    <2>. QED
        BY <1>2, <2>1, <2>2, <2>3, <2>4 DEF AccountInv
<1>4. LogInv(x)'
    <2>1. x.seen \in Nat
        BY DEF RunInv, RunState
    <2>. QED
        BY <1>2, <2>1 DEF LogInv
<1>5. AloneInv(x)'
    <2>1. Landed(LoadId(x), loads) => Landed(LoadId(x), loads)'
        BY <1>1, LandedStays
    <2>. QED
        BY <2>1 DEF AloneInv, Justified
<1>6. ReadInv(x)'
    <2>1. x.snap \in Nat
        BY DEF RunInv, RunState
    <2>2. CASE history' = history
        BY <2>2 DEF ReadInv, Apart, Snapshot
    <2>3. CASE history' # history
        <3>1. Len(history') > Len(history)
            <4>1. PICK c \in Commit : history' = Append(history, c)
                BY <1>1, <2>3 DEF Grows
            <4>2. history \in Seq(Commit)
                BY DEF TableInv
            <4>3. Len(history') = Len(history) + 1
                BY <4>1, <4>2
            <4>. QED
                BY <1>2, <4>3
        <3>. QED
            BY <1>2, <2>1, <3>1 DEF ReadInv, Snapshot
    <2>. QED
        BY <2>2, <2>3
<1>. QED
    BY <1>3, <1>4, <1>5, <1>6

-----------------------------------------------------------------------------
(* The steps of an invocation that neither write nor record. *)

\* Nothing but the run changes.
Privately(i, y) ==
    /\ run' = [run EXCEPT ![i] = y]
    /\ UNCHANGED <<table, logs>>

LEMMA IInvFacts ==
    ASSUME IInv, NEW i \in Invocations
    PROVE  /\ TableInv /\ run \in [Invocations -> RunState] /\ run[i] \in RunState
           /\ RunInv(run[i]) /\ AccountInv(i, run[i]) /\ LogInv(run[i])
           /\ AloneInv(run[i]) /\ ReadInv(run[i])
BY DEF IInv

(* What is said of a run that a step is apart from. *)
LEMMA ApartKept ==
    ASSUME IInv, NEW j \in Invocations, run'[j] = run[j], Apart(j)
    PROVE  /\ RunInv(run[j])' /\ AccountInv(j, run[j])' /\ LogInv(run[j])'
           /\ AloneInv(run[j])' /\ ReadInv(run[j])'
<1>1. PICK z : z = run[j]
    OBVIOUS
<1>2. TableInv /\ RunInv(z) /\ AccountInv(j, z) /\ LogInv(z) /\ AloneInv(z) /\ ReadInv(z)
    BY <1>1, IInvFacts
<1>3. AccountInv(j, z)' /\ LogInv(z)' /\ AloneInv(z)' /\ ReadInv(z)'
    BY <1>2, ApartKeeps
<1>. QED
    BY <1>1, <1>2, <1>3, RunNow

(* The invariant, when it holds of every run after a step, and what the step    *)
(* commits and tells is sound.                                                  *)
LEMMA AllKeep ==
    ASSUME IInv, run' \in [Invocations -> RunState],
           exists' \in BOOLEAN, rows' \subseteq Row, IsFiniteSet(rows'), Grows,
           \A j \in Invocations :
              /\ Follows(run[j], run'[j])
              /\ RunInv(run[j])' /\ AccountInv(j, run[j])' /\ LogInv(run[j])'
              /\ AloneInv(run[j])' /\ ReadInv(run[j])',
           history' # history =>
              \A c \in Commit : c = history'[Len(history')] => CommitInv(c)' /\ InOrder(c)',
           \A s \in sequences' : s \in sequences \/ Told(s)'
    PROVE  IInv'
<1>1. TableInv'
    BY GrowsFacts DEF IInv, TableInv
<1>2. \A n \in DOMAIN history' : CommitInv(history[n])' /\ InOrder(history[n])'
    <2>1. SUFFICES ASSUME NEW n \in DOMAIN history', NEW c, c = history'[n]
                   PROVE  CommitInv(c)' /\ InOrder(c)'
        BY DEF CommitInv, InOrder
    <2>2. c \in Commit
        BY <1>1, <2>1 DEF TableInv
    <2>3. CASE n \in DOMAIN history
        BY <2>1, <2>3, CommitStays, GrowsFacts DEF IInv
    <2>4. CASE n \notin DOMAIN history
        <3>1. n = Len(history') /\ history' # history
            BY <2>1, <2>4, GrowsFacts DEF IInv
        <3>. QED
            BY <2>1, <2>2, <3>1
    <2>. QED
        BY <2>3, <2>4
<1>3. HistoryInv'
    BY <1>2 DEF HistoryInv
<1>4. OrderInv'
    <2>1. \A s \in sequences : Told(s)'
        BY ToldStays DEF IInv, OrderInv
    <2>. QED
        BY <1>2, <2>1 DEF OrderInv
<1>. QED
    BY <1>1, <1>3, <1>4 DEF IInv

(* A step of i keeps the invariant when it keeps what is said of i. *)
LEMMA StepKeeps ==
    ASSUME IInv, NEW i \in Invocations, NEW y, run' = [run EXCEPT ![i] = y],
           exists' \in BOOLEAN, rows' \subseteq Row, IsFiniteSet(rows'), Grows,
           \A j \in Invocations \ {i} : Apart(j),
           Follows(run[i], y), RunInv(y),
           AccountInv(i, y)', LogInv(y)', AloneInv(y)', ReadInv(y)',
           history' # history =>
              \A c \in Commit : c = history'[Len(history')] => CommitInv(c)' /\ InOrder(c)',
           \A s \in sequences' : s \in sequences \/ Told(s)'
    PROVE  IInv'
<1>1. /\ run \in [Invocations -> RunState] /\ y \in RunState /\ run'[i] = y
      /\ \A j \in Invocations \ {i} : run'[j] = run[j]
    BY DEF IInv, RunInv
<1>2. run' \in [Invocations -> RunState]
    BY <1>1
<1>3. \A j \in Invocations : Follows(run[j], run'[j])
    BY <1>1 DEF Follows
<1>4. ASSUME NEW j \in Invocations
      PROVE  /\ RunInv(run[j])' /\ AccountInv(j, run[j])' /\ LogInv(run[j])'
             /\ AloneInv(run[j])' /\ ReadInv(run[j])'
    <2>1. CASE j = i
        BY <1>1, <2>1, RunNow
    <2>2. CASE j # i
        BY <1>1, <2>2, ApartKept
    <2>. QED
        BY <2>1, <2>2
<1>. QED
    BY <1>2, <1>3, <1>4, AllKeep

LEMMA MovesAccount ==
    ASSUME TableInv, NEW i \in Invocations, NEW x, NEW y, AccountInv(i, x), Moves(x, y),
           x.pc # "dead", UNCHANGED <<history, loads>>
    PROVE  AccountInv(i, y)'
<1>1. /\ y.pc # "idle" /\ y.job = x.job /\ y.unlogged = x.unlogged
      /\ Ahead(y) \subseteq Ahead(x) /\ Behind(y) \subseteq Behind(x)
      /\ y.pc = "record" => y.at \in Ahead(x) /\ y.status \in {"refused", "failed"}
      /\ x.pc = "record" => y.pc = "dead"
      /\ y.pc = "record" => ~ y.dry
    BY DEF Moves, RunInv
<1>2. /\ \A id : LandingsOf(i, id)' = LandingsOf(i, id)
      /\ \A id : LoggedBy(i, id)' = LoggedBy(i, id)
    BY DEF LandingsOf, LoggedBy
<1>3. /\ \A k : IdAt(y, k) = IdAt(x, k)
      /\ \A id : OfOrder(y, id) <=> OfOrder(x, id)
      /\ y.pc = "record" => LoadId(y) = IdAt(x, y.at)
    BY <1>1 DEF IdAt, OfOrder, LoadId, Entry, FileName
<1>4. \A k : In(i, y, k)' <=> In(i, x, k)
    BY <1>2, <1>3 DEF In
<1>5. y.pc = "record" => /\ LoggedBy(i, LoadId(y))' = {}
                         /\ Agrees(y.status, LandingsOf(i, LoadId(y)), Commits(File(y), Mode(y)))'
    <2>1. y.pc = "record" => /\ LoggedBy(i, LoadId(y)) = {} /\ LandingsOf(i, LoadId(y)) = {}
                             /\ y.status # "applied"
        BY <1>1, <1>3 DEF AccountInv
    <2>. QED
        BY <1>2, <2>1 DEF Agrees
<1>6. \A n \in DOMAIN history : history[n].by = i =>
          \/ y.unlogged \/ y.pc = "dead"
          \/ \E m \in LoggedBy(i, history[n].id) : loads[m].status \in {"applied", "failed"}
    BY <1>1 DEF AccountInv
<1>7. /\ \A n \in DOMAIN history : history[n].by = i => OfOrder(x, history[n].id)
      /\ \A m \in DOMAIN loads : loads[m].by = i => OfOrder(x, loads[m].id)
      /\ \A id \in Ids : LandingsOf(i, id) = {} \/ \E n \in DOMAIN history : LandingsOf(i, id) = {n}
      /\ \A k \in Ahead(y) : LandingsOf(i, IdAt(x, k)) = {} /\ LoggedBy(i, IdAt(x, k)) = {}
      /\ \A k \in Behind(y) : In(i, x, k)
      /\ \A m \in DOMAIN loads : loads[m].by = i =>
            Agrees(loads[m].status, LandingsOf(i, loads[m].id),
                   Commits(Files[loads[m].id[2]], Entries[loads[m].id[1]].mode))
    BY <1>1 DEF AccountInv
<1>8. /\ history' = history /\ loads' = loads
    OBVIOUS
<1>. QED
    BY <1>1, <1>2, <1>3, <1>4, <1>5, <1>6, <1>7, <1>8 DEF AccountInv

(* A step that only moves the run keeps the invariant. *)
LEMMA MoveKeeps ==
    ASSUME IInv, NEW i \in Invocations, NEW y, Privately(i, y), Moves(run[i], y),
           run[i].pc \notin {"idle", "dead"},
           LogInv(y), AloneInv(y), ReadInv(y)
    PROVE  IInv'
<1>1. /\ exists' = exists /\ rows' = rows /\ history' = history /\ loads' = loads
      /\ sequences' = sequences /\ run' = [run EXCEPT ![i] = y]
    BY DEF Privately, table, logs
<1>2. TableInv /\ AccountInv(i, run[i])
    BY IInvFacts
<1>3. Grows /\ \A j \in Invocations \ {i} : Apart(j)
    BY <1>1 DEF Grows, Apart
<1>4. PICK x : x = run[i]
    OBVIOUS
<1>5. AccountInv(i, y)'
    BY <1>1, <1>2, <1>4, MovesAccount
<1>6. LogInv(y)' /\ AloneInv(y)' /\ ReadInv(y)'
    BY <1>1 DEF LogInv, AloneInv, Justified, Landed, ReadInv, Snapshot
<1>7. Follows(run[i], y) /\ RunInv(y)
    BY DEF Moves, Follows
<1>. QED
    BY <1>1, <1>2, <1>3, <1>5, <1>6, <1>7, StepKeeps DEF TableInv

(* A load that stops for a reason that stops it again. *)
LEMMA StopKeeps ==
    ASSUME IInv, NEW i \in Invocations, NEW z, Alike(run[i], z), run[i].pc \in Loading,
           z.seen <= Len(loads), z.snap <= Snapshot,
           NEW y, Privately(i, y),
           Passes(z, y) \/ \E why \in SUBSET Failures : Stops(z, y, why) /\ Refuses(z, why)
    PROVE  IInv'
<1>1. TableInv
    BY DEF IInv
<1>2. PICK why : Stops(z, y, why) /\ (y.pc = "landed" /\ y.alone => Refuses(z, why))
    BY DEF Passes
<1>3. /\ Moves(z, y) /\ y.seen \in {0, z.seen} /\ y.snap \in {0, z.snap}
      /\ y.pc \notin Loading \ {"landed"}
      /\ y.pc = "landed" /\ y.alone => y.at = z.at /\ y.refusal = why
    BY <1>2 DEF Stops
<1>4. y.seen <= Len(loads) /\ y.snap <= Snapshot
    <2>1. 0 <= Len(loads) /\ 0 <= Snapshot
        BY <1>1 DEF TableInv, Snapshot
    <2>. QED
        BY <1>3, <2>1
<1>5. LogInv(y) /\ ReadInv(y)
    BY <1>3, <1>4 DEF LogInv, ReadInv, Loading
<1>6. AloneInv(y)
    <2>1. SUFFICES ASSUME y.alone, y.pc = "landed", Unchanged(y)
                   PROVE  Justified(y, y.refusal)
        BY <1>3 DEF AloneInv, Loading
    <2>2. y.job = z.job /\ y.at = z.at /\ y.refusal = why /\ Refuses(z, why)
        BY <1>2, <1>3, <2>1 DEF Moves
    <2>3. Entry(y) = Entry(z) /\ File(y) = File(z) /\ Mode(y) = Mode(z) /\ LoadId(y) = LoadId(z)
        BY <2>1, <2>2 DEF Entry, File, FileName, Mode, LoadId, Unchanged
    <2>4. Passable(y) <=> Passable(z)
        BY <2>2, <2>3 DEF Passable
    <2>. QED
        BY <2>1, <2>2, <2>3, <2>4 DEF Justified, Refuses
<1>7. Moves(run[i], y)
    BY <1>3, AlikeFacts
<1>. QED
    BY <1>5, <1>6, <1>7, MoveKeeps DEF Loading

(* A load that goes on, with what it has read. *)
LEMMA GoesOnKeeps ==
    ASSUME IInv, NEW i \in Invocations, NEW z, Alike(run[i], z), run[i].pc \in Loading,
           NEW y, Privately(i, y), GoesOn(z, y),
           run[i].pc = "landed" =>
              /\ ~ Entries[Entry(z)].withheld /\ z.seen = Len(loads)
              /\ z.blind \/ ~ Landed(LoadId(z), loads),
           run[i].pc # "landed" => z.seen = run[i].seen /\ z.blind = run[i].blind,
           y.snap <= Snapshot,
           y.pc \in {"rejects", "commit"} /\ Mode(z) = "merge" =>
              /\ IsFiniteSet(y.read) /\ ~ Ambiguous(File(z), y.read)
              /\ y.snap = Snapshot => y.read = {w \in rows : w.key \in KeysOf(File(z))}
    PROVE  IInv'
<1>1. /\ Moves(z, y) /\ y.pc \in Loading \ {"landed"}
      /\ y.seen = z.seen /\ y.blind = z.blind /\ y.at = z.at /\ y.dry = z.dry
      /\ y.alone = z.alone /\ y.refusal = z.refusal /\ y.job = z.job
    BY DEF GoesOn, Moves
<1>2. /\ TableInv /\ LogInv(run[i]) /\ AloneInv(run[i])
    BY IInvFacts
<1>3. Entry(y) = Entry(z) /\ File(y) = File(z) /\ Mode(y) = Mode(z) /\ LoadId(y) = LoadId(z)
    BY <1>1 DEF Entry, File, FileName, Mode, LoadId
<1>4. Passable(y) <=> Passable(z)
    BY <1>1, <1>3 DEF Passable
<1>5. /\ LoadId(z) = LoadId(run[i]) /\ File(z) = File(run[i]) /\ Mode(z) = Mode(run[i])
      /\ Entry(z) = Entry(run[i])
      /\ Passable(z) <=> Passable(run[i])
    BY AlikeFacts
<1>6. LogInv(y)
    <2>1. CASE run[i].pc = "landed"
        <3>1. /\ \A m \in DOMAIN loads :
                    loads[m].id = LoadId(z) => loads[m].status = "refused" \/ z.blind
              /\ DOMAIN loads = 1..Len(loads) /\ Len(loads) \in Nat
            <4>1. \A m \in DOMAIN loads : loads[m].status \in {"applied", "refused", "failed"}
                BY <1>2, LoadFields
            <4>. QED
                BY <1>2, <2>1, <4>1 DEF Landed, TableInv
        <3>. QED
            BY <1>1, <1>3, <2>1, <3>1 DEF LogInv
    <2>2. CASE run[i].pc # "landed"
        BY <1>1, <1>2, <1>3, <1>5, <2>2 DEF LogInv, Loading
    <2>. QED
        BY <2>1, <2>2
<1>7. AloneInv(y)
    <2>1. SUFFICES ASSUME y.alone, Unchanged(y), ~ y.blind PROVE Justified(y, y.refusal)
        BY <1>1 DEF AloneInv, Loading
    <2>2. run[i].alone /\ run[i].refusal = y.refusal /\ Unchanged(run[i])
        BY <1>1, <1>3, <1>5, <2>1 DEF Alike, Unchanged
    <2>3. Justified(run[i], y.refusal)
        BY <1>1, <1>2, <2>1, <2>2 DEF AloneInv, Loading
    <2>4. TurnsOnly(y.refusal) \/ ~ Passable(run[i]) \/ Empties(File(run[i]), Mode(run[i]))
        BY <1>1, <1>5, <2>1, <2>3 DEF Justified
    <2>. QED
        BY <1>3, <1>4, <1>5, <2>4 DEF Justified
<1>8. ReadInv(y)
    BY <1>3 DEF ReadInv
<1>9. Moves(run[i], y)
    BY <1>1, AlikeFacts
<1>. QED
    BY <1>6, <1>7, <1>8, <1>9, MoveKeeps DEF Loading

(* What is known of a run that has a load to see through. *)
LEMMA DueRun ==
    ASSUME IInv, NEW i \in Invocations, NEW x, x = run[i], x.pc \in Loading
    PROVE  /\ TableInv /\ x \in RunState /\ Due(x) /\ Screened(x)
           /\ AccountInv(i, x) /\ LogInv(x) /\ AloneInv(x) /\ ReadInv(x)
           /\ File(x) \in FileRecords /\ Mode(x) \in Modes /\ LoadId(x) \in Ids
           /\ x.job.reject \in BOOLEAN
<1>1. /\ TableInv /\ x \in RunState /\ RunInv(x)
      /\ AccountInv(i, x) /\ LogInv(x) /\ AloneInv(x) /\ ReadInv(x)
    BY IInvFacts
<1>2. Due(x) /\ Screened(x)
    BY <1>1 DEF RunInv, Running, Due, Loading
<1>3. File(x) \in FileRecords /\ Mode(x) \in Modes /\ LoadId(x) \in Ids
    BY <1>2, LoadFacts DEF Due
<1>4. x.job.reject \in BOOLEAN
    BY <1>2, IngestAssumption DEF Due, JobRecords
<1>. QED
    BY <1>1, <1>2, <1>3, <1>4

LEMMA StepsPrivately ==
    ASSUME NEW i, NEW y, Steps(i, y), UNCHANGED <<table, logs>>
    PROVE  Privately(i, y)
BY DEF Steps, Privately

(* With only its log read, or its snapshot, a run is still the same load. *)
LEMMA NoticedAlike ==
    ASSUME NEW x \in RunState, NEW n \in Nat
    PROVE  /\ Alike(x, [x EXCEPT !.snap = n])
           /\ [x EXCEPT !.snap = n].snap = n /\ [x EXCEPT !.snap = n].seen = x.seen
           /\ [x EXCEPT !.snap = n].why = x.why /\ [x EXCEPT !.snap = n].blind = x.blind
BY DEF Alike, RunState

LEMMA AlikeDue ==
    ASSUME NEW x, NEW z, Alike(x, z), Due(x)
    PROVE  Due(z)
<1>1. Counted(z)
    BY AlikeFacts DEF Due, Loading
<1>. QED
    BY <1>1 DEF Alike, Due

(* _posture, _load_id and _check_columns. *)
LEMMA ReadLogKeeps ==
    ASSUME IInv, NEW i \in Invocations, ReadLog(i)
    PROVE  IInv'
<1>1. PICK x : x = run[i]
    OBVIOUS
<1>2. x.pc = "landed"
    <2>1. run[i] \in RunState
        BY IInvFacts
    <2>. QED
        BY <1>1, <2>1 DEF ReadLog, RunState
<1>3. /\ TableInv /\ x \in RunState /\ Due(x) /\ ReadInv(x) /\ Len(loads) \in Nat
    BY <1>1, <1>2, DueRun DEF Loading, TableInv
<1>. DEFINE step(z) == IF Entries[Entry(z)].withheld THEN Ended([z EXCEPT !.why = {"masked_property"}], "refused")
                       ELSE IF Repeats(z) THEN Concluded(z, "refused", {"duplicate_load"})
                       ELSE [z EXCEPT !.pc = "table", !.why = ColumnFailures(File(z))]
<1>. DEFINE read(blind) == [x EXCEPT !.seen = Len(loads), !.blind = blind]
<1>a. PICK blind \in BOOLEAN : Steps(i, step(read(blind)))
    BY <1>1, Zenon DEF ReadLog, OnRecord
<1>b. PICK z : z = read(blind)
    OBVIOUS
<1>4. z = [x EXCEPT !.seen = Len(loads), !.blind = blind] /\ Steps(i, step(z))
    BY <1>a, <1>b
<1>. HIDE DEF read
<1>. HIDE DEF step
<1>5. /\ Alike(x, z) /\ z.seen = Len(loads) /\ z.snap = x.snap /\ z \in RunState
      /\ z.blind \in BOOLEAN
    <2>1. z = [x EXCEPT !.seen = Len(loads), !.blind = blind]
        BY <1>4
    <2>2. Alike(x, z) /\ z.seen = Len(loads) /\ z.snap = x.snap /\ z.blind = blind
        <3>1. x \in RunState /\ Len(loads) \in Nat
            BY <1>3
        <3>. QED
            BY <2>1, <3>1 DEF Alike, RunState
    <2>. QED
        BY <2>2 DEF Alike
<1>6. PICK y : y = step(z)
    OBVIOUS
<1>7. Privately(i, y)
    BY <1>4, <1>6, StepsPrivately DEF ReadLog
<1>. USE DEF step
<1>8. Due(z) /\ z.pc = "landed" /\ z.snap <= Snapshot
    BY <1>2, <1>3, <1>5, AlikeDue DEF Alike, ReadInv
<1>9. CASE Entries[Entry(z)].withheld
    <2>1. PICK w : w = [z EXCEPT !.why = {"masked_property"}]
        OBVIOUS
    <2>2. /\ w \in RunState /\ w.pc = z.pc /\ w.job = z.job /\ w.at = z.at /\ w.dry = z.dry
          /\ w.alone = z.alone /\ w.why = {"masked_property"} /\ w.snap = z.snap /\ w.seen = z.seen
          /\ w.landed = z.landed /\ w.unlogged = z.unlogged /\ w.refusal = z.refusal
        BY <1>5, <2>1 DEF RunState, Failures
    <2>3. y = Ended(w, "refused")
        BY <1>6, <1>9, <2>1
    <2>4. Alike(z, w) /\ Due(w)
        BY <1>8, <2>2, AlikeDue DEF Alike
    <2>5. Stops(w, y, {"masked_property"})
        <3>1. CASE w.dry
            <4>1. y = Rehearsed(w, "refused")
                BY <2>3, <3>1 DEF Ended
            <4>2. Noted(w, w, {"masked_property"}) /\ {"masked_property"} \in SUBSET Failures
                BY <2>2 DEF Noted, Failures
            <4>. QED
                BY <2>4, <3>1, <4>1, <4>2, RehearsalEnds
        <3>2. CASE ~ w.dry
            <4>1. y = Loaded(w, "refused")
                BY <2>3, <3>2 DEF Ended
            <4>2. /\ w.job \in Jobs /\ w.at \in DOMAIN w.job.order /\ Counted(w) /\ w.pc = "landed"
                BY <1>8, <2>2, <2>4 DEF Due
            <4>3. /\ RunInv(y) /\ y.pc \in {"landed", "sequence", "done"}
                  /\ y.job = w.job /\ y.unlogged = w.unlogged /\ y.alone = w.alone
                  /\ y.refusal = w.refusal
                  /\ Ahead(y) \subseteq Ahead(w)
                  /\ Behind(y) \subseteq Behind(w) \cup {k \in {w.at} : Ok("refused") /\ ~ w.alone}
                  /\ y.seen \in {0, w.seen} /\ y.snap \in {0, w.snap}
                  /\ y.pc = "landed" => ~ y.alone
                BY <2>2, <3>2, <4>1, <4>2, LoadEnds
            <4>4. ~ Ok("refused")
                BY DEF Ok
            <4>. QED
                BY <4>2, <4>3, <4>4 DEF Stops, Moves, Loading
        <3>. QED
            BY <3>1, <3>2
    <2>6. Alike(x, w)
        BY <1>5, <2>2 DEF Alike
    <2>7. Refuses(w, {"masked_property"}) /\ {"masked_property"} \in SUBSET Failures
        BY <1>9, <2>2 DEF Refuses, Entry, Failures
    <2>8. w.seen <= Len(loads) /\ w.snap <= Snapshot
        BY <1>3, <1>5, <1>8, <2>2
    <2>. QED
        BY <1>1, <1>2, <1>7, <2>5, <2>6, <2>7, <2>8, StopKeeps DEF Loading
<1>10. CASE ~ Entries[Entry(z)].withheld /\ Repeats(z)
    <2>1. y = Concluded(z, "refused", {"duplicate_load"})
        BY <1>6, <1>10
    <2>2. Stops(z, y, {"duplicate_load"}) /\ {"duplicate_load"} \in SUBSET Failures
        BY <1>8, <2>1, ConcludedStops DEF Failures
    <2>3. Refuses(z, {"duplicate_load"})
        BY <1>10 DEF Refuses, Repeats, Recorded, Landed
    <2>. QED
        BY <1>1, <1>2, <1>3, <1>5, <1>7, <1>8, <2>2, <2>3, StopKeeps DEF Loading
<1>11. CASE ~ Entries[Entry(z)].withheld /\ ~ Repeats(z)
    <2>1. y = [z EXCEPT !.pc = "table", !.why = ColumnFailures(File(z))]
        BY <1>6, <1>11
    <2>2. ColumnFailures(File(z)) \in SUBSET Failures
        BY FailuresFound
    <2>3. /\ y \in RunState /\ y.pc = "table" /\ y.job = z.job /\ y.at = z.at /\ y.dry = z.dry
          /\ y.alone = z.alone /\ y.refusal = z.refusal /\ y.seen = z.seen /\ y.landed = z.landed
          /\ y.unlogged = z.unlogged /\ y.why = ColumnFailures(File(z)) /\ y.snap = z.snap
          /\ y.blind = z.blind
        BY <1>5, <2>1, <2>2 DEF RunState, PCs
    <2>4. File(y) = File(z)
        BY <2>3 DEF File, FileName, Entry
    <2>5. Screened(y)
        BY <2>3, <2>4 DEF Screened
    <2>6. GoesOn(z, y)
        BY <1>8, <2>3, <2>5, StepOn DEF Loading
    <2>7. z.blind \/ ~ Landed(LoadId(z), loads)
        BY <1>11 DEF Repeats, Recorded
    <2>. QED
        BY <1>1, <1>2, <1>5, <1>7, <1>8, <1>11, <2>3, <2>6, <2>7, GoesOnKeeps DEF Loading
<1>. QED
    BY <1>9, <1>10, <1>11

(* _check_table, and _rows on the file. *)
LEMMA CheckTableKeeps ==
    ASSUME IInv, NEW i \in Invocations, CheckTable(i)
    PROVE  IInv'
<1>1. PICK x : x = run[i]
    OBVIOUS
<1>2. x.pc = "table" /\ x.pc \in Loading
    BY <1>1 DEF CheckTable, Loading
<1>3. /\ TableInv /\ x \in RunState /\ Due(x) /\ Screened(x) /\ LogInv(x) /\ ReadInv(x)
      /\ File(x) \in FileRecords /\ Mode(x) \in Modes
    BY <1>1, <1>2, DueRun
<1>0. PICK found \in BOOLEAN :
          Steps(i, IF x.why \cup TableFailures(Mode(x), found) # {}
                   THEN Concluded(x, "refused", x.why \cup TableFailures(Mode(x), found))
                   ELSE IF ~ Absorbed(LineFailures(File(x)), x.job.reject)
                        THEN Concluded(x, "refused", LineFailures(File(x)))
                   ELSE IF Mode(x) = "append" THEN Decided(x, LineFailures(File(x)), {})
                   ELSE [x EXCEPT !.pc = "snapshot", !.why = LineFailures(File(x))])
    BY <1>1, <1>3 DEF CheckTable, TableInv
<1>. DEFINE failures == x.why \cup TableFailures(Mode(x), found)
            lines == LineFailures(File(x))
<1>4. PICK y : y = IF failures # {} THEN Concluded(x, "refused", failures)
                   ELSE IF ~ Absorbed(lines, x.job.reject) THEN Concluded(x, "refused", lines)
                   ELSE IF Mode(x) = "append" THEN Decided(x, lines, {})
                   ELSE [x EXCEPT !.pc = "snapshot", !.why = lines]
    OBVIOUS
<1>5. Privately(i, y)
    BY <1>0, <1>4, StepsPrivately DEF CheckTable
<1>6. Alike(x, x) /\ x.seen <= Len(loads) /\ x.snap <= Snapshot
    BY <1>3 DEF Alike, LogInv, ReadInv
<1>7. failures \in SUBSET Failures /\ lines \in SUBSET Failures /\ x.why = ColumnFailures(File(x))
    BY <1>2, <1>3, FailuresFound DEF Screened
<1>8. failures # {} => Refuses(x, failures)
    <2>1. CASE ColumnFailures(File(x)) # {}
        BY <2>1 DEF Refuses, Passable
    <2>2. CASE ColumnFailures(File(x)) = {} /\ ~ found
        <3>1. failures = {"table_missing"}
            BY <1>7, <2>2 DEF TableFailures
        <3>. QED
            BY <3>1 DEF Refuses, TurnsOnly, Surroundings
    <2>3. CASE ColumnFailures(File(x)) = {} /\ found
        BY <1>7, <2>3 DEF Refuses, Passable, TableFailures
    <2>. QED
        BY <2>1, <2>2, <2>3
<1>. HIDE DEF failures, lines
<1>9. CASE failures # {}
    <2>1. Stops(x, y, failures)
        <3>1. y = Concluded(x, "refused", failures)
            BY <1>4, <1>9
        <3>. QED
            BY <1>3, <1>7, <3>1, ConcludedStops
    <2>. QED
        BY <1>1, <1>2, <1>5, <1>6, <1>7, <1>8, <1>9, <2>1, StopKeeps
<1>10. CASE failures = {} /\ ~ Absorbed(lines, x.job.reject)
    <2>1. Stops(x, y, lines)
        <3>1. y = Concluded(x, "refused", lines)
            BY <1>4, <1>10
        <3>. QED
            BY <1>3, <1>7, <3>1, ConcludedStops
    <2>2. Refuses(x, lines)
        BY <1>10 DEF Refuses, Passable, lines
    <2>. QED
        BY <1>1, <1>2, <1>5, <1>6, <1>7, <2>1, <2>2, StopKeeps
<1>11. CASE failures = {} /\ Absorbed(lines, x.job.reject)
    <2>1. Passable(x)
        <3>1. ColumnFailures(File(x)) = {} /\ TableFailures(Mode(x), found) = {}
            BY <1>7, <1>11 DEF failures
        <3>2. Mode(x) = "merge" \/ Orphaned = {}
            BY <3>1 DEF TableFailures
        <3>. QED
            BY <1>11, <3>1, <3>2 DEF Passable, lines
    <2>2. CASE Mode(x) = "append"
        <3>. DEFINE read == {}
        <3>1. y = Decided(x, lines, read) /\ x.pc # "commit" /\ read \in SUBSET Row
            BY <1>2, <1>4, <1>11, <2>2
        <3>. HIDE DEF read
        <3>2. \/ \E why \in SUBSET Failures : Stops(x, y, why) /\ Refuses(x, why)
              \/ Passes(x, y)
              \/ GoesOn(x, y) /\ y.snap = x.snap
            BY <1>3, <1>7, <1>11, <2>1, <3>1, DecidedRun
        <3>. QED
            BY <1>1, <1>2, <1>5, <1>6, <2>2, <3>2, StopKeeps, GoesOnKeeps
    <2>3. CASE Mode(x) # "append"
        <3>1. y = [x EXCEPT !.pc = "snapshot", !.why = lines]
            BY <1>4, <1>11, <2>3
        <3>2. /\ y \in RunState /\ y.pc = "snapshot" /\ y.job = x.job /\ y.at = x.at /\ y.dry = x.dry
              /\ y.alone = x.alone /\ y.refusal = x.refusal /\ y.seen = x.seen /\ y.landed = x.landed
              /\ y.unlogged = x.unlogged /\ y.why = lines /\ y.snap = x.snap /\ y.blind = x.blind
            BY <1>3, <1>7, <3>1 DEF RunState, PCs
        <3>3. File(y) = File(x) /\ Mode(y) = Mode(x)
            BY <3>2 DEF File, FileName, Mode, Entry
        <3>4. Screened(y)
            BY <2>1, <2>3, <3>2, <3>3 DEF Screened, Passable, lines
        <3>5. GoesOn(x, y)
            BY <1>3, <3>2, <3>4, StepOn DEF Loading
        <3>. QED
            BY <1>1, <1>2, <1>5, <1>6, <3>2, <3>5, GoesOnKeeps
    <2>. QED
        BY <2>2, <2>3
<1>. QED
    BY <1>9, <1>10, <1>11

(* current_snapshot_id, before the rows are read. *)
LEMMA ReadSnapshotKeeps ==
    ASSUME IInv, NEW i \in Invocations, ReadSnapshot(i)
    PROVE  IInv'
<1>1. PICK x : x = run[i]
    OBVIOUS
<1>2. run[i] \in RunState /\ Len(history) \in Nat
    BY IInvFacts DEF TableInv
<1>3. PICK z : z = [x EXCEPT !.snap = Snapshot]
    OBVIOUS
<1>4. x \in RunState /\ Snapshot \in Nat
    BY <1>1, <1>2 DEF Snapshot
<1>5. /\ Alike(x, z) /\ z.seen = x.seen /\ z.snap = Snapshot /\ z \in RunState /\ z.why = x.why
      /\ z.blind = x.blind /\ Snapshot \in Nat
    BY <1>4, <1>3, NoticedAlike DEF Alike
<1>6. PICK y : y = IF Mode(z) = "merge" THEN [z EXCEPT !.pc = "scan"] ELSE Decided(z, z.why, {})
    OBVIOUS
<1>7. Privately(i, y) /\ z.pc = "snapshot"
    BY <1>1, <1>3, <1>6, StepsPrivately DEF ReadSnapshot
<1>8. x.pc = "snapshot" /\ x.pc \in Loading
    BY <1>5, <1>7 DEF Alike, Loading
<1>9. TableInv /\ Due(x) /\ Screened(x) /\ LogInv(x)
    BY <1>1, <1>8, DueRun
<1>10. /\ Due(z) /\ Passable(z) /\ z.why = LineFailures(File(z)) /\ z.seen <= Len(loads)
      /\ File(z) = File(x) /\ Mode(z) = Mode(x)
    BY <1>5, <1>8, <1>9, AlikeDue, AlikeFacts DEF Screened, LogInv
<1>11. CASE Mode(z) = "merge"
    <2>1. y = [z EXCEPT !.pc = "scan"]
        BY <1>6, <1>11
    <2>2. /\ y \in RunState /\ y.pc = "scan" /\ y.job = z.job /\ y.at = z.at /\ y.dry = z.dry
          /\ y.alone = z.alone /\ y.refusal = z.refusal /\ y.seen = z.seen /\ y.landed = z.landed
          /\ y.unlogged = z.unlogged /\ y.why = z.why /\ y.snap = z.snap /\ y.blind = z.blind
        BY <1>5, <2>1 DEF RunState, PCs
    <2>3. File(y) = File(z) /\ Mode(y) = Mode(z)
        BY <2>2 DEF File, FileName, Mode, Entry
    <2>4. Screened(y)
        BY <1>10, <1>11, <2>2, <2>3 DEF Screened, Passable
    <2>5. GoesOn(z, y)
        BY <1>10, <2>2, <2>4, StepOn DEF Loading
    <2>. QED
        BY <1>1, <1>5, <1>7, <1>8, <2>2, <2>5, GoesOnKeeps
<1>12. CASE Mode(z) # "merge"
    <2>1. y = Decided(z, z.why, {}) /\ z.why \in SUBSET Failures
        BY <1>6, <1>10, <1>12, FailuresFound
    <2>2. Absorbed(z.why, z.job.reject)
        BY <1>10 DEF Passable
    <2>3. \/ \E why \in SUBSET Failures : Stops(z, y, why) /\ Refuses(z, why)
          \/ Passes(z, y)
          \/ GoesOn(z, y) /\ y.snap = z.snap
        BY <1>7, <1>10, <2>1, <2>2, DecidedRun
    <2>4. Snapshot <= Snapshot
        BY <1>5
    <2>. QED
        BY <1>1, <1>5, <1>7, <1>8, <1>10, <1>12, <2>3, <2>4, StopKeeps, GoesOnKeeps
<1>. QED
    BY <1>11, <1>12

(* The rows a merge replaces, all at once: a key that two of them have is       *)
(* refused.                                                                     *)
LEMMA ScanKeeps ==
    ASSUME IInv, NEW i \in Invocations, Scan(i)
    PROVE  IInv'
<1>1. PICK x : x = run[i]
    OBVIOUS
<1>2. x.pc = "scan" /\ x.pc \in Loading
    BY <1>1 DEF Scan, Loading
<1>3. /\ TableInv /\ x \in RunState /\ Due(x) /\ Screened(x) /\ LogInv(x) /\ ReadInv(x)
      /\ x.job.reject \in BOOLEAN
    BY <1>1, <1>2, DueRun
<1>. DEFINE failures == x.why \cup {"ambiguous_key" : y \in {z \in {1} : Ambiguous(File(x), rows)}}
            read == {y \in rows : y.key \in KeysOf(File(x))}
<1>4. PICK y : y = Decided(x, failures, read)
    OBVIOUS
<1>5. Privately(i, y)
    BY <1>1, <1>4, StepsPrivately DEF Scan
<1>6. Alike(x, x) /\ x.seen <= Len(loads) /\ x.snap <= Snapshot
    BY <1>3 DEF Alike, LogInv, ReadInv
<1>7. x.why = LineFailures(File(x)) /\ Passable(x) /\ Absorbed(x.why, x.job.reject)
    BY <1>2, <1>3 DEF Screened, Passable
<1>8. failures \in SUBSET Failures
    BY <1>7, FailuresFound DEF Failures
<1>9. read \in SUBSET Row /\ IsFiniteSet(read)
    BY <1>3, FS_Subset DEF TableInv
<1>10. ~ Absorbed(failures, x.job.reject) => TurnsOnly(failures)
    <2>1. SUFFICES ASSUME ~ Absorbed(failures, x.job.reject)
                   PROVE  TurnsOnly(failures)
        OBVIOUS
    <2>2. Ambiguous(File(x), rows)
        BY <1>7, <2>1
    <2>3. failures = x.why \cup {"ambiguous_key"}
        BY <2>2
    <2>4. x.why \subseteq RowFailures
        BY <1>7 DEF Absorbed
    <2>. QED
        BY <2>3, <2>4 DEF TurnsOnly, Surroundings
<1>11. Absorbed(failures, x.job.reject) => ~ Ambiguous(File(x), read)
    <2>1. SUFFICES ASSUME Absorbed(failures, x.job.reject), Ambiguous(File(x), read)
                   PROVE  FALSE
        OBVIOUS
    <2>2. \A key \in KeysOf(File(x)) : Matching(read, key) = Matching(rows, key)
        BY DEF Matching
    <2>3. Ambiguous(File(x), rows)
        BY <2>1, <2>2 DEF Ambiguous
    <2>4. "ambiguous_key" \in failures
        BY <2>3
    <2>. QED
        BY <2>1, <2>4 DEF Absorbed, RowFailures
<1>. HIDE DEF failures, read
<1>12. \/ \E why \in SUBSET Failures : Stops(x, y, why) /\ Refuses(x, why)
       \/ Passes(x, y)
       \/ /\ GoesOn(x, y) /\ y.pc \in {"rejects", "commit"}
          /\ y.read = read /\ y.snap = x.snap /\ Absorbed(failures, x.job.reject)
    BY <1>2, <1>3, <1>4, <1>7, <1>8, <1>9, <1>10, DecidedRun
<1>. QED
    BY <1>1, <1>2, <1>5, <1>6, <1>9, <1>11, <1>12, StopKeeps, GoesOnKeeps DEF read

(* write_rejects, which may fail with nothing else in the way. *)
LEMMA WriteRejectsKeeps ==
    ASSUME IInv, NEW i \in Invocations, WriteRejects(i)
    PROVE  IInv'
<1>1. PICK x : x = run[i]
    OBVIOUS
<1>2. x.pc = "rejects" /\ x.pc \in Loading
    BY <1>1 DEF WriteRejects, Loading
<1>3. /\ TableInv /\ x \in RunState /\ Due(x) /\ Screened(x) /\ LogInv(x) /\ ReadInv(x)
    BY <1>1, <1>2, DueRun
<1>4. Alike(x, x) /\ x.seen <= Len(loads) /\ x.snap <= Snapshot
    BY <1>3 DEF Alike, LogInv, ReadInv
<1>5. Passable(x) /\ ~ Empties(File(x), Mode(x)) /\ Absorbed(x.why, x.job.reject)
    BY <1>2, <1>3 DEF Screened
<1>6. CASE Steps(i, Cleared(x))
    <2>1. PICK y : y = Cleared(x)
        OBVIOUS
    <2>2. Privately(i, y)
        BY <1>6, <2>1, StepsPrivately DEF WriteRejects
    <2>3. \/ Passes(x, y)
          \/ GoesOn(x, y) /\ y.pc = "commit" /\ y.read = x.read /\ y.snap = x.snap
        BY <1>2, <1>3, <1>5, <2>1, ClearedRun
    <2>. QED
        BY <1>1, <1>2, <1>3, <1>4, <2>2, <2>3, StopKeeps, GoesOnKeeps DEF ReadInv
<1>7. CASE Steps(i, Concluded(x, "refused", x.why \cup {"source_error"}))
    <2>1. PICK y : y = Concluded(x, "refused", x.why \cup {"source_error"})
        OBVIOUS
    <2>2. Privately(i, y)
        BY <1>7, <2>1, StepsPrivately DEF WriteRejects
    <2>3. x.why \cup {"source_error"} \in SUBSET Failures
        BY <1>3 DEF RunState, Failures
    <2>4. Refuses(x, x.why \cup {"source_error"})
        BY <1>5 DEF Refuses, TurnsOnly, Surroundings, Absorbed
    <2>5. Stops(x, y, x.why \cup {"source_error"})
        BY <1>3, <2>1, <2>3, ConcludedStops
    <2>. QED
        BY <1>1, <1>2, <1>4, <2>2, <2>3, <2>4, <2>5, StopKeeps
<1>. QED
    BY <1>1, <1>6, <1>7 DEF WriteRejects

(* A commit that conflicts, or fails before it lands. *)
LEMMA RefusedCommitKeeps ==
    ASSUME IInv, NEW i \in Invocations, CommitConflicts(i) \/ CommitFails(i)
    PROVE  IInv'
<1>1. PICK x : x = run[i]
    OBVIOUS
<1>2. x.pc = "commit" /\ x.pc \in Loading
    BY <1>1 DEF CommitConflicts, CommitFails, Loading
<1>3. /\ TableInv /\ Due(x) /\ Screened(x) /\ LogInv(x) /\ ReadInv(x) /\ x \in RunState
    BY <1>1, <1>2, DueRun
<1>4. ~ x.dry /\ Alike(x, x) /\ x.seen <= Len(loads) /\ x.snap <= Snapshot
    BY <1>2, <1>3 DEF Due, Alike, LogInv, ReadInv
<1>5. PICK status \in {"refused", "failed"}, why \in SUBSET Failures : Steps(i, Concluded(x, status, why))
    BY <1>1 DEF CommitConflicts, CommitFails, FailureStatus, Failures
<1>6. PICK y : y = Concluded(x, status, why)
    OBVIOUS
<1>7. Privately(i, y)
    BY <1>5, <1>6, StepsPrivately DEF CommitConflicts, CommitFails
<1>8. Stops(x, y, why)
    BY <1>3, <1>4, <1>6, ConcludedStops
<1>9. y.pc = "record"
    BY <1>3, <1>4, <1>6, ConcludedForReal
<1>10. Passes(x, y)
    BY <1>8, <1>9 DEF Passes, Stops
<1>. QED
    BY <1>1, <1>2, <1>4, <1>7, <1>10, StopKeeps

(* The operator's answer. *)
LEMMA ConfirmKeeps ==
    ASSUME IInv, NEW i \in Invocations, Confirm(i)
    PROVE  IInv'
<1>1. PICK x : x = run[i]
    OBVIOUS
<1>2. /\ x.pc = "confirm" /\ TableInv /\ x \in RunState /\ RunInv(x)
    BY <1>1, IInvFacts DEF Confirm
<1>3. /\ x.dry /\ ~ x.alone /\ x.landed = 0 /\ x.job \in Jobs
    BY <1>2 DEF RunInv, Running, Counted
<1>4. 1 \in DOMAIN x.job.order /\ DOMAIN x.job.order = 1..Len(x.job.order) /\ Len(x.job.order) \in Nat
    BY <1>3, JobFacts
<1>5. CASE Steps(i, [Begin(x, 1) EXCEPT !.dry = FALSE])
    <2>1. PICK b : b = Begin(x, 1)
        OBVIOUS
    <2>2. /\ b \in RunState /\ b.pc = "landed" /\ b.at = 1 /\ b.snap = 0 /\ b.seen = 0
          /\ b.job = x.job /\ b.alone = x.alone /\ b.landed = x.landed /\ b.unlogged = x.unlogged
        BY <1>2, <2>1, BeginFields
    <2>3. PICK y : y = [b EXCEPT !.dry = FALSE]
        OBVIOUS
    <2>4. /\ y \in RunState /\ y.pc = "landed" /\ y.at = 1 /\ y.snap = 0 /\ y.seen = 0 /\ ~ y.dry
          /\ y.job = x.job /\ y.alone = x.alone /\ y.landed = 0 /\ y.unlogged = x.unlogged
        BY <1>3, <2>2, <2>3 DEF RunState
    <2>5. RunInv(y)
        BY <1>3, <1>4, <2>4 DEF RunInv, Running, Counted, Screened
    <2>6. Ahead(y) \subseteq Ahead(x) /\ Behind(y) \subseteq Behind(x)
        BY <1>2, <1>3, <1>4, <2>4 DEF Ahead, Behind, Running
    <2>7. Moves(x, y)
        BY <1>2, <1>3, <2>4, <2>5, <2>6 DEF Moves
    <2>8. LogInv(y) /\ AloneInv(y) /\ ReadInv(y)
        BY <1>2, <1>3, <2>4 DEF LogInv, AloneInv, ReadInv, TableInv, Snapshot
    <2>9. Privately(i, y)
        BY <1>1, <1>5, <2>1, <2>3, StepsPrivately DEF Confirm
    <2>. QED
        BY <1>1, <1>2, <2>7, <2>8, <2>9, MoveKeeps
<1>6. CASE Steps(i, Closed(x, "done"))
    <2>1. PICK y : y = Closed(x, "done")
        OBVIOUS
    <2>2. /\ RunInv(y) /\ y.pc = "done" /\ y.job = x.job /\ y.unlogged = x.unlogged
          /\ y.alone = x.alone /\ y.refusal = x.refusal /\ y.seen = 0 /\ y.snap = 0
          /\ Ahead(y) = {} /\ Behind(y) = {}
        BY <1>2, <2>1, ClosedRun
    <2>3. Moves(x, y)
        BY <1>2, <2>2 DEF Moves
    <2>4. LogInv(y) /\ AloneInv(y) /\ ReadInv(y)
        BY <1>2, <2>2 DEF LogInv, AloneInv, ReadInv, TableInv, Snapshot
    <2>5. Privately(i, y)
        BY <1>1, <1>6, <2>1, StepsPrivately DEF Confirm
    <2>. QED
        BY <1>1, <1>2, <2>3, <2>4, <2>5, MoveKeeps
<1>. QED
    BY <1>1, <1>5, <1>6 DEF Confirm

LEMMA DieKeeps ==
    ASSUME IInv, NEW i \in Invocations, Die(i)
    PROVE  IInv'
<1>1. PICK x : x = run[i]
    OBVIOUS
<1>2. TableInv /\ x \in RunState /\ x.pc \notin {"idle", "done", "dead"}
    BY <1>1, IInvFacts DEF Die
<1>3. PICK y : y = Closed(x, "dead")
    OBVIOUS
<1>4. /\ RunInv(y) /\ y.pc = "dead" /\ y.job = x.job /\ y.unlogged = x.unlogged
      /\ y.alone = x.alone /\ y.refusal = x.refusal /\ y.seen = 0 /\ y.snap = 0
      /\ Ahead(y) = {} /\ Behind(y) = {}
    BY <1>2, <1>3, ClosedRun
<1>5. Moves(x, y)
    BY <1>2, <1>4 DEF Moves
<1>6. LogInv(y) /\ AloneInv(y) /\ ReadInv(y)
    BY <1>2, <1>4 DEF LogInv, AloneInv, ReadInv, TableInv, Snapshot
<1>7. Privately(i, y)
    BY <1>1, <1>3, StepsPrivately DEF Die
<1>. QED
    BY <1>1, <1>2, <1>5, <1>6, <1>7, MoveKeeps

-----------------------------------------------------------------------------
(* The steps that write and record, and the others. *)

(* What is said of i once its load is in, or had nothing to write. *)
LEMMA LandsAccount ==
    ASSUME TableInv, NEW i \in Invocations, NEW x, NEW y, AccountInv(i, x), x.job \in Jobs,
           x.pc = "commit", x.at \in DOMAIN x.job.order, ~ x.dry, ~ y.dry,
           y.pc = "record", y.job = x.job, y.at = x.at, y.unlogged = x.unlogged,
           y.status \in {"applied", "failed"},
           x.at \in Ahead(x), Ahead(y) = Ahead(x) \ {x.at}, Behind(y) = Behind(x),
           loads' = loads, NEW c \in Commit, c.by = i, c.id = LoadId(x),
           history' = IF Commits(File(x), Mode(x)) THEN Append(history, c) ELSE history
    PROVE  AccountInv(i, y)'
<1>. DEFINE L == Len(history')
            written == Commits(File(x), Mode(x))
<1>1. /\ \A k : IdAt(y, k) = IdAt(x, k)
      /\ \A id : OfOrder(y, id) <=> OfOrder(x, id)
      /\ LoadId(x) = IdAt(x, x.at) /\ LoadId(y) = LoadId(x)
      /\ File(y) = File(x) /\ Mode(y) = Mode(x)
    BY DEF IdAt, OfOrder, LoadId, Entry, File, FileName, Mode
<1>2. LandingsOf(i, LoadId(x)) = {} /\ LoggedBy(i, LoadId(x)) = {}
    BY <1>1 DEF AccountInv
<1>3. history \in Seq(Commit)
    BY DEF TableInv
<1>4. /\ \A n \in DOMAIN history : n \in DOMAIN history' /\ history'[n] = history[n]
      /\ \A n \in DOMAIN history' : n \in DOMAIN history
            \/ (written /\ n = L /\ n \notin DOMAIN history /\ history'[n] = c)
      /\ written => L \in DOMAIN history' /\ L \notin DOMAIN history /\ history'[L] = c
    <2>1. CASE written
        <3>1. history' = Append(history, c)
            BY <2>1
        <3>2. /\ DOMAIN history = 1..Len(history) /\ Len(history) \in Nat
              /\ DOMAIN history' = 1..Len(history') /\ L = Len(history) + 1 /\ history'[L] = c
              /\ \A n \in DOMAIN history : n \in DOMAIN history' /\ history'[n] = history[n]
              /\ \A n \in DOMAIN history' : n \in DOMAIN history \/ n = L
            BY <1>3, <3>1, Appended
        <3>. QED
            BY <2>1, <3>2
    <2>2. CASE ~ written
        BY <2>2
    <2>. QED
        BY <2>1, <2>2
<1>. HIDE DEF L, written
<1>5. \A id : id # LoadId(x) => LandingsOf(i, id)' = LandingsOf(i, id)
    BY <1>4 DEF LandingsOf
<1>6. LandingsOf(i, LoadId(x))' = IF written THEN {L} ELSE {}
    BY <1>2, <1>4 DEF LandingsOf
<1>7. \A id : LoggedBy(i, id)' = LoggedBy(i, id)
    BY DEF LoggedBy
<1>8. \A id \in Ids : LandingsOf(i, id)' = {} \/ \E n \in DOMAIN history' : LandingsOf(i, id)' = {n}
    BY <1>4, <1>5, <1>6 DEF AccountInv
<1>9. \A k \in Ahead(y) : LandingsOf(i, IdAt(x, k))' = {} /\ LoggedBy(i, IdAt(x, k))' = {}
    <2>1. SUFFICES ASSUME NEW k \in Ahead(y)
                   PROVE  LandingsOf(i, IdAt(x, k))' = {} /\ LoggedBy(i, IdAt(x, k))' = {}
        OBVIOUS
    <2>2. k \in Ahead(x) /\ k # x.at /\ k \in DOMAIN x.job.order
        BY DEF Ahead
    <2>3. IdAt(x, k) # LoadId(x)
        BY <1>1, <2>2, IdsOfOrder
    <2>4. LandingsOf(i, IdAt(x, k)) = {} /\ LoggedBy(i, IdAt(x, k)) = {}
        BY <2>2 DEF AccountInv
    <2>. QED
        BY <1>5, <1>7, <2>3, <2>4
<1>10. \A k \in Behind(y) : In(i, y, k)'
    <2>1. \A k \in Behind(y) : In(i, x, k)
        BY DEF AccountInv
    <2>. QED
        BY <1>1, <1>2, <1>5, <2>1 DEF In
<1>11. Agrees(y.status, LandingsOf(i, LoadId(x)), written)'
    BY <1>6 DEF Agrees
<1>12. \A m \in DOMAIN loads : loads[m].by = i =>
          Agrees(loads[m].status, LandingsOf(i, loads[m].id),
                 Commits(Files[loads[m].id[2]], Entries[loads[m].id[1]].mode))'
    <2>1. SUFFICES ASSUME NEW m \in DOMAIN loads, loads[m].by = i
                   PROVE  Agrees(loads[m].status, LandingsOf(i, loads[m].id),
                             Commits(Files[loads[m].id[2]], Entries[loads[m].id[1]].mode))'
        OBVIOUS
    <2>2. loads[m].id # LoadId(x)
        BY <1>2, <2>1 DEF LoggedBy
    <2>3. LandingsOf(i, loads[m].id)' = LandingsOf(i, loads[m].id)
        BY <1>5, <2>2
    <2>4. Agrees(loads[m].status, LandingsOf(i, loads[m].id),
                 Commits(Files[loads[m].id[2]], Entries[loads[m].id[1]].mode))
        BY <2>1 DEF AccountInv
    <2>. QED
        BY <2>3, <2>4 DEF Agrees
<1>13. (\A n \in DOMAIN history : history[n].by = i =>
           \/ y.unlogged
           \/ history[n].id = LoadId(x)
           \/ \E m \in LoggedBy(i, history[n].id) : loads[m].status \in {"applied", "failed"})'
    <2>1. \A n \in DOMAIN history : history[n].by = i =>
             \/ y.unlogged
             \/ \E m \in DOMAIN loads : /\ loads[m].by = i /\ loads[m].id = history[n].id
                                       /\ loads[m].status \in {"applied", "failed"}
        BY DEF AccountInv, LoggedBy
    <2>. QED
        BY <1>4, <2>1 DEF LoggedBy
<1>14. /\ \A n \in DOMAIN history' : history'[n].by = i => OfOrder(x, history'[n].id)
       /\ \A m \in DOMAIN loads : loads[m].by = i => OfOrder(x, loads[m].id)
    BY <1>1, <1>4 DEF AccountInv, OfOrder
<1>. QED
    BY <1>1, <1>2, <1>7, <1>8, <1>9, <1>10, <1>11, <1>12, <1>13, <1>14 DEF AccountInv, written

(* A commit of a load that is due is sound: nothing of its batch was in the log *)
(* it read, an earlier refusal of it was for its surroundings, and every load   *)
(* before it in a confirmed order is in.                                        *)
LEMMA LandsSoundly ==
    ASSUME IInv, NEW i \in Invocations, NEW x, x = run[i], x.pc = "commit", Grows, loads' = loads,
           Follows(x, run'[i]), NEW c \in Commit, c = CommitOf(i)
    PROVE  CommitInv(c)' /\ InOrder(c)'
<1>1. x.pc \in Loading
    BY DEF Loading
<1>2. /\ TableInv /\ x \in RunState /\ Due(x) /\ Screened(x) /\ LogInv(x) /\ AloneInv(x)
      /\ AccountInv(i, x) /\ LoadId(x) \in Ids
    BY <1>1, DueRun
<1>3. /\ c.by = i /\ c.id = LoadId(x) /\ c.alone = x.alone /\ c.seen = x.seen
      /\ c.blind = x.blind
    BY DEF CommitOf
<1>4. run'[i].job = x.job /\ (x.alone => run'[i].alone /\ run'[i].refusal = x.refusal)
    BY DEF Follows
<1>5. CommitInv(c)'
    <2>1. i \notin Outsiders
        BY IngestAssumption
    <2>2. x.alone /\ Unchanged(x) /\ ~ x.blind => TurnsOnly(x.refusal)
        BY <1>2 DEF AloneInv, Justified, Screened
    <2>3. AsRehearsed(i, LoadId(x))' => Unchanged(x)
        BY <1>2, <1>4 DEF AsRehearsed, Unchanged, LoadId, FileName, Due
    <2>4. x.alone /\ AsRehearsed(c.by, c.id)' /\ ~ c.blind => TurnsOnly(run'[c.by].refusal)
        BY <1>3, <1>4, <2>2, <2>3 DEF AsRehearsed
    <2>. QED
        BY <1>2, <1>3, <1>4, <2>1, <2>4 DEF CommitInv, LogInv
<1>6. InOrder(c)'
    <2>1. SUFFICES ASSUME ~ x.alone, NEW k \in DOMAIN run'[i].job.order, c.id = IdAt(run'[i], k),
                          NEW l \in 1..(k - 1)
                   PROVE  Written(i, l)'
        BY <1>3 DEF InOrder
    <2>2. x.job \in Jobs /\ x.at \in DOMAIN x.job.order /\ ~ x.dry /\ Counted(x)
        BY <1>2 DEF Due
    <2>3. c.id = IdAt(x, k) /\ k \in DOMAIN x.job.order /\ LoadId(x) = IdAt(x, x.at)
        BY <1>4, <2>1, <2>2, LoadFacts DEF IdAt
    <2>4. k = x.at
        <3>1. IdAt(x, k) = IdAt(x, x.at)
            BY <1>3, <2>3
        <3>. QED
            BY <2>2, <2>3, <3>1, IdsOfOrder
    <2>5. l \in Behind(x)
        <3>1. x.at \in Nat /\ DOMAIN x.job.order = 1..Len(x.job.order) /\ Len(x.job.order) \in Nat
              /\ x.at <= Len(x.job.order)
            BY <2>2, LoadFacts, JobFacts
        <3>2. x.landed = x.at - 1
            BY <2>1, <2>2 DEF Counted
        <3>. QED
            BY <2>1, <2>2, <2>4, <3>1, <3>2 DEF Behind, Running
    <2>6. Written(i, l)
        BY <1>2, <2>5, InIsWritten DEF AccountInv
    <2>. QED
        BY <1>2, <2>6, WrittenStays
<1>. QED
    BY <1>5, <1>6

(* execute, once it has written. *)
LEMMA CommitLandsKeeps ==
    ASSUME IInv, NEW i \in Invocations, CommitLands(i)
    PROVE  IInv'
<1>1. PICK x : x = run[i]
    OBVIOUS
<1>2. x.pc = "commit" /\ x.pc \in Loading
    BY <1>1 DEF CommitLands, Lands, Loading
<1>3. /\ TableInv /\ x \in RunState /\ Due(x) /\ Screened(x) /\ LogInv(x)
      /\ AccountInv(i, x) /\ LoadId(x) \in Ids /\ File(x) \in FileRecords /\ Mode(x) \in Modes
    BY <1>1, <1>2, DueRun
<1>4. PICK status \in {"applied", "failed"}, why \in SUBSET Failures : Steps(i, Concluded(x, status, why))
    <2>1. x.why \in SUBSET Failures
        BY <1>3 DEF RunState
    <2>. QED
        BY <1>1, <2>1 DEF CommitLands, FailureStatus, Failures
<1>5. PICK y : y = Concluded(x, status, why)
    OBVIOUS
<1>6. run' = [run EXCEPT ![i] = y]
    BY <1>4, <1>5 DEF Steps
<1>7. /\ RunInv(y) /\ y.pc = "record" /\ y.status = status
      /\ y.job = x.job /\ y.unlogged = x.unlogged /\ y.alone = x.alone /\ y.refusal = x.refusal
      /\ y.at = x.at /\ y.seen = x.seen /\ y.snap = 0 /\ ~ y.dry /\ ~ x.dry
      /\ x.at \in Ahead(x) /\ Ahead(y) = Ahead(x) \ {x.at} /\ Behind(y) = Behind(x)
    BY <1>2, <1>3, <1>5, ConcludedForReal DEF Due
<1>8. PICK c : c = CommitOf(i)
    OBVIOUS
<1>9. /\ c \in Commit /\ c.by = i /\ c.id = LoadId(x)
    BY <1>1, <1>3, <1>8 DEF CommitOf, Commit, Authors, RunState
<1>. DEFINE new == Prepared(File(x), Mode(x), i, x.read)
<1>10. /\ exists' = exists /\ loads' = loads /\ sequences' = sequences
       /\ rows' = IF Commits(File(x), Mode(x)) THEN Rewritten(rows, File(x), Mode(x), new) ELSE rows
       /\ history' = IF Commits(File(x), Mode(x)) THEN Append(history, c) ELSE history
    BY <1>1, <1>8 DEF CommitLands, Lands, logs
<1>11. rows' \subseteq Row /\ IsFiniteSet(rows')
    <2>1. rows \in SUBSET Row /\ IsFiniteSet(rows) /\ x.read \in SUBSET Row
        BY <1>3 DEF TableInv, RunState
    <2>. QED
        BY <1>3, <1>10, <2>1, RewrittenRows
<1>12. Grows
    BY <1>9, <1>10 DEF Grows
<1>13. \A j \in Invocations \ {i} : Apart(j)
    <2>1. history' # history => history'[Len(history')] = c
        <3>1. history \in Seq(Commit)
            BY <1>3 DEF TableInv
        <3>. QED
            BY <1>9, <1>10, <3>1, Appended
    <2>2. history' = history => rows' = rows
        <3>1. history \in Seq(Commit)
            BY <1>3 DEF TableInv
        <3>2. Append(history, c) # history
            BY <1>9, <3>1
        <3>. QED
            BY <1>10, <3>2
    <2>. QED
        BY <1>9, <1>10, <1>12, <2>1, <2>2 DEF Apart
<1>14. Follows(x, y)
    BY <1>7 DEF Follows
<1>15. AccountInv(i, y)'
    BY <1>2, <1>3, <1>7, <1>9, <1>10, LandsAccount DEF Due
<1>16. LogInv(y)' /\ AloneInv(y)' /\ ReadInv(y)'
    <2>1. 0 <= Len(history')
        BY <1>3, <1>12, GrowsFacts
    <2>2. x.seen <= Len(loads')
        BY <1>3, <1>10 DEF LogInv
    <2>. QED
        BY <1>7, <2>1, <2>2 DEF LogInv, AloneInv, ReadInv, Snapshot
<1>17. history' # history =>
           \A d \in Commit : d = history'[Len(history')] => CommitInv(d)' /\ InOrder(d)'
    <2>1. history \in Seq(Commit)
        BY <1>3 DEF TableInv
    <2>2. history' # history => history'[Len(history')] = c
        BY <1>9, <1>10, <2>1, Appended
    <2>3. run'[i] = y
        BY <1>6, IInvFacts
    <2>4. CommitInv(c)' /\ InOrder(c)'
        BY <1>1, <1>2, <1>8, <1>9, <1>10, <1>12, <1>14, <2>3, LandsSoundly
    <2>. QED
        BY <2>2, <2>4
<1>. QED
    BY <1>1, <1>3, <1>6, <1>7, <1>10, <1>11, <1>12, <1>13, <1>14, <1>15, <1>16, <1>17, StepKeeps
    DEF TableInv

(* What is said of i once its load is recorded, or i said that it is not.       *)
LEMMA RecordAccount ==
    ASSUME TableInv, NEW i \in Invocations, NEW x, NEW y, AccountInv(i, x), x.job \in Jobs,
           x.pc = "record", ~ x.dry, x.at \in DOMAIN x.job.order, x.status \in {"applied", "refused", "failed"},
           y.pc \in {"landed", "sequence", "done"}, y.job = x.job,
           x.unlogged => y.unlogged,
           Ahead(y) \subseteq Ahead(x), x.at \notin Ahead(y),
           Behind(y) \subseteq Behind(x) \cup {k \in {x.at} : Ok(x.status)},
           history' = history,
           NEW r \in LoadRecord, r.by = i, r.id = LoadId(x), r.status = x.status,
           loads' = Append(loads, r) \/ (loads' = loads /\ y.unlogged)
    PROVE  AccountInv(i, y)'
<1>. DEFINE L == Len(loads')
            logged == loads' = Append(loads, r)
<1>1. /\ \A k : IdAt(y, k) = IdAt(x, k)
      /\ \A id : OfOrder(y, id) <=> OfOrder(x, id)
      /\ LoadId(x) = IdAt(x, x.at)
      /\ File(x) = Files[LoadId(x)[2]] /\ Mode(x) = Entries[LoadId(x)[1]].mode
    <2>1. /\ \A k : IdAt(y, k) = IdAt(x, k)
          /\ LoadId(x) = IdAt(x, x.at)
        BY DEF IdAt, LoadId, Entry, FileName
    <2>2. \A id : OfOrder(y, id) <=> OfOrder(x, id)
        BY <2>1 DEF OfOrder
    <2>3. LoadId(x)[1] = Entry(x) /\ LoadId(x)[2] = FileName(x)
        BY DEF LoadId
    <2>4. File(x) = Files[LoadId(x)[2]] /\ Mode(x) = Entries[LoadId(x)[1]].mode
        BY <2>3, Zenon DEF File, Mode
    <2>. QED
        BY <2>1, <2>2, <2>4
<1>2. loads \in Seq(LoadRecord)
    BY DEF TableInv
<1>3. /\ \A m \in DOMAIN loads : m \in DOMAIN loads' /\ loads'[m] = loads[m]
      /\ \A m \in DOMAIN loads' : m \in DOMAIN loads \/ (m = L /\ loads'[m] = r)
      /\ ~ y.unlogged => L \in DOMAIN loads' /\ loads'[L] = r
    <2>1. CASE logged
        <3>1. loads' = Append(loads, r)
            BY <2>1
        <3>2. /\ DOMAIN loads = 1..Len(loads) /\ Len(loads) \in Nat
              /\ DOMAIN loads' = 1..Len(loads') /\ L = Len(loads) + 1 /\ loads'[L] = r
              /\ \A n \in DOMAIN loads : n \in DOMAIN loads' /\ loads'[n] = loads[n]
              /\ \A n \in DOMAIN loads' : n \in DOMAIN loads \/ n = L
            BY <1>2, <3>1, Appended
        <3>. QED
            BY <3>2
    <2>2. CASE ~ logged
        BY <2>2
    <2>. QED
        BY <2>1, <2>2
<1>. HIDE DEF L, logged
<1>4. \A id : LandingsOf(i, id)' = LandingsOf(i, id)
    BY DEF LandingsOf
<1>5. /\ LoggedBy(i, LoadId(x)) = {}
      /\ Agrees(x.status, LandingsOf(i, LoadId(x)), Commits(File(x), Mode(x)))
    BY DEF AccountInv
<1>6. \A id : id # LoadId(x) => LoggedBy(i, id)' = LoggedBy(i, id)
    BY <1>3 DEF LoggedBy
<1>7. \A k \in Ahead(y) : LandingsOf(i, IdAt(x, k))' = {} /\ LoggedBy(i, IdAt(x, k))' = {}
    <2>1. SUFFICES ASSUME NEW k \in Ahead(y)
                   PROVE  LandingsOf(i, IdAt(x, k))' = {} /\ LoggedBy(i, IdAt(x, k))' = {}
        OBVIOUS
    <2>2. k \in Ahead(x) /\ k # x.at /\ k \in DOMAIN x.job.order
        BY DEF Ahead
    <2>3. IdAt(x, k) # LoadId(x)
        <3>1. IdAt(x, k) = IdAt(x, x.at) => k = x.at
            BY <2>2, IdsOfOrder
        <3>. QED
            BY <1>1, <2>2, <3>1
    <2>4. LandingsOf(i, IdAt(x, k)) = {} /\ LoggedBy(i, IdAt(x, k)) = {}
        BY <2>2 DEF AccountInv
    <2>. QED
        BY <1>4, <1>6, <2>3, <2>4
<1>8. \A k \in Behind(y) : In(i, y, k)'
    <2>1. \A k \in Behind(x) : In(i, x, k)
        BY DEF AccountInv
    <2>2. Ok(x.status) => In(i, x, x.at)
        BY <1>1, <1>5 DEF In, Ok, Agrees
    <2>3. \A k \in Behind(y) : In(i, x, k)
        BY <2>1, <2>2
    <2>. QED
        BY <1>1, <1>4, <2>3 DEF In
<1>9. \A m \in DOMAIN loads' : loads'[m].by = i =>
          /\ OfOrder(x, loads'[m].id)
          /\ Agrees(loads'[m].status, LandingsOf(i, loads'[m].id),
                    Commits(Files[loads'[m].id[2]], Entries[loads'[m].id[1]].mode))
    <2>1. SUFFICES ASSUME NEW m \in DOMAIN loads', loads'[m].by = i
                   PROVE  /\ OfOrder(x, loads'[m].id)
                          /\ Agrees(loads'[m].status, LandingsOf(i, loads'[m].id),
                                    Commits(Files[loads'[m].id[2]], Entries[loads'[m].id[1]].mode))
        OBVIOUS
    <2>2. CASE m \in DOMAIN loads
        BY <1>3, <2>1, <2>2 DEF AccountInv
    <2>3. CASE m \notin DOMAIN loads
        <3>1. loads'[m] = r
            BY <1>3, <2>1, <2>3
        <3>2. OfOrder(x, LoadId(x))
            BY <1>1 DEF OfOrder
        <3>. QED
            BY <1>1, <1>5, <3>1, <3>2
    <2>. QED
        BY <2>2, <2>3
<1>10. (\A m \in DOMAIN loads : loads[m].by = i =>
          Agrees(loads[m].status, LandingsOf(i, loads[m].id),
                 Commits(Files[loads[m].id[2]], Entries[loads[m].id[1]].mode)))'
    BY <1>9 DEF Agrees, LandingsOf
<1>11. (\A n \in DOMAIN history : history[n].by = i =>
           \/ y.unlogged
           \/ \E m \in LoggedBy(i, history[n].id) : loads[m].status \in {"applied", "failed"})'
    <2>1. \A n \in DOMAIN history : history[n].by = i =>
             \/ x.unlogged
             \/ history[n].id = LoadId(x) /\ x.status \in {"applied", "failed"}
             \/ \E m \in DOMAIN loads : /\ loads[m].by = i /\ loads[m].id = history[n].id
                                       /\ loads[m].status \in {"applied", "failed"}
        BY DEF AccountInv, LoggedBy
    <2>2. \A n \in DOMAIN history : history[n].by = i =>
             \/ y.unlogged
             \/ \E m \in DOMAIN loads' : /\ loads'[m].by = i /\ loads'[m].id = history[n].id
                                        /\ loads'[m].status \in {"applied", "failed"}
        BY <1>3, <2>1
    <2>. QED
        BY <2>2 DEF LoggedBy
<1>12. \A n \in DOMAIN history : history[n].by = i => OfOrder(x, history[n].id)
    BY DEF AccountInv
<1>13. (\A id \in Ids : LandingsOf(i, id) = {} \/ \E n \in DOMAIN history : LandingsOf(i, id) = {n})'
    BY DEF AccountInv, LandingsOf
<1>. QED
    BY <1>1, <1>4, <1>7, <1>8, <1>9, <1>10, <1>11, <1>12, <1>13 DEF AccountInv

(* record and log_failed. *)
LEMMA RecordKeeps ==
    ASSUME IInv, NEW i \in Invocations, RecordLands(i) \/ RecordFails(i)
    PROVE  IInv'
<1>1. PICK x : x = run[i]
    OBVIOUS
<1>2. /\ x.pc = "record" /\ TableInv /\ x \in RunState /\ RunInv(x)
      /\ AccountInv(i, x) /\ LogInv(x) /\ ReadInv(x)
    BY <1>1, IInvFacts DEF RecordLands, RecordFails
<1>3. /\ x.job \in Jobs /\ x.at \in DOMAIN x.job.order /\ Counted(x) /\ ~ x.dry
      /\ x.status \in {"applied", "refused", "failed"}
    BY <1>2 DEF RunInv, Running
<1>4. PICK w : /\ w = x \/ w = [x EXCEPT !.unlogged = TRUE]
               /\ run' = [run EXCEPT ![i] = Ended(w, x.status)]
               /\ loads' = Append(loads, Record(i)) \/ (loads' = loads /\ w = [x EXCEPT !.unlogged = TRUE])
    BY <1>1 DEF RecordLands, RecordFails
<1>5. /\ w \in RunState /\ w.pc = "record" /\ w.job = x.job /\ w.at = x.at /\ w.dry = x.dry
      /\ w.alone = x.alone /\ w.refusal = x.refusal /\ w.landed = x.landed /\ w.status = x.status
      /\ w.seen = x.seen /\ w.snap = x.snap
      /\ x.unlogged => w.unlogged
      /\ w = [x EXCEPT !.unlogged = TRUE] => w.unlogged
    BY <1>2, <1>4 DEF RunState
<1>6. Counted(w) /\ Ahead(w) = Ahead(x) /\ Behind(w) = Behind(x)
    BY <1>2, <1>3, <1>5 DEF Counted, Ahead, Behind, Running
<1>7. PICK y : y = Loaded(w, x.status)
    OBVIOUS
<1>8. run' = [run EXCEPT ![i] = y]
    BY <1>3, <1>4, <1>5, <1>7 DEF Ended
<1>9. /\ RunInv(y) /\ y.pc \in {"landed", "sequence", "done"}
      /\ y.job = x.job /\ y.unlogged = w.unlogged /\ y.alone = x.alone /\ y.refusal = x.refusal
      /\ Ahead(y) \subseteq Ahead(x) /\ x.at \notin Ahead(y)
      /\ Behind(y) \subseteq Behind(x) \cup {k \in {x.at} : Ok(x.status)}
      /\ y.seen \in {0, x.seen} /\ y.snap \in {0, x.snap}
      /\ y.pc = "landed" => ~ y.alone
    <2>1. /\ RunInv(y) /\ y.pc \in {"landed", "sequence", "done"}
          /\ y.job = w.job /\ y.unlogged = w.unlogged /\ y.alone = w.alone /\ y.refusal = w.refusal
          /\ Ahead(y) \subseteq Ahead(w) /\ w.at \notin Ahead(y)
          /\ Behind(y) \subseteq Behind(w) \cup {k \in {w.at} : Ok(x.status) /\ ~ w.alone}
          /\ y.seen \in {0, w.seen} /\ y.snap \in {0, w.snap}
          /\ y.pc = "landed" => ~ y.alone
        BY <1>3, <1>5, <1>6, <1>7, LoadEnds
    <2>. QED
        BY <1>5, <1>6, <2>1
<1>10. PICK r : r = Record(i)
    OBVIOUS
<1>11. r \in LoadRecord /\ r.by = i /\ r.id = LoadId(x) /\ r.status = x.status
    <2>1. LoadId(x) \in Ids /\ x.alone \in BOOLEAN
        BY <1>2, <1>3, LoadFacts DEF RunState
    <2>. QED
        BY <1>1, <1>3, <1>10, <2>1 DEF Record, LoadRecord
<1>12. /\ exists' = exists /\ rows' = rows /\ history' = history /\ sequences' = sequences
       /\ loads' = Append(loads, r) \/ (loads' = loads /\ y.unlogged)
    BY <1>4, <1>5, <1>9, <1>10 DEF RecordLands, RecordFails, table
<1>13. Grows
    BY <1>11, <1>12 DEF Grows
<1>14. \A j \in Invocations \ {i} : Apart(j)
    <2>1. loads' # loads => loads'[Len(loads')] = r
        <3>1. loads \in Seq(LoadRecord)
            BY <1>2 DEF TableInv
        <3>. QED
            BY <1>11, <1>12, <3>1, Appended
    <2>. QED
        BY <1>11, <1>12, <1>13, <2>1 DEF Apart
<1>15. Follows(x, y)
    BY <1>9 DEF Follows
<1>16. AccountInv(i, y)'
    BY <1>2, <1>3, <1>5, <1>9, <1>11, <1>12, RecordAccount
<1>17. LogInv(y)' /\ AloneInv(y)' /\ ReadInv(y)'
    <2>1. 0 <= Len(history) /\ 0 <= Len(loads') /\ x.seen <= Len(loads')
        <3>1. /\ Len(history) \in Nat /\ Len(loads') \in Nat /\ Len(loads) \in Nat
              /\ Len(loads) <= Len(loads')
            BY <1>2, <1>13, GrowsFacts
        <3>2. x.seen \in Nat /\ x.seen <= Len(loads)
            BY <1>2 DEF LogInv, RunState
        <3>. QED
            BY <3>1, <3>2
    <2>. QED
        BY <1>2, <1>9, <1>12, <2>1 DEF LogInv, AloneInv, ReadInv, Snapshot
<1>. QED
    BY <1>1, <1>2, <1>8, <1>9, <1>12, <1>13, <1>14, <1>15, <1>16, <1>17, StepKeeps DEF TableInv

(* SequenceResult, and its record. *)
LEMMA RecordSequenceKeeps ==
    ASSUME IInv, NEW i \in Invocations, RecordSequence(i)
    PROVE  IInv'
<1>1. PICK x : x = run[i]
    OBVIOUS
<1>2. x.pc = "sequence" /\ TableInv /\ x \in RunState /\ RunInv(x) /\ AccountInv(i, x)
    BY <1>1, IInvFacts DEF RecordSequence
<1>3. PICK y : y = Closed(x, "done")
    OBVIOUS
<1>4. /\ RunInv(y) /\ y.pc = "done" /\ y.job = x.job /\ y.unlogged = x.unlogged
      /\ y.alone = x.alone /\ y.refusal = x.refusal /\ y.seen = 0 /\ y.snap = 0
      /\ Ahead(y) = {} /\ Behind(y) = {}
    BY <1>2, <1>3, ClosedRun
<1>5. /\ exists' = exists /\ rows' = rows /\ history' = history /\ loads' = loads
      /\ run' = [run EXCEPT ![i] = y]
      /\ \A s \in sequences' : s \in sequences
            \/ s = [by |-> i, status |-> SequenceStatus(x), landed |-> x.landed]
    BY <1>1, <1>3 DEF RecordSequence, Steps, table
<1>6. Moves(x, y)
    BY <1>2, <1>4 DEF Moves
<1>7. AccountInv(i, y)'
    BY <1>2, <1>5, <1>6, MovesAccount
<1>8. LogInv(y)' /\ AloneInv(y)' /\ ReadInv(y)'
    BY <1>2, <1>4, <1>5 DEF LogInv, AloneInv, ReadInv, TableInv, Snapshot
<1>9. Grows /\ (\A j \in Invocations \ {i} : Apart(j)) /\ Follows(x, y)
    BY <1>4, <1>5 DEF Grows, Apart, Follows
<1>10. \A s \in sequences' : s \in sequences \/ Told(s)'
    <2>1. SUFFICES ASSUME NEW s, s = [by |-> i, status |-> SequenceStatus(x), landed |-> x.landed]
                   PROVE  Told(s)'
        BY <1>5
    <2>2. s.by = i /\ s.status = SequenceStatus(x) /\ s.landed = x.landed
        BY <2>1
    <2>3. /\ x.job \in Jobs /\ x.at \in DOMAIN x.job.order /\ ~ x.dry /\ ~ x.alone
          /\ x.landed = IF Ok(x.status) THEN x.at ELSE x.at - 1
          /\ Ok(x.status) => x.at = Len(x.job.order)
        BY <1>2 DEF RunInv, Running, Counted
    <2>4. /\ DOMAIN x.job.order = 1..Len(x.job.order) /\ Len(x.job.order) \in Nat
          /\ x.at \in Nat /\ x.at >= 1 /\ x.at <= Len(x.job.order)
        BY <2>3, LoadFacts, JobFacts
    <2>5. /\ x.landed \in Nat /\ x.landed <= Len(x.job.order)
          /\ s.status = "applied" <=> x.landed = Len(x.job.order)
          /\ s.status = "partial" => x.landed > 0
        BY <2>2, <2>3, <2>4 DEF SequenceStatus
    <2>6. \A k \in 1..x.landed : Written(i, k)'
        <3>1. SUFFICES ASSUME NEW k \in 1..x.landed
                       PROVE  Written(i, k)'
            OBVIOUS
        <3>2. k \in Behind(x)
            BY <1>2, <2>3, <2>4, <2>5 DEF Behind, Running
        <3>3. Written(i, k)
            BY <1>1, <1>2, <3>2, InIsWritten DEF AccountInv
        <3>4. Follows(run[i], run'[i]) /\ run[i].pc # "idle"
            BY <1>1, <1>2, <1>5, <1>9, IInvFacts
        <3>. QED
            BY <1>2, <1>9, <3>3, <3>4, WrittenStays
    <2>7. run'[i] = y
        BY <1>5, IInvFacts
    <2>. QED
        BY <1>4, <2>2, <2>3, <2>5, <2>6, <2>7 DEF Told
<1>. QED
    BY <1>1, <1>2, <1>4, <1>5, <1>7, <1>8, <1>9, <1>10, StepKeeps DEF TableInv

(* A command that is given. *)
LEMMA StartKeeps ==
    ASSUME IInv, NEW i \in Invocations, NEW job \in Jobs, Start(i, job)
    PROVE  IInv'
<1>1. PICK x : x = run[i]
    OBVIOUS
<1>2. x.pc = "idle" /\ TableInv /\ x \in RunState /\ AccountInv(i, x)
    BY <1>1, IInvFacts DEF Start
<1>3. PICK b : b = [Idle EXCEPT !.job = job]
    OBVIOUS
<1>4. /\ b \in RunState /\ b.job = job /\ b.dry /\ ~ b.alone /\ b.landed = 0
    BY <1>3, IngestAssumption DEF Idle, RunState, PCs, Statuses
<1>5. PICK y : y = Begin(b, 1)
    OBVIOUS
<1>6. /\ y \in RunState /\ y.pc = "landed" /\ y.at = 1 /\ y.snap = 0 /\ y.seen = 0
      /\ y.job = job /\ y.dry /\ ~ y.alone /\ y.landed = 0
    BY <1>4, <1>5, BeginFields
<1>7. Privately(i, y)
    BY <1>3, <1>5, StepsPrivately DEF Start
<1>8. /\ run' = [run EXCEPT ![i] = y] /\ exists' = exists /\ rows' = rows
      /\ history' = history /\ loads' = loads /\ sequences' = sequences
    BY <1>7 DEF Privately, table, logs
<1>9. RunInv(y)
    <2>1. 1 \in DOMAIN y.job.order
        BY <1>6, JobFacts
    <2>. QED
        BY <1>6, <2>1 DEF RunInv, Running, Counted, Screened
<1>10. /\ \A n \in DOMAIN history : history[n].by # i
       /\ \A m \in DOMAIN loads : loads[m].by # i
    BY <1>2 DEF AccountInv
<1>11. AccountInv(i, y)'
    <2>1. \A id : LandingsOf(i, id)' = {} /\ LoggedBy(i, id)' = {}
        BY <1>8, <1>10 DEF LandingsOf, LoggedBy
    <2>2. Behind(y) = {}
        BY <1>6 DEF Behind
    <2>. QED
        BY <1>6, <1>8, <1>10, <2>1, <2>2 DEF AccountInv
<1>12. LogInv(y)' /\ AloneInv(y)' /\ ReadInv(y)'
    BY <1>2, <1>6, <1>8 DEF LogInv, AloneInv, ReadInv, TableInv, Snapshot
<1>13. Grows /\ (\A j \in Invocations \ {i} : Apart(j)) /\ Follows(x, y)
    BY <1>2, <1>8 DEF Grows, Apart, Follows
<1>. QED
    BY <1>1, <1>2, <1>8, <1>9, <1>11, <1>12, <1>13, StepKeeps DEF TableInv

(* A step of nobody's run keeps the invariant when what it commits is sound. *)
LEMMA OthersKeep ==
    ASSUME IInv, run' = run, loads' = loads, sequences' = sequences,
           exists' \in BOOLEAN, rows' \subseteq Row, IsFiniteSet(rows'),
           \/ history' = history /\ rows' = rows
           \/ \E o \in Outsiders : history' = Append(history, OutsideOf(o))
    PROVE  IInv'
<1>1. TableInv /\ run \in [Invocations -> RunState]
    BY DEF IInv
<1>2. \A o \in Outsiders : /\ OutsideOf(o) \in Commit /\ OutsideOf(o).by = o /\ o \notin Invocations
                           /\ CommitInv(OutsideOf(o))' /\ InOrder(OutsideOf(o))'
    <2>1. SUFFICES ASSUME NEW o \in Outsiders, NEW c, c = OutsideOf(o)
                   PROVE  /\ c \in Commit /\ c.by = o /\ o \notin Invocations
                          /\ CommitInv(c)' /\ InOrder(c)'
        BY DEF CommitInv, InOrder
    <2>2. /\ c \in Commit /\ c.by = o /\ c.id = << >> /\ ~ c.alone /\ c.seen = 0
          /\ o \notin Invocations
        BY <2>1, IngestAssumption DEF OutsideOf, Commit, Authors
    <2>3. 0 <= Len(loads')
        BY <1>1 DEF TableInv
    <2>4. CommitInv(c)'
        BY <2>2, <2>3 DEF CommitInv
    <2>5. InOrder(c)'
        BY <2>2 DEF InOrder
    <2>. QED
        BY <2>2, <2>4, <2>5
<1>3. Grows
    BY <1>2 DEF Grows
<1>4. history' # history =>
          \E o \in Outsiders : history'[Len(history')] = OutsideOf(o)
    <2>1. history \in Seq(Commit)
        BY <1>1 DEF TableInv
    <2>. QED
        BY <1>2, <2>1, Appended
<1>5. history' = history => rows' = rows
    <2>1. \A o \in Outsiders : Append(history, OutsideOf(o)) # history
        <3>1. history \in Seq(Commit)
            BY <1>1 DEF TableInv
        <3>. QED
            BY <1>2, <3>1
    <2>. QED
        BY <2>1
<1>6. \A j \in Invocations : Apart(j)
    BY <1>2, <1>3, <1>4, <1>5 DEF Apart
<1>7. \A j \in Invocations :
          /\ Follows(run[j], run'[j])
          /\ RunInv(run[j])' /\ AccountInv(j, run[j])' /\ LogInv(run[j])'
          /\ AloneInv(run[j])' /\ ReadInv(run[j])'
    <2>1. SUFFICES ASSUME NEW j \in Invocations
                   PROVE  /\ Follows(run[j], run'[j])
                          /\ RunInv(run[j])' /\ AccountInv(j, run[j])' /\ LogInv(run[j])'
                          /\ AloneInv(run[j])' /\ ReadInv(run[j])'
        OBVIOUS
    <2>2. run'[j] = run[j]
        OBVIOUS
    <2>. QED
        BY <1>6, <2>2, ApartKept DEF Follows
<1>8. history' # history =>
          \A c \in Commit : c = history'[Len(history')] => CommitInv(c)' /\ InOrder(c)'
    <2>1. SUFFICES ASSUME history' # history, NEW c \in Commit, c = history'[Len(history')]
                   PROVE  CommitInv(c)' /\ InOrder(c)'
        OBVIOUS
    <2>2. PICK o \in Outsiders : c = OutsideOf(o)
        BY <1>4, <2>1
    <2>3. CommitInv(OutsideOf(o))' /\ InOrder(OutsideOf(o))'
        BY <1>2
    <2>. QED
        BY <2>2, <2>3 DEF CommitInv, InOrder
<1>9. run' \in [Invocations -> RunState]
    BY <1>1
<1>. QED
    BY <1>3, <1>7, <1>8, <1>9, AllKeep

LEMMA CreateTableKeeps ==
    ASSUME IInv, CreateTable
    PROVE  IInv'
<1>1. /\ exists' = TRUE /\ rows' = rows /\ history' = history /\ loads' = loads
      /\ sequences' = sequences /\ run' = run
    BY DEF CreateTable, logs
<1>2. rows \subseteq Row /\ IsFiniteSet(rows)
    BY DEF IInv, TableInv
<1>. QED
    BY <1>1, <1>2, OthersKeep

\* The cells another writer gives a row.
LEMMA OutsideRow ==
    ASSUME NEW o \in Outsiders, NEW key \in Keys, NEW cells \in Contents
    PROVE  [key |-> key, by |-> o, cells |-> cells] \in Row
<1>1. cells = [c \in Columns |-> cells[c]]
    BY IngestAssumption
<1>2. \A c \in Columns : cells[c] \in CellValues
    BY DEF CellValues
<1>3. cells \in [Columns -> CellValues]
    BY <1>1, <1>2
<1>. QED
    BY <1>3 DEF Row, Authors

LEMMA OutsideCommitKeeps ==
    ASSUME IInv, NEW o \in Outsiders, OutsideCommit(o)
    PROVE  IInv'
<1>1. /\ exists' = exists /\ history' = Append(history, OutsideOf(o)) /\ loads' = loads
      /\ sequences' = sequences /\ run' = run
    BY DEF OutsideCommit, logs
<1>2. exists \in BOOLEAN /\ rows \subseteq Row /\ IsFiniteSet(rows)
    BY DEF IInv, TableInv
<1>3. PICK key \in Keys, gone \in BOOLEAN, new \in {{}} \cup {{c} : c \in Contents} :
          rows' = {x \in rows : x.key = key => ~ gone}
                     \cup {[key |-> key, by |-> o, cells |-> cells] : cells \in new}
    BY DEF OutsideCommit
<1>. DEFINE kept == {x \in rows : x.key = key => ~ gone}
            added == {[key |-> key, by |-> o, cells |-> cells] : cells \in new}
<1>4. kept \in SUBSET rows
    OBVIOUS
<1>5. added = {} \/ \E row \in Row : added = {row}
    BY OutsideRow
<1>6. rows' = kept \cup added
    BY <1>3
<1>. HIDE DEF kept, added
<1>7. IsFiniteSet(kept)
    BY <1>2, <1>4, FS_Subset
<1>8. IsFiniteSet(added)
    <2>1. CASE added = {}
        BY <2>1, FS_EmptySet
    <2>2. CASE \E row \in Row : added = {row}
        <3>1. PICK row \in Row : added = {row}
            BY <2>2
        <3>. QED
            BY <3>1, FS_Singleton
    <2>. QED
        BY <1>5, <2>1, <2>2
<1>9. rows' \subseteq Row /\ IsFiniteSet(rows')
    BY <1>2, <1>4, <1>5, <1>6, <1>7, <1>8, FS_Union
<1>. QED
    BY <1>1, <1>2, <1>9, OthersKeep

LEMMA NextKeeps ==
    ASSUME IInv, [Next]_vars
    PROVE  IInv'
<1>1. ASSUME NEW i \in Invocations, NEW job \in Jobs, Start(i, job)
      PROVE  IInv'
    BY <1>1, StartKeeps
<1>2. ASSUME NEW i \in Invocations, Runs(i)
      PROVE  IInv'
    BY <1>2, ReadLogKeeps, CheckTableKeeps, ReadSnapshotKeeps, ScanKeeps, WriteRejectsKeeps,
       ConfirmKeeps, CommitLandsKeeps, RefusedCommitKeeps, RecordKeeps, RecordSequenceKeeps DEF Runs
<1>3. ASSUME NEW i \in Invocations, Die(i)
      PROVE  IInv'
    BY <1>3, DieKeeps
<1>4. CASE CreateTable
    BY <1>4, CreateTableKeeps
<1>5. ASSUME NEW o \in Outsiders, OutsideCommit(o)
      PROVE  IInv'
    BY <1>5, OutsideCommitKeeps
<1>6. CASE UNCHANGED vars
    <2>1. /\ exists' = exists /\ rows' = rows /\ history' = history /\ loads' = loads
          /\ sequences' = sequences /\ run' = run
        BY <1>6 DEF vars, table, logs
    <2>2. exists \in BOOLEAN /\ rows \subseteq Row /\ IsFiniteSet(rows)
        BY DEF IInv, TableInv
    <2>. QED
        BY <2>1, <2>2, OthersKeep
<1>. QED
    BY <1>1, <1>2, <1>3, <1>4, <1>5, <1>6 DEF Next

LEMMA InitIInv ==
    ASSUME Init
    PROVE  IInv
<1>1. loads = << >> /\ sequences = {} /\ run = [i \in Invocations |-> Idle]
    BY DEF Init
<1>2. PICK idle : idle = Idle
    OBVIOUS
<1>3. /\ idle \in RunState /\ idle.pc = "idle" /\ idle.seen = 0 /\ idle.snap = 0 /\ ~ idle.alone
    BY <1>2 DEF Idle, RunState, PCs, Statuses
<1>4. \A i \in Invocations : run[i] = idle
    BY <1>1, <1>2
<1>5. \/ history = << >> /\ rows = {}
      \/ \E o \in Outsiders, row \in Row : history = <<OutsideOf(o)>> /\ rows = {row}
    BY OutsideRow DEF Init
<1>6. \A n \in DOMAIN history : \E o \in Outsiders : history[n] = OutsideOf(o)
    BY <1>5
<1>7. \A o \in Outsiders : /\ OutsideOf(o) \in Commit /\ OutsideOf(o).by = o /\ o \notin Invocations
                           /\ OutsideOf(o).id = << >> /\ ~ OutsideOf(o).alone /\ OutsideOf(o).seen = 0
    BY IngestAssumption DEF OutsideOf, Commit, Authors
<1>8. TableInv
    <2>1. exists \in BOOLEAN
        BY DEF Init
    <2>2. rows \subseteq Row /\ IsFiniteSet(rows)
        BY <1>5, FS_EmptySet, FS_Singleton
    <2>3. history \in Seq(Commit)
        <3>1. << >> \in Seq(Commit) /\ \A c \in Commit : <<c>> \in Seq(Commit)
            OBVIOUS
        <3>2. history = << >> \/ \E c \in Commit : history = <<c>>
            BY <1>5, <1>7
        <3>3. CASE history = << >>
            BY <3>1, <3>3
        <3>4. CASE \E c \in Commit : history = <<c>>
            BY <3>1, <3>4
        <3>. QED
            BY <3>2, <3>3, <3>4
    <2>. QED
        BY <1>1, <2>1, <2>2, <2>3 DEF TableInv
<1>9. run \in [Invocations -> RunState]
    BY <1>1, <1>2, <1>3
<1>10. ASSUME NEW i \in Invocations
       PROVE  RunInv(idle) /\ AccountInv(i, idle) /\ LogInv(idle) /\ AloneInv(idle) /\ ReadInv(idle)
    <2>1. RunInv(idle)
        BY <1>3 DEF RunInv, Running
    <2>2. /\ \A n \in DOMAIN history : history[n].by # i
          /\ DOMAIN loads = {}
        BY <1>1, <1>6, <1>7
    <2>3. Ahead(idle) = {} /\ Behind(idle) = {}
        BY <1>3 DEF Ahead, Behind, Running
    <2>4. \A id : LandingsOf(i, id) = {}
        BY <2>2 DEF LandingsOf
    <2>5. AccountInv(i, idle)
        BY <1>3, <2>2, <2>3, <2>4 DEF AccountInv
    <2>6. 0 <= Len(loads) /\ 0 <= Len(history)
        BY <1>8 DEF TableInv
    <2>7. LogInv(idle) /\ AloneInv(idle) /\ ReadInv(idle)
        BY <1>3, <2>6 DEF LogInv, AloneInv, ReadInv, Snapshot
    <2>. QED
        BY <2>1, <2>5, <2>7
<1>11. HistoryInv
    <2>1. 0 <= Len(loads)
        BY <1>8 DEF TableInv
    <2>. QED
        BY <1>6, <1>7, <2>1 DEF HistoryInv, CommitInv
<1>12. OrderInv
    BY <1>1, <1>6, <1>7 DEF OrderInv, InOrder
<1>13. \A i \in Invocations :
           LET x == run[i]
           IN  RunInv(x) /\ AccountInv(i, x) /\ LogInv(x) /\ AloneInv(x) /\ ReadInv(x)
    <2>1. SUFFICES ASSUME NEW i \in Invocations
                   PROVE  /\ RunInv(run[i]) /\ AccountInv(i, run[i]) /\ LogInv(run[i])
                          /\ AloneInv(run[i]) /\ ReadInv(run[i])
        OBVIOUS
    <2>2. run[i] = idle
        BY <1>4
    <2>. QED
        BY <1>10, <2>2
<1>. QED
    BY <1>8, <1>9, <1>11, <1>12, <1>13 DEF IInv

-----------------------------------------------------------------------------
(* The invariants. *)

(* The strengthening holds of every behaviour: what an invocation says of its   *)
(* order, what the table and the logs say of it, and what it read.              *)
THEOREM IngestInvariant == Spec => []IInv
<1>1. Init => IInv
    BY InitIInv
<1>2. IInv /\ [Next]_vars => IInv'
    BY NextKeeps
<1>. QED
    BY <1>1, <1>2, PTL DEF Spec

(* Rows, runs and statuses have their types, and only a load that runs for real *)
(* is at a pc that writes or records (runtime.py, execute; sequence.py, run).   *)
THEOREM IngestTypes == Spec => []TypeOK
<1>1. IInv => TypeOK
    <2>1. SUFFICES ASSUME IInv
                   PROVE  TypeOK
        OBVIOUS
    <2>2. exists \in BOOLEAN /\ \A x \in rows : x.key \in Keys /\ DOMAIN x.cells = Columns
        BY <2>1 DEF IInv, TableInv, Row
    <2>3. ASSUME NEW i \in Invocations
          PROVE  /\ run[i].pc \in PCs /\ run[i].status \in Statuses
                 /\ run[i].pc \in {"commit", "record", "sequence"} => ~ run[i].dry
                 /\ run[i].pc = "record" => run[i].status \in {"applied", "refused", "failed"}
        BY <2>1, IInvFacts DEF RunInv, RunState
    <2>. QED
        BY <2>2, <2>3 DEF TypeOK
<1>. QED
    BY <1>1, IngestInvariant, PTL

(* Whatever fails, dies or loses its answer, the log tells the truth of every   *)
(* load, and of every commit whose invocation ended without saying that its log *)
(* was lost (runtime.py, execute and _record).                                  *)
THEOREM LogAgrees == Spec => []LogAgreesWithTable
<1>1. IInv => LogAgreesWithTable
    <2>1. SUFFICES ASSUME IInv
                   PROVE  LogAgreesWithTable
        OBVIOUS
    <2>2. ASSUME NEW m \in DOMAIN loads
          PROVE  LET landings == LandingsOf(loads[m].by, loads[m].id)
                     written == Commits(Files[loads[m].id[2]], Entries[loads[m].id[1]].mode)
                 IN  /\ loads[m].status = "applied" =>
                            Cardinality(landings) = IF written THEN 1 ELSE 0
                     /\ loads[m].status = "refused" => landings = {}
                     /\ loads[m].status = "failed" => Cardinality(landings) <= 1
        <3>. DEFINE landings == LandingsOf(loads[m].by, loads[m].id)
                    written == Commits(Files[loads[m].id[2]], Entries[loads[m].id[1]].mode)
        <3>1. loads[m].by \in Invocations /\ loads[m].id \in Ids
            BY <2>1, LoadFields DEF IInv
        <3>2. AccountInv(loads[m].by, run[loads[m].by])
            BY <2>1, <3>1, IInvFacts
        <3>3. /\ Agrees(loads[m].status, landings, written)
              /\ landings = {} \/ \E n \in DOMAIN history : landings = {n}
            BY <3>1, <3>2 DEF AccountInv
        <3>. HIDE DEF landings, written
        <3>4. /\ landings = {} => Cardinality(landings) = 0
              /\ \A n : landings = {n} => Cardinality(landings) = 1
            BY FS_EmptySet, FS_Singleton
        <3>5. /\ loads[m].status = "applied" => Cardinality(landings) = IF written THEN 1 ELSE 0
              /\ loads[m].status = "refused" => landings = {}
              /\ loads[m].status = "failed" => Cardinality(landings) <= 1
            <4>1. CASE landings = {}
                BY <3>3, <3>4, <4>1 DEF Agrees
            <4>2. CASE landings # {}
                <5>1. PICK n : landings = {n}
                    BY <3>3, <4>2
                <5>2. Cardinality(landings) = 1
                    BY <3>4, <5>1
                <5>. QED
                    BY <3>3, <4>2, <5>2 DEF Agrees
            <4>. QED
                BY <4>1, <4>2
        <3>. QED
            BY <3>5 DEF landings, written
    <2>3. ASSUME NEW n \in DOMAIN history, history[n].by \in Invocations,
                 run[history[n].by].pc = "done", ~ run[history[n].by].unlogged
          PROVE  \E m \in DOMAIN loads : /\ loads[m].by = history[n].by
                                         /\ loads[m].id = history[n].id
                                         /\ loads[m].status \in {"applied", "failed"}
        <3>1. AccountInv(history[n].by, run[history[n].by])
            BY <2>1, <2>3, IInvFacts
        <3>2. \E m \in LoggedBy(history[n].by, history[n].id) : loads[m].status \in {"applied", "failed"}
            BY <2>3, <3>1 DEF AccountInv
        <3>. QED
            BY <3>2 DEF LoggedBy
    <2>. QED
        BY <2>2, <2>3 DEF LogAgreesWithTable
<1>. QED
    BY <1>1, IngestInvariant, PTL

(* No load goes in that read in the log that its batch had, or may have: not in *)
(* a rerun of a sequence, nor after a write that failed, unless the question    *)
(* whether there is a log failed and was taken for a no (log.py, history and    *)
(* landed).                                                                     *)
THEOREM RecordedBatchesStayOut == Spec => []RecordedBatchLandsNoMore
<1>1. IInv => RecordedBatchLandsNoMore
    BY DEF IInv, HistoryInv, CommitInv, RecordedBatchLandsNoMore
<1>. QED
    BY <1>1, IngestInvariant, PTL

(* A load that went in with nobody asked, from the file that was rehearsed and  *)
(* after a log that answered, had been refused for its surroundings alone       *)
(* (sequence.py, record_stop; cli.py, cmd_ingest).                              *)
THEOREM UnaskedOnlyWhereSurroundingsTurned == Spec => []OnlySurroundingsTurn
<1>1. IInv => OnlySurroundingsTurn
    BY DEF IInv, HistoryInv, CommitInv, TurnsOnly, OnlySurroundingsTurn
<1>. QED
    BY <1>1, IngestInvariant, PTL

(* The loads of a confirmed order go in one after the other, and the record of  *)
(* a sequence says no more than what went in (sequence.py, run).                *)
THEOREM OrdersAreKept == Spec => []SequencesRunInOrder
<1>1. IInv => SequencesRunInOrder
    <2>1. SUFFICES ASSUME IInv
                   PROVE  SequencesRunInOrder
        OBVIOUS
    <2>2. ASSUME NEW n \in DOMAIN history, NEW i, i = history[n].by, i \in Invocations,
                 ~ history[n].alone
          PROVE  \A k \in 1..(Position(i, history[n].id) - 1) : Written(i, k)
        <3>. DEFINE x == run[i]
                    id == history[n].id
        <3>1. AccountInv(i, x) /\ InOrder(history[n])
            BY <2>1, <2>2, IInvFacts DEF IInv, OrderInv
        <3>2. PICK k \in DOMAIN x.job.order : id = IdAt(x, k)
            BY <2>2, <3>1 DEF AccountInv, OfOrder
        <3>3. x.job.order[k] = id[1] /\ id = <<id[1], x.job.later[id[1]]>>
            BY <3>2 DEF IdAt
        <3>4. Position(i, id) \in DOMAIN x.job.order /\ x.job.order[Position(i, id)] = id[1]
            BY <3>2, <3>3 DEF Position
        <3>5. id = IdAt(x, Position(i, id))
            BY <3>3, <3>4 DEF IdAt
        <3>. QED
            BY <2>2, <3>1, <3>4, <3>5 DEF InOrder
    <2>3. ASSUME NEW s \in sequences
          PROVE  /\ \A k \in 1..s.landed : Written(s.by, k)
                 /\ s.status = "applied" <=> s.landed = Len(run[s.by].job.order)
                 /\ s.status = "partial" => s.landed > 0
        BY <2>1, <2>3 DEF IInv, OrderInv, Told
    <2>. QED
        BY <2>2, <2>3 DEF SequencesRunInOrder
<1>. QED
    BY <1>1, IngestInvariant, PTL

-----------------------------------------------------------------------------
(* What a commit does to the table. *)

(* A commit of i is a load of its that lands and has something to write. *)
LEMMA LandingIsACommit ==
    ASSUME IInv, [Next]_vars, NEW i \in Invocations, Landing(i)
    PROVE  CommitLands(i) /\ Commits(File(run[i]), Mode(run[i]))
<1>1. history \in Seq(Commit) /\ i \notin Outsiders
    BY IngestAssumption DEF IInv, TableInv
<1>2. history' # history /\ history'[Len(history')].by = i
    <2>1. ~ Len(history) > Len(history)
        BY <1>1
    <2>. QED
        BY <2>1 DEF Landing
<1>3. \A o \in Outsiders : ~ OutsideCommit(o)
    <2>1. SUFFICES ASSUME NEW o \in Outsiders, OutsideCommit(o)
                   PROVE  FALSE
        OBVIOUS
    <2>2. PICK c : c = OutsideOf(o)
        OBVIOUS
    <2>3. c \in Commit /\ c.by = o
        BY <2>2 DEF OutsideOf, Commit, Authors
    <2>4. history' = Append(history, c)
        BY <2>1, <2>2 DEF OutsideCommit
    <2>5. history'[Len(history')] = c
        BY <1>1, <2>3, <2>4, Appended
    <2>. QED
        BY <1>1, <1>2, <2>3, <2>5
<1>4. PICK j \in Invocations : CommitLands(j)
    <2>1. \A j \in Invocations : Runs(j) => CommitLands(j)
        BY <1>2 DEF Runs, ReadLog, CheckTable, ReadSnapshot, Scan, WriteRejects, Confirm,
           CommitConflicts, CommitFails, RecordLands, RecordFails, RecordSequence, table
    <2>. QED
        BY <1>2, <1>3, <2>1 DEF Next, Start, Die, CreateTable, vars, table
<1>5. PICK x : x = run[j]
    OBVIOUS
<1>6. PICK c : c = CommitOf(j)
    OBVIOUS
<1>7. /\ Commits(File(x), Mode(x)) => history' = Append(history, c)
      /\ ~ Commits(File(x), Mode(x)) => history' = history
    BY <1>4, <1>5, <1>6 DEF CommitLands, Lands
<1>8. c \in Commit /\ c.by = j
    <2>1. x.pc \in Loading
        BY <1>4, <1>5 DEF CommitLands, Lands, Loading
    <2>2. LoadId(x) \in Ids /\ x \in RunState
        BY <1>5, <2>1, DueRun
    <2>. QED
        BY <1>5, <1>6, <2>2 DEF CommitOf, Commit, Authors, RunState
<1>9. j = i
    BY <1>1, <1>2, <1>7, <1>8, Appended
<1>. QED
    BY <1>2, <1>4, <1>5, <1>7, <1>9

(* What such a commit finds and leaves. *)
LEMMA LandingFacts ==
    ASSUME IInv, [Next]_vars, NEW i \in Invocations, Landing(i), NEW x, x = run[i],
           NEW file, file = File(x), NEW new, new = Prepared(file, Mode(x), i, x.read)
    PROVE  /\ TableInv /\ file \in FileRecords /\ Mode(x) \in Modes /\ x.read \in SUBSET Row
           /\ Passable(x) /\ ~ Empties(file, Mode(x)) /\ Commits(file, Mode(x))
           /\ rows' = Rewritten(rows, file, Mode(x), new)
           /\ Mode(x) = "merge" =>
                 /\ IsFiniteSet(x.read) /\ ~ Ambiguous(file, x.read)
                 /\ x.read = {y \in rows : y.key \in KeysOf(file)}
<1>1. CommitLands(i) /\ Commits(file, Mode(x))
    BY LandingIsACommit
<1>2. x.pc = "commit" /\ x.pc \in Loading
    BY <1>1 DEF CommitLands, Lands, Loading
<1>3. /\ TableInv /\ x \in RunState /\ Screened(x) /\ ReadInv(x)
      /\ file \in FileRecords /\ Mode(x) \in Modes
    BY <1>2, DueRun
<1>4. rows' = Rewritten(rows, file, Mode(x), new)
    BY <1>1 DEF CommitLands, Lands
<1>5. Mode(x) = "merge" => x.snap = Snapshot
    BY <1>1 DEF CommitLands, Asserts
<1>6. x.read \in SUBSET Row
    BY <1>3 DEF RunState
<1>. QED
    BY <1>1, <1>2, <1>3, <1>4, <1>5, <1>6 DEF Screened, ReadInv

LEMMA NewRowsAreIn ==
    ASSUME NEW old, NEW file, NEW mode \in Modes, NEW new
    PROVE  new \subseteq Rewritten(old, file, mode, new)
BY DEF Rewritten, Modes

(* A merge leaves one row for each key of its batch, and keeps what the file   *)
(* has no column for as it was in the row that the commit replaces, whoever    *)
(* wrote between the scan and the commit (runtime.py, _prepare).               *)
THEOREM MergesCarry == Spec => MergeCarriesWhatItReplaces
<1>. DEFINE Carries ==
                \A i \in Invocations :
                    Landing(i) /\ Mode(run[i]) = "merge"
                        => \A key \in KeysOf(File(run[i])) :
                              /\ Cardinality(Matching(rows', key)) = 1
                              /\ \A x \in Matching(rows, key), y \in Matching(rows', key) :
                                    \A c \in Columns \ File(run[i]).columns : x.cells[c] = y.cells[c]
<1>1. IInv /\ [Next]_vars => Carries
    <2>1. SUFFICES ASSUME IInv, [Next]_vars, NEW i \in Invocations, Landing(i), NEW x, x = run[i],
                          Mode(x) = "merge", NEW file, file = File(x), NEW key \in KeysOf(file)
                   PROVE  /\ Cardinality(Matching(rows', key)) = 1
                          /\ \A u \in Matching(rows, key), y \in Matching(rows', key) :
                                \A c \in Columns \ file.columns : u.cells[c] = y.cells[c]
        OBVIOUS
    <2>2. PICK new : new = Prepared(file, Mode(x), i, x.read)
        OBVIOUS
    <2>3. /\ TableInv /\ file \in FileRecords /\ x.read \in SUBSET Row
          /\ rows' = Rewritten(rows, file, "merge", new)
          /\ IsFiniteSet(x.read) /\ ~ Ambiguous(file, x.read)
          /\ x.read = {y \in rows : y.key \in KeysOf(file)}
        BY <2>1, <2>2, LandingFacts
    <2>4. rows' = {y \in rows : y.key \notin KeysOf(file)} \cup new
        BY <2>3 DEF Rewritten
    <2>5. Matching(rows', key) = Matching(new, key)
        BY <2>1, <2>4 DEF Matching
    <2>6. PICK row \in new : Matching(new, key) = {row}
        <3>1. file \in FileRecords /\ x.read \in SUBSET Row
            BY <2>3
        <3>2. \A k \in KeysOf(file) : \E y \in new : Matching(new, k) = {y}
            BY <2>1, <2>2, <3>1, PreparedRows
        <3>. QED
            BY <2>1, <3>2
    <2>7. Cardinality(Matching(rows', key)) = 1
        BY <2>5, <2>6, FS_Singleton
    <2>8. ASSUME NEW u \in Matching(rows, key), NEW c \in Columns \ file.columns
          PROVE  u.cells[c] = row.cells[c]
        <3>1. u \in Matching(x.read, key)
            BY <2>1, <2>3, <2>8 DEF Matching
        <3>2. (CHOOSE z \in Matching(x.read, key) : TRUE) = u
            BY <2>1, <2>3, <3>1, OneMatch
        <3>3. row.key = key
            BY <2>6 DEF Matching
        <3>4. row.cells = Carried(file, i, u)
            BY <2>1, <2>2, <2>6, <3>1, <3>2, <3>3 DEF Prepared
        <3>. QED
            BY <2>8, <3>4 DEF Carried
    <2>. QED
        BY <2>5, <2>6, <2>7, <2>8
<1>. QED
    BY <1>1, IngestInvariant, PTL DEF Spec, MergeCarriesWhatItReplaces

(* When a load lands, each line of its file is in the table or was set aside in *)
(* a quarantine that was asked for, and a table is left empty only by a file    *)
(* that is (runtime.py, _rows and execute).                                     *)
THEOREM NoLineIsLost == Spec => EveryLineIsLoadedOrSetAside
<1>. DEFINE Accounted ==
                \A i \in Invocations :
                    Landing(i)
                        => LET file == File(run[i])
                               set == {n \in Indices(file) :
                                          \A x \in Matching(rows', file.lines[n].key) : x.by # i}
                           IN  /\ set # {} => run[i].job.reject /\ set \subseteq SetAside(file)
                               /\ Cardinality(Kept(file)) = Cardinality(KeysOf(file))
                               /\ rows' = {} => Len(file.lines) = 0
<1>1. IInv /\ [Next]_vars => Accounted
    <2>1. SUFFICES ASSUME IInv, [Next]_vars, NEW i \in Invocations, Landing(i), NEW x, x = run[i],
                          NEW file, file = File(x),
                          NEW set, set = {n \in Indices(file) :
                                             \A y \in Matching(rows', file.lines[n].key) : y.by # i}
                   PROVE  /\ set # {} => x.job.reject /\ set \subseteq SetAside(file)
                          /\ Cardinality(Kept(file)) = Cardinality(KeysOf(file))
                          /\ rows' = {} => Len(file.lines) = 0
        OBVIOUS
    <2>2. PICK new : new = Prepared(file, Mode(x), i, x.read)
        OBVIOUS
    <2>3. /\ file \in FileRecords /\ Mode(x) \in Modes /\ x.read \in SUBSET Row
          /\ Absorbed(LineFailures(file), x.job.reject)
          /\ ~ Empties(file, Mode(x)) /\ Commits(file, Mode(x))
          /\ rows' = Rewritten(rows, file, Mode(x), new)
        BY <2>1, <2>2, LandingFacts DEF Passable
    <2>4. new \subseteq rows'
        BY <2>3, NewRowsAreIn
    <2>5. \A key \in KeysOf(file) : \E y \in new : y.key = key /\ y.by = i
        <3>1. \A key \in KeysOf(file) : \E y \in new : Matching(new, key) = {y}
            BY <2>1, <2>2, <2>3, PreparedRows
        <3>2. \A y \in new : y.by = i
            BY <2>2 DEF Prepared
        <3>. QED
            BY <3>1, <3>2 DEF Matching
    <2>6. set \subseteq SetAside(file)
        <3>1. \A n \in Kept(file) : file.lines[n].key \in KeysOf(file)
            BY DEF KeysOf
        <3>2. \A n \in Kept(file) : n \notin set
            BY <2>1, <2>4, <2>5, <3>1 DEF Matching
        <3>. QED
            BY <2>1, <3>2 DEF Kept
    <2>7. SetAside(file) # {} => x.job.reject
        BY <2>3, SetAsideFails DEF Absorbed
    <2>8. "duplicate_key" \notin LineFailures(file)
        BY <2>3 DEF Absorbed, RowFailures
    <2>9. Cardinality(Kept(file)) = Cardinality(KeysOf(file))
        BY <2>3, <2>8, KeysTellLinesApart
    <2>10. ASSUME rows' = {}
           PROVE  Len(file.lines) = 0
        <3>1. KeysOf(file) = {}
            BY <2>4, <2>5, <2>10
        <3>2. Kept(file) = {}
            BY <2>3, <3>1, KeysOfFile
        <3>3. SetAside(file) = {}
            BY <2>3, <3>2 DEF Empties, Commits
        <3>4. DOMAIN file.lines = {}
            BY <3>2, <3>3 DEF Kept, Indices
        <3>5. DOMAIN file.lines = 1..Len(file.lines) /\ Len(file.lines) \in Nat
            BY <2>3, FileFields
        <3>6. Len(file.lines) >= 1 => 1 \in DOMAIN file.lines
            BY <3>5
        <3>. QED
            BY <3>4, <3>5, <3>6
    <2>. QED
        BY <2>6, <2>7, <2>9, <2>10
<1>. QED
    BY <1>1, IngestInvariant, PTL DEF Spec, EveryLineIsLoadedOrSetAside
=============================================================================
