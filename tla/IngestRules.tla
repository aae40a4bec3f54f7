----------------------------- MODULE IngestRules -----------------------------
(* The pure part of ingest/runtime.py: what a load makes of its file, which   *)
(* failures it finds, and the rows each mode leaves in the table. A property  *)
(* is a column here, whatever an entry calls it in its file; a cell holds the *)
(* name of whoever gave it its value.                                         *)
EXTENDS Naturals, Sequences, FiniteSets

CONSTANTS
    Keys,       \* primary-key values
    NullKey,    \* the key of a line that has none
    Mapped,     \* columns a property maps, the key's aside
    Demanded,   \* those of them whose property is not nullable
    Unmapped,   \* columns of the table no property maps
    Orphaned,   \* those of them the table requires
    NoValue     \* the null of a cell

ASSUME RulesAssumption ==
    /\ NullKey \notin Keys
    /\ Demanded \subseteq Mapped
    /\ Orphaned \subseteq Unmapped
    /\ Mapped \cap Unmapped = {}

Columns == Mapped \cup Unmapped

(* A file as read_batch returns it: [columns: the mapped ones it has, keyed:   *)
(* has it the key's column, extra: a column no property claims, lines:         *)
(* sequence of [key, fits]]; a line that does not fit has a value its property *)
(* cannot hold.                                                                *)

Modes == {"append", "replace", "merge"}

\* _check_columns
ColumnFailures(file) ==
    {c \in {"unmapped_column", "missing_column"} :
        \/ c = "unmapped_column" /\ file.extra
        \/ c = "missing_column" /\ (~ file.keyed \/ ~ Demanded \subseteq file.columns)}

\* _check_table: a merge carries what an append or a replace cannot fill.
TableFailures(mode, exists) ==
    IF ~ exists THEN {"table_missing"}
    ELSE IF mode # "merge" /\ Orphaned # {} THEN {"missing_column"} ELSE {}

\* Failures a quarantine file absorbs: QUARANTINABLE of result.py.
RowFailures == {"type_error", "null_key"}

Indices(file) == DOMAIN file.lines

SetAside(file) == {i \in Indices(file) : ~ file.lines[i].fits \/ file.lines[i].key = NullKey}

Kept(file) == Indices(file) \ SetAside(file)

\* _rows: one key cannot name two rows, and no quarantine chooses between them.
LineFailures(file) ==
    {"type_error" : i \in {j \in Indices(file) : ~ file.lines[j].fits}}
    \cup {"null_key" : i \in {j \in SetAside(file) : file.lines[j].fits}}
    \cup {"duplicate_key" : i \in {j \in Kept(file) :
              \E k \in Kept(file) : k < j /\ file.lines[k].key = file.lines[j].key}}

KeysOf(file) == {file.lines[i].key : i \in Kept(file)}

Absorbed(failures, reject) == failures = {} \/ (reject /\ failures \subseteq RowFailures)

\* A plausible bug: a quarantine may leave a replace with nothing to write.
EmptiesNever(file, mode) == FALSE

Empties(file, mode) == mode = "replace" /\ SetAside(file) # {} /\ Kept(file) = {}

-----------------------------------------------------------------------------
(* A stored row: [key, by, cells]. *)

Matching(rows, key) == {x \in rows : x.key = key}

\* _carry_across: a duplicated key would be merged into one row.
Ambiguous(file, rows) == \E key \in KeysOf(file) : Cardinality(Matching(rows, key)) > 1

Fresh(file, by) == [c \in Columns |-> IF c \in file.columns THEN by ELSE NoValue]

\* The batch on top of the row it read: a column the file lacks keeps its value.
Carried(file, by, stored) == [c \in Columns |-> IF c \in file.columns THEN by ELSE stored.cells[c]]

\* A plausible bug: a merge writes what the file has and nothing else.
PreparedBare(file, mode, by, read) ==
    {[key |-> key, by |-> by, cells |-> Fresh(file, by)] : key \in KeysOf(file)}

\* _prepare: the rows that go into the table, from those the scan returned.
Prepared(file, mode, by, read) ==
    {[key |-> key, by |-> by,
      cells |-> IF mode = "merge" /\ Matching(read, key) # {}
                THEN Carried(file, by, CHOOSE x \in Matching(read, key) : TRUE)
                ELSE Fresh(file, by)] : key \in KeysOf(file)}

\* _write: append_batch, replace_table and merge_batch.
Rewritten(rows, file, mode, new) ==
    CASE mode = "append" -> rows \cup new
      [] mode = "replace" -> new
      [] mode = "merge" -> {x \in rows : x.key \notin KeysOf(file)} \cup new

\* An append or a merge of no rows returns before it commits anything.
Commits(file, mode) == mode = "replace" \/ Kept(file) # {}
=============================================================================
