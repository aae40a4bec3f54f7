---------------------------- MODULE ActionRules ----------------------------
(* What one action decides and writes, as a function of the rows it was shown. *)
(* This is the pure part of action/runtime.py: everything a run computes       *)
(* between its read and its commit. A physical row has a key, the commit that  *)
(* wrote it, and two other cells: the column a declared property maps, and one *)
(* no property maps, which stands for every column a write must carry across.  *)
CONSTANTS
    Keys,       \* primary-key values
    Values,     \* values a cell can hold
    Null,       \* the null of a cell, and the answer for a column that is missing
    Runs,       \* runs of the action runtime; a run's edit id is the run itself
    Outsiders,  \* commits of writers that are not Loom, one commit each
    Jobs,       \* the calls the runs may be given
    Contents    \* the cells writers that are not Loom give a row

Cell == Values \cup {Null}

\* Columns of the backing table: the declared property and the unmapped rest.
Property == "property"
Unmapped == "unmapped"
Columns == {Property, Unmapped}

Authors == Runs \cup Outsiders

Row == [key : Keys, by : Authors, cells : [Columns -> Cell]]

(* A call of one action. allowed holds the property values under which every   *)
(* validation rule passes and every effect expression evaluates; effect is the *)
(* value the effect writes; hidden holds the values whose row the caller's     *)
(* row policy does not admit. binds is FALSE for a call whose parameters or    *)
(* key cannot be bound.                                                        *)
Job == [op : {"create", "modify", "delete"}, key : Keys, binds : BOOLEAN,
        allowed : SUBSET Cell, effect : [Cell -> Cell], hidden : SUBSET Cell,
        dry : BOOLEAN, recordRefusals : BOOLEAN]

ASSUME RulesAssumption ==
    /\ Runs \cap Outsiders = {}
    /\ Null \notin Values
    /\ Jobs \subseteq Job
    /\ Contents \subseteq [Columns -> Cell]

(* The property of a physical row, read by the column name the ontology knows. *)
(* renamed holds the columns a schema change has renamed since: their old name *)
(* finds nothing, and row.get answers None.                                    *)
PropertyOf(row, renamed) ==
    IF Property \in renamed THEN Null ELSE row.cells[Property]

Admitted(job, row, renamed) == PropertyOf(row, renamed) \notin job.hidden

Ambiguous(found) == \E x, y \in found : x # y

(* The object the rules and effects of a job see: none for a create. *)
Subject(job, found, renamed) ==
    IF job.op = "create" THEN {Null} ELSE {PropertyOf(x, renamed) : x \in found}

Valid(job, found, renamed) == Subject(job, found, renamed) \subseteq job.allowed

\* A plausible bug: the row policy is consulted for reads and forgotten for writes.
DecisionUngoverned(job, found, renamed) ==
    IF Ambiguous(found) THEN "ambiguous_key"
    ELSE IF job.op = "create" /\ found # {} THEN "object_exists"
    ELSE IF job.op # "create" /\ found = {} THEN "object_not_found"
    ELSE IF ~ Valid(job, found, renamed) THEN "validation_failed"
    ELSE "go"

(* The refusal a read leads to, or "go". *)
Decision(job, found, renamed) ==
    IF Ambiguous(found) THEN "ambiguous_key"
    ELSE IF job.op = "create" /\ found # {} THEN "object_exists"
    ELSE IF job.op # "create" /\ ~ \E x \in found : Admitted(job, x, renamed)
         THEN "object_not_found"
    ELSE IF ~ Valid(job, found, renamed) THEN "validation_failed"
    ELSE "go"

Refusals == {"ambiguous_key", "object_exists", "object_not_found", "validation_failed"}

(* The cells of the row a run writes: the cells it read, the effect on top,    *)
(* both by the column names of its own read, laid onto the schema as it is     *)
(* when the batch is built. A name that schema does not have is dropped, and a *)
(* column no name in the row matches is null.                                  *)
Carried(row, column, was, now) ==
    IF (column \in was) = (column \in now) THEN row.cells[column] ELSE Null

\* A plausible bug: the row is written from the projection the ontology sees.
ModifiedCellsProjected(job, row, was, now) ==
    [c \in Columns |-> IF c = Property THEN job.effect[PropertyOf(row, was)] ELSE Null]

ModifiedCells(job, row, was, now) ==
    [c \in Columns |->
        IF c = Property /\ Property \notin now
        THEN job.effect[PropertyOf(row, was)]
        ELSE Carried(row, c, was, now)]

CreatedCells(job, now) ==
    [c \in Columns |->
        IF c = Property /\ Property \notin now THEN job.effect[Null] ELSE Null]

(* The rows that replace every row of the job's key. *)
Written(job, r, found, was, now) ==
    CASE job.op = "create" -> {[key |-> job.key, by |-> r, cells |-> CreatedCells(job, now)]}
      [] job.op = "modify" -> {[key |-> job.key, by |-> r,
                                cells |-> ModifiedCells(job, x, was, now)] : x \in found}
      [] job.op = "delete" -> {}

(* insert_row adds; replace_row and delete_row filter on the key. *)
Rewrite(rows, job, r, found, was, now) ==
    (IF job.op = "create" THEN rows ELSE {x \in rows : x.key # job.key})
        \cup Written(job, r, found, was, now)
=============================================================================
