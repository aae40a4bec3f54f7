----------------------------- MODULE SchemaDiff -----------------------------
(* What a migration computes: the columns a spec wants (migrate/schema.py),   *)
(* the changes that take a live table there (migrate/diff.py), what a         *)
(* rollback reads out of the history (migrate/rollback.py), and what the      *)
(* catalog does with a schema change. An ontology is its properties and the   *)
(* sides of its mapping tables; a live table is a function from the names of  *)
(* its columns to [id, type, required], and one without columns is not there. *)
EXTENDS Naturals, Sequences, FiniteSets, SequencesExt

CONSTANTS
    NoName,     \* a column that was not renamed
    Virtual     \* a type that is stored in no column

-----------------------------------------------------------------------------
(* The desired columns. *)

Declarations(ontology) ==
    {[table |-> p.table, column |-> p.column, type |-> p.type, required |-> ~p.nullable, from |-> p.from] :
        p \in {q \in ontology.properties : q.type # Virtual}}
    \cup {[table |-> s.table, column |-> s.column, type |-> s.type, required |-> TRUE, from |-> s.from] :
        s \in ontology.sides}

Wanting(ontology, t, c) == {d \in Declarations(ontology) : d.table = t /\ d.column = c}

\* Two declarations of a column: required only if both require it, and the rename of either.
Desired(ontology, t) ==
    [c \in {d.column : d \in {x \in Declarations(ontology) : x.table = t}} |->
        LET wanting == Wanting(ontology, t, c)
            renames == {d.from : d \in wanting} \ {NoName}
        IN [type |-> (CHOOSE d \in wanting : TRUE).type,
            required |-> \A d \in wanting : d.required,
            from |-> IF renames = {} THEN NoName ELSE CHOOSE old \in renames : TRUE]]

Agree(ontology) ==
    \A d, e \in Declarations(ontology) :
        d.table = e.table /\ d.column = e.column =>
            d.type = e.type /\ (d.from = e.from \/ NoName \in {d.from, e.from})

\* A rename takes no column a property is live on, and no two take one.
CheckRenames(desired) ==
    LET renamed == {c \in DOMAIN desired : desired[c].from # NoName}
    IN  /\ \A c \in renamed : desired[c].from \notin DOMAIN desired
        /\ \A c, d \in renamed : desired[c].from = desired[d].from => c = d

\* A rollback's renames win over those of the spec it restores.
ApplyRenames(desired, overlay) ==
    [c \in DOMAIN desired |->
        IF c \in DOMAIN overlay THEN [desired[c] EXCEPT !.from = overlay[c]] ELSE desired[c]]

OverlayClashes(desired, overlay) == \E c \in DOMAIN overlay : overlay[c] \in DOMAIN desired

-----------------------------------------------------------------------------
(* The difference. *)

\* iceberg_alterable: the types a live column may be changed to in place.
Alterable(current, wanted) ==
    current = wanted \/ <<current, wanted>> \in {<<"int", "long">>, <<"float", "double">>}

Change(kind, column, want, from, breaking) ==
    [kind |-> kind, column |-> column, type |-> want.type, required |-> want.required,
     from |-> from, breaking |-> breaking]

Creation(desired) == {Change("add", c, desired[c], NoName, FALSE) : c \in DOMAIN desired}

Retyped(c, want, current) ==
    IF Alterable(current.type, want.type)
    THEN Change("promote", c, want, NoName, FALSE)
    ELSE Change("retype", c, want, NoName, TRUE)

Renullabled(c, want, current) ==
    IF current.required
    THEN Change("loosen", c, want, NoName, FALSE)
    ELSE Change("tighten", c, want, NoName, TRUE)

Compared(c, want, current) ==
    (IF current.type = want.type THEN {} ELSE {Retyped(c, want, current)})
    \cup (IF current.required = want.required THEN {} ELSE {Renullabled(c, want, current)})

\* A slip: a renamed column is not compared until the next plan.
ColumnChangesRenameOnly(c, want, live) ==
    LET here == c \in DOMAIN live
        old == want.from \in DOMAIN live
    IN  IF ~here /\ ~old THEN {Change("add", c, want, NoName, want.required)}
        ELSE IF old THEN {Change("rename", c, want, want.from, here)}
        ELSE Compared(c, want, live[c])

\* A required column cannot be added to rows; a rename onto a live column cannot merge them.
ColumnChanges(c, want, live) ==
    LET here == c \in DOMAIN live
        old == want.from \in DOMAIN live
        current == IF here THEN live[c] ELSE live[want.from]
    IN  IF ~here /\ ~old THEN {Change("add", c, want, NoName, want.required)}
        ELSE (IF old THEN {Change("rename", c, want, want.from, here)} ELSE {})
             \cup Compared(c, want, current)

Alteration(desired, live) == UNION {ColumnChanges(c, desired[c], live) : c \in DOMAIN desired}

NoChange == [action |-> "none", columns |-> {}]

DiffTable(desired, live) ==
    IF desired = << >> THEN NoChange
    ELSE IF live = << >> THEN [action |-> "create", columns |-> Creation(desired)]
    ELSE IF Alteration(desired, live) = {} THEN NoChange
    ELSE [action |-> "alter", columns |-> Alteration(desired, live)]

Breaking(change) == \E c \in change.columns : c.breaking

\* What may be read as another type, which is more than may be stored as it.
Promotable(stored, declared) ==
    stored = declared
    \/ <<stored, declared>> \in {<<"int", "long">>, <<"int", "double">>, <<"long", "double">>, <<"float", "double">>}

(* What loom validate --physical has no error for: every property and side of a *)
(* mapping table has its column, a stored property can be read as its type, and *)
(* a primary key is required.                                                   *)
PhysicallySound(ontology, t, live) ==
    /\ \A p \in {q \in ontology.properties : q.table = t} :
          /\ p.column \in DOMAIN live
          /\ p.type # Virtual => Promotable(live[p.column].type, p.type)
          /\ p.key => live[p.column].required
    /\ \A s \in {q \in ontology.sides : q.table = t} : s.column \in DOMAIN live

\* Live columns nobody maps and nothing is renamed from.
Unmanaged(desired, live) ==
    DOMAIN live \ (DOMAIN desired \cup {desired[c].from : c \in DOMAIN desired})

\* A slip: it names what the restored spec leaves of what it maps.
LeftBehindOfRestored(recorded, restored, overlaid, live) ==
    IF live = << >> \/ recorded = << >> THEN {}
    ELSE IF restored = << >> THEN DOMAIN live
    ELSE Unmanaged(overlaid, live) \cap DOMAIN restored

\* What a rollback reports of a table: columns and a whole table the restored spec leaves.
LeftBehind(recorded, restored, overlaid, live) ==
    IF live = << >> \/ recorded = << >> THEN {}
    ELSE IF restored = << >> THEN DOMAIN live
    ELSE Unmanaged(overlaid, live) \cap DOMAIN recorded

-----------------------------------------------------------------------------
(* The change, made. Paths are resolved against the schema the transaction    *)
(* opened with, so an edit of a renamed column names the old one.             *)

OfKind(change, kind) == {c \in change.columns : c.kind = kind}

Path(change, name) ==
    LET renames == {c \in OfKind(change, "rename") : c.column = name}
    IN  IF renames = {} THEN name ELSE (CHOOSE c \in renames : TRUE).from

Taken(change) == {c.from : c \in OfKind(change, "rename")}

\* Of two renames of one column the catalog keeps the last of the plan, here one of them.
NewName(change, old) == (CHOOSE c \in OfKind(change, "rename") : c.from = old).column

Given(change) == {NewName(change, old) : old \in Taken(change)}
Additions(change) == {c.column : c \in OfKind(change, "add")}

\* Whether the catalog accepts it: it must find each column and end with distinct names.
Accepts(live, change) ==
    IF change.action = "create" THEN live = << >>
    ELSE /\ live # << >>
         /\ Taken(change) \subseteq DOMAIN live
         /\ (Given(change) \cup Additions(change)) \cap (DOMAIN live \ Taken(change)) = {}
         /\ \A c \in OfKind(change, "promote") :
               /\ Path(change, c.column) \in DOMAIN live
               /\ Alterable(live[Path(change, c.column)].type, c.type)
         /\ \A c \in OfKind(change, "loosen") : Path(change, c.column) \in DOMAIN live

\* A column added to a live table is optional, and takes the next field id.
Added(live, change, name) ==
    LET order == SetToSeq(Additions(change))
        add == CHOOSE c \in OfKind(change, "add") : c.column = name
    IN  [id |-> Cardinality(DOMAIN live) + (CHOOSE i \in DOMAIN order : order[i] = name),
         type |-> add.type,
         required |-> change.action = "create" /\ add.required]

\* The column that goes by a name afterwards.
Was(change, name) ==
    IF name \in Given(change) THEN CHOOSE old \in Taken(change) : NewName(change, old) = name ELSE name

Kept(live, change, name) ==
    LET old == Was(change, name)
        field == live[old]
        promoted == {c \in OfKind(change, "promote") : Path(change, c.column) = old}
        relaxed == \E c \in OfKind(change, "loosen") : Path(change, c.column) = old
    IN  [id |-> field.id,
         type |-> IF promoted = {} THEN field.type ELSE (CHOOSE c \in promoted : TRUE).type,
         required |-> field.required /\ ~relaxed]

\* A slip: a rename made of a drop and an add.
AlteredByReplacing(live, change) ==
    [name \in (DOMAIN live \ Taken(change)) \cup Given(change) \cup Additions(change) |->
        IF name \in Additions(change) THEN Added(live, change, name)
        ELSE IF name \in Given(change)
             THEN [Kept(live, change, name) EXCEPT !.id = Cardinality(DOMAIN live) + 1]
        ELSE Kept(live, change, name)]

Altered(live, change) ==
    [name \in (DOMAIN live \ Taken(change)) \cup Given(change) \cup Additions(change) |->
        IF name \in Additions(change) THEN Added(live, change, name) ELSE Kept(live, change, name)]

-----------------------------------------------------------------------------
(* The way back. A chain is a sequence of [origin, current], in the order the *)
(* origins were first renamed.                                                *)

\* chain[origin] = new, where the origin is the first whose current name is the old one.
Extend(chain, r) ==
    LET from == {i \in DOMAIN chain : chain[i].current = r.old}
        origin == IF from = {} THEN r.old
                  ELSE chain[CHOOSE i \in from : \A j \in from : i <= j].origin
        at == {i \in DOMAIN chain : chain[i].origin = origin}
    IN  IF at = {} THEN Append(chain, [origin |-> origin, current |-> r.new])
        ELSE [i \in DOMAIN chain |-> IF i \in at THEN [chain[i] EXCEPT !.current = r.new] ELSE chain[i]]

\* told: the renames of one table recorded after the version, oldest first.
ReverseRenames(told) ==
    LET chain[n \in 0 .. Len(told)] == IF n = 0 THEN << >> ELSE Extend(chain[n - 1], told[n])
        settled == {c \in Range(chain[Len(told)]) : c.origin # c.current}
    IN  [o \in {c.origin : c \in settled} |-> (CHOOSE c \in settled : c.origin = o).current]
=============================================================================
