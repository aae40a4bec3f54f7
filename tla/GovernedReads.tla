---------------------------- MODULE GovernedReads ----------------------------
(* The read plane: a resolver lowers a call and the policies decided for its  *)
(* caller to one query (resolver.py, filters.py, ir.py), and DuckDBEngine     *)
(* scans the tables the query names one after the other, registers what it    *)
(* read under fixed aliases on one connection, and runs the SQL.              *)
EXTENDS Governance, Integers

CONSTANTS
    Cases,       \* [program, caller, tables, calls]: what one deployment is asked
    Edits,       \* [table, rows]: what another writer may leave in a table
    MaxEdits,
    Substring,   \* pairs <<part, whole>> of string ranks: ILIKE '%part%'
    NoneText,    \* the string rank of str(None)
    MaxPage, DefaultPage

VARIABLES
    case,        \* the deployment: its program, its caller and the calls left to make
    table,       \* table name -> its rows
    con,         \* alias -> the rows the connection has registered under it
    call,        \* the call being answered
    seen,        \* alias -> the table as it was when this call scanned it
    pending,     \* the aliases this call has still to scan, in order
    answer,      \* [status, rows, more]
    edits

vars == <<case, table, con, call, seen, pending, answer, edits>>

NoCall == [op |-> "none"]
NoAnswer == [status |-> "none", rows |-> << >>, more |-> FALSE]
Refused == [status |-> "refused", rows |-> << >>, more |-> FALSE]

-----------------------------------------------------------------------------
(* Filters. *)

Props(on) == Objects[on].props
StoredKind(type) ==
    CASE Base(type) \in NumericKinds \ {"double"} -> "exact"
      [] Base(type) = "timestamp" -> "date"
      [] OTHER -> Base(type)

NullableOps == {"eq", "ne", "in"}
OrderingOps == {"gt", "gte", "lt", "lte"}
SqlOp(op) == CASE op = "eq" -> "==" [] op = "ne" -> "!=" [] op = "gt" -> ">"
               [] op = "gte" -> ">=" [] op = "lt" -> "<" [] op = "lte" -> "<="

\* Only searchable properties are filtered on, so a string always has contains.
Operators(type) ==
    NullableOps
        \cup (IF type.kind \in {"enum", "boolean", "objectRef"} THEN {} ELSE OrderingOps)
        \cup (IF type.kind = "string" THEN {"contains"} ELSE {})

\* A filter is [prop, op, values]; op is "bare" for a value with no operator.
Operator(type, op) == IF op # "bare" THEN op ELSE IF type.kind = "string" THEN "contains" ELSE "eq"

NullFits(op) == op \in NullableOps \cup {"contains"}

ValuesFit(on, f) ==
    LET type == Props(on)[f.prop]
        op == Operator(type, f.op)
    IN  /\ op \in Operators(type)
        /\ f.values # {}
        /\ op # "in" => Cardinality(f.values) = 1
        /\ \A v \in f.values :
              IF v.kind = "null" THEN f.op # "bare" /\ NullFits(op) ELSE v.kind = StoredKind(type)

FilterFits(program, on, f) ==
    /\ f.prop \in DOMAIN Props(on)
    /\ f.prop \in Objects[on].searchable
    /\ f.prop \notin Masked(program, on)
    /\ ValuesFit(on, f)

\* str(None) is what a contains of null looks for.
SqlContains(a, text) ==
    IF a.kind = "null" THEN "undecided"
    ELSE Decided(<<IF text.kind = "null" THEN NoneText ELSE text.at, a.at>> \in Substring)

SqlIn(a, values) ==
    LET some == values \ {Null}
        among == IF a.kind = "null" THEN "undecided" ELSE Decided(\E v \in some : SqlSame(a, v) = "true")
    IN  CASE some = {} -> SqlSame(a, Null)
          [] Null \notin values -> among
          [] OTHER -> SqlConnect("||", among, SqlSame(a, Null))

FilterTruth(on, f, row) ==
    LET op == Operator(Props(on)[f.prop], f.op)
        value == CHOOSE v \in f.values : TRUE
    IN  CASE op = "contains" -> SqlContains(row[f.prop], value)
          [] op = "in" -> SqlIn(row[f.prop], f.values)
          [] OTHER -> SqlCompare(SqlOp(op), row[f.prop], value)

Matches(on, filters, row) == \A f \in filters : FilterTruth(on, f, row) = "true"

(* The equalities a scan may push down: the only operator EqualTo answers.    *)
Hints(on, filters) ==
    {[prop |-> f.prop, value |-> CHOOSE v \in f.values : TRUE] :
        f \in {g \in filters : Operator(Props(on)[g.prop], g.op) = "eq"}}

-----------------------------------------------------------------------------
(* The query of a call. *)

\* The end a link is followed from, and the end it arrives at.
Near(c) == IF c.forward THEN Links[c.link].from ELSE Links[c.link].to
Far(c) == IF c.forward THEN Links[c.link].to ELSE Links[c.link].from
Through(c) == Links[c.link].through

TargetType(c) == IF c.op = "traverse" THEN Far(c).type ELSE c.on

HasLink(on, link) == link \in DOMAIN Links /\ on \in {Links[link].from.type, Links[link].to.type}

PageSize(c) == IF c.limit = {} THEN DefaultPage ELSE CHOOSE n \in c.limit : TRUE

\* Matcher.match: a type with a semantic property, a question, and a sidecar to ask.
Rankable(c, tables) ==
    /\ Objects[c.on].semantic # ""
    /\ ~ c.blank
    /\ Objects[c.on].vectors \in DOMAIN tables

\* What is refused before anything is scanned.
Compiles(program, caller, c, tables) ==
    /\ MayDecide(program, caller)
    /\ c.on \in DOMAIN Objects
    /\ PageSize(c) \in 1..MaxPage /\ c.offset >= 0
    /\ c.op = "traverse" => HasLink(c.on, c.link) /\ Near(c).type = c.on
    /\ c.op = "match" => Rankable(c, tables)
    /\ c.op = "match" /\ c.link # "" => HasLink(c.on, c.link) /\ Near(c).type = c.on
    /\ \A f \in c.filters : FilterFits(program, TargetType(c), f)
    /\ \A f \in c.via : FilterFits(program, Far(c).type, f)

\* The aliases a query scans, in the order the engine scans them.
Aliases(c) ==
    CASE c.op = "traverse" ->
            IF Through(c) THEN <<"target", "source", "through">> ELSE <<"target", "source">>
      [] c.op = "match" ->
            IF c.link = "" THEN <<"target", "vectors">>
            ELSE IF Through(c) THEN <<"target", "vectors", "through", "link">>
            ELSE <<"target", "vectors", "link">>
      [] OTHER -> <<"target">>

TableOf(c, alias) ==
    CASE alias = "target" -> TargetType(c)
      [] alias = "source" -> c.on
      [] alias = "through" -> c.link
      [] alias = "link" -> Far(c).type
      [] alias = "vectors" -> Objects[c.on].vectors

Key(on) == Objects[on].key

\* The equalities each scan carries, as column and value.
Pushed(c, alias) ==
    CASE alias = "target" /\ c.op = "get" -> {[prop |-> Key(c.on), value |-> c.key]}
      [] alias = "target" /\ c.op \in {"search", "match"} -> Hints(c.on, c.filters)
      [] alias = "source" -> {[prop |-> Key(c.on), value |-> c.key]}
      [] alias = "vectors" -> {[prop |-> "model", value |-> c.model]}
      [] alias = "link" -> Hints(Far(c).type, c.via)
      [] OTHER -> {}

\* A get reads two rows at most: enough to tell one from several.
GetLimit == 2

\* SQL's = never matches a null.
Joins(a, b) == a.kind # "null" /\ SqlSame(a, b) = "true"

Linked(c, near, far, from) ==
    IF Through(c)
    THEN \E t \in from["through"] :
            /\ Joins(near[Near(c).prop], IF c.forward THEN t["from"] ELSE t["to"])
            /\ Joins(far[Far(c).prop], IF c.forward THEN t["to"] ELSE t["from"])
    ELSE Joins(near[Near(c).prop], far[Far(c).prop])

\* The rows of the target that the filters leave.
Remaining(c, from) == {r \in from["target"] : Matches(TargetType(c), c.filters, r)}

(* What a match ranks: a row with each vector of it that the call's model made, *)
(* a link being an EXISTS over rows their filters leave.                        *)
Nearest(c, from) ==
    LET linked(r) == \E far \in from["link"] : Linked(c, r, far, from) /\ Matches(Far(c).type, c.via, far)
    IN  {<<p[1], p[2]>> : p \in {q \in Remaining(c, from) \X from["vectors"] :
            /\ Joins(q[1][Key(c.on)], q[2]["key"])
            /\ SqlSame(q[2]["model"], c.model) = "true"
            /\ c.link # "" => linked(q[1])}}

(* What a query's FROM and WHERE leave of the rows the governance clause shows: *)
(* a row, and what it was reached from or ranked by.                            *)
Answering(c, from) ==
    CASE c.op = "get" -> {<<r>> : r \in {x \in Remaining(c, from) : Joins(x[Key(c.on)], c.key)}}
      [] c.op \in {"search", "list"} -> {<<r>> : r \in Remaining(c, from)}
      [] c.op = "traverse" ->
            {<<p[1], p[2]>> : p \in {q \in Remaining(c, from) \X from["source"] :
                /\ Joins(q[2][Key(c.on)], c.key)
                /\ Linked(c, q[2], q[1], from)}}
      [] c.op = "match" -> Nearest(c, from)

\* ORDER BY the score, nearest first, then the primary key.
Precedes(c, x, y) ==
    LET key(z) == z[1][Key(TargetType(c))].at
    IN  IF c.op = "match" /\ x[2]["score"].at # y[2]["score"].at
        THEN x[2]["score"].at > y[2]["score"].at
        ELSE key(x) < key(y)

Paged(c, rows) ==
    IF c.op = "get" THEN rows
    ELSE SubSeq(rows, c.offset + 1, IF c.offset + PageSize(c) < Len(rows) THEN c.offset + PageSize(c) ELSE Len(rows))

\* The properties the mask leaves, and for a match whether its text has moved on.
Projected(program, c, found) ==
    LET on == TargetType(c)
    IN  [object |-> [p \in DOMAIN Props(on) \ Masked(program, on) |-> found[1][p]],
         stale |-> c.op = "match" /\ found[2]["text"] # found[1][Objects[on].semantic]]

Result(program, c, rows) ==
    IF c.op = "get" /\ Len(rows) > 1 THEN [status |-> "error", rows |-> << >>, more |-> FALSE]
    ELSE LET page == Paged(c, rows)
         IN  [status |-> "rows",
              rows |-> [i \in DOMAIN page |-> Projected(program, c, page[i])],
              more |-> c.op # "get" /\ Len(page) = PageSize(c)]

\* The object types among the tables of a query are governed, a mapping table and vectors not.
Governed == {"target", "source", "link"}

SqlShows(program, caller, on, row) ==
    \A e \in RowsFor(program, on, caller) : SqlTruth(e, row) = "true"

\* The governance clause of the SQL: every table's predicates, in the WHERE.
Shown(program, caller, c, from) ==
    [alias \in {Aliases(c)[i] : i \in DOMAIN Aliases(c)} |->
        {r \in from[alias] : alias \in Governed => SqlShows(program, caller, TableOf(c, alias), r)}]

\* What may come next in the order: of rows that compare equal, any.
First(c, rows) == {x \in rows : \A y \in rows : ~ Precedes(c, y, x)}
Among(ranking) == {ranking[i] : i \in DOMAIN ranking}

Rankings(c, rows) ==
    LET first[n \in 0..Cardinality(rows)] ==
            IF n = 0 THEN {<< >>}
            ELSE UNION {{Append(before, x) : x \in First(c, rows \ Among(before))} : before \in first[n - 1]}
    IN  first[Cardinality(rows)]

Answers(program, caller, c, from) ==
    {Result(program, c, ranking) : ranking \in Rankings(c, Answering(c, Shown(program, caller, c, from)))}

-----------------------------------------------------------------------------
(* What is asked of the constants. *)

\* A type of a property; a link and an objectRef arrive at properties.
IsType(type) ==
    /\ ~ type.list
    /\ type.kind \in {"string", "boolean", "date", "timestamp", "enum", "objectRef"} \cup NumericKinds
    /\ type.kind = "objectRef" => type.refers \in {"string", "boolean", "date", "timestamp"} \cup NumericKinds

OntologyAssumption ==
    /\ \A on \in DOMAIN Objects :
          /\ \A p \in DOMAIN Props(on) : IsType(Props(on)[p])
          /\ Key(on) \in DOMAIN Props(on)
          /\ Objects[on].semantic \in DOMAIN Props(on) \cup {""}
    /\ \A l \in DOMAIN Links : \A end \in {Links[l].from, Links[l].to} :
          /\ end = [type |-> end.type, prop |-> end.prop]
          /\ end.type \in DOMAIN Objects /\ end.prop \in DOMAIN Props(end.type)
    /\ \A c \in DOMAIN Claims : Claims[c].kind \in {"string", "boolean"}
    /\ MaxPage \in Nat
ASSUME OntologyAssumption

\* What the parser builds (expr.py): every node after its own.
IsTree(e) ==
    /\ e \in Seq({e[i] : i \in DOMAIN e}) /\ e # << >>
    /\ \A i \in DOMAIN e :
          /\ e[i].op = "!" => e[i].of \in 1..(i - 1)
          /\ e[i].op \in Connectives => e[i].left \in 1..(i - 1) /\ e[i].right \in 1..(i - 1)

IsExpression(e) ==
    /\ IsTree(e)
    /\ \A i \in Leaves(e) : \A x \in {e[i].left, e[i].right} :
          x.is = "literal" => x.value.kind \in {"null", "boolean", "exact", "double", "string"}

\* What the physical check leaves in a table (validator.py): every property has its column.
IsRow(on, r) ==
    /\ r = [p \in DOMAIN Props(on) |-> r[p]]
    /\ \A p \in DOMAIN r : r[p].kind \in {"null", "nan", StoredKind(Props(on)[p])}

IsTable(t, rows) == IsFiniteSet(rows) /\ (t \in DOMAIN Objects => \A r \in rows : IsRow(t, r))

CasesAssumption ==
    /\ \A c \in Cases :
          /\ c = [program |-> c.program, caller |-> c.caller, tables |-> c.tables, calls |-> c.calls]
          /\ \A p \in c.program : \A e \in p.rows \cup p.when : IsExpression(e)
          /\ \A p \in c.program : \A e, f \in p.rows : e = f
          /\ c.caller = [attested |-> c.caller.attested, token |-> c.caller.token]
          /\ DOMAIN Objects \cup {l \in DOMAIN Links : Links[l].through} \subseteq DOMAIN c.tables
          /\ \A t \in DOMAIN c.tables : IsTable(t, c.tables[t])
          /\ \A d \in c.calls : d.op \in {"get", "search", "list", "traverse", "match"} /\ d.offset \in Int
    /\ \A e \in Edits : IsTable(e.table, e.rows)
ASSUME CasesAssumption

-----------------------------------------------------------------------------
(* The serving process answers one call at a time (its handlers do not await). *)

Init ==
    /\ case \in {c \in Cases : Serves(c.program)}
    /\ table = case.tables
    /\ con = << >> /\ call = NoCall /\ seen = << >> /\ pending = << >>
    /\ answer = NoAnswer
    /\ edits = 0

Idle == call = NoCall \/ answer # NoAnswer

\* Of a match, the provider that embeds its words may fail too.
Ask(c) ==
    /\ Idle
    /\ c \in case.calls
    /\ case' = [case EXCEPT !.calls = @ \ {c}]
    /\ call' = c
    /\ seen' = << >>
    /\ \/ /\ Compiles(case.program, case.caller, c, table)
          /\ pending' = Aliases(c) /\ answer' = NoAnswer
       \/ /\ Compiles(case.program, case.caller, c, table) => c.op = "match"
          /\ pending' = << >> /\ answer' = Refused
    /\ UNCHANGED <<table, con, edits>>

\* The rows that meet the equalities pushed down to a scan.
Meeting(c, alias, rows) ==
    {r \in rows : \A h \in Pushed(c, alias) : SqlSame(r[h.prop], h.value) = "true"}

\* What one scan brings back: of a get no more than its limit, whichever they are.
Fetched(c, alias, rows) ==
    LET met == Meeting(c, alias, rows)
    IN  IF c.op # "get" \/ Cardinality(met) <= GetLimit THEN {met}
        ELSE {some \in SUBSET met : Cardinality(some) = GetLimit}

\* A connection registers a table anew under an alias, whatever it held there.
Registered(held, alias, rows) == [a \in {alias} \cup DOMAIN held |-> IF a = alias THEN rows ELSE held[a]]

Scan ==
    /\ pending # << >>
    /\ LET alias == Head(pending)
           rows == table[TableOf(call, alias)]
       IN  /\ \E fetched \in Fetched(call, alias, rows) : con' = Registered(con, alias, fetched)
           /\ seen' = Registered(seen, alias, rows)
    /\ pending' = Tail(pending)
    /\ UNCHANGED <<case, table, call, answer, edits>>

Execute ==
    /\ call # NoCall /\ answer = NoAnswer /\ pending = << >>
    /\ answer' \in Answers(case.program, case.caller, call, con)
    /\ UNCHANGED <<case, table, con, call, seen, pending, edits>>

\* Another writer replaces what a table holds.
Edit(e) ==
    /\ edits < MaxEdits
    /\ e.table \in DOMAIN table /\ table[e.table] # e.rows
    /\ table' = [table EXCEPT ![e.table] = e.rows]
    /\ edits' = edits + 1
    /\ UNCHANGED <<case, con, call, seen, pending, answer>>

Next ==
    \/ \E c \in case.calls : Ask(c)
    \/ Scan
    \/ Execute
    \/ \E e \in Edits : Edit(e)

Spec == Init /\ [][Next]_vars

-----------------------------------------------------------------------------
(* Properties. *)

Answered == answer.status \in {"rows", "error"}

\* The row policies as they are written, answered for the caller's own claims by
\* the evaluator the write plane uses: what an action of this caller may touch.
CallerClaims == IF case.caller.attested THEN ReadableClaims(case.caller.token) ELSE << >>

ActionsAdmit(on, row) ==
    \A p \in RowPolicies(case.program, on) :
        Applies(p, CallerClaims)
            => \A e \in p.rows : Truth(e, row, CallerClaims) = "true"

\* What the two planes answer apart: an ordering of booleans, a NaN, and an exact
\* number against a double, if its cast is another number.
OrdersBooleans(e, props) ==
    \E i \in Leaves(e) : e[i].op \in Orderings /\ Base(OperandType(e[i].left, props)) = "boolean"

Rounds(e, row) ==
    \E i \in Leaves(e) :
        LET a == Operand(e[i].left, row, << >>)
            b == Operand(e[i].right, row, << >>)
        IN  Cast(a, b).at # a.at \/ Cast(b, a).at # b.at

PlanesShareAnOrder ==
    /\ \A p \in case.program : \A e \in p.rows : ~ OrdersBooleans(e, Props(p.on))
    /\ \A alias \in DOMAIN seen \cap Governed : \A row \in seen[alias] :
          /\ \A p \in DOMAIN row : row[p].kind # "nan"
          /\ \A p \in RowPolicies(case.program, TableOf(call, alias)) : \A e \in p.rows : ~ Rounds(e, row)

\* A get whose key stands for more rows than it reads is decided by which it reads.
ReadsAllOfItsKey ==
    call.op = "get" => Cardinality(Meeting(call, "target", seen["target"])) <= GetLimit

\* The answer's page is cut from the whole result, in an order it may come in.
PageOf(all) ==
    \E ranking \in Rankings(call, all) :
        LET page == Paged(call, ranking)
        IN  answer.rows = [i \in DOMAIN page |-> Projected(case.program, call, page[i])]

Admitted ==
    [alias \in DOMAIN seen |->
        {r \in seen[alias] : alias \in Governed => ActionsAdmit(TableOf(call, alias), r)}]

AnsweredAsActionsWould ==
    LET all == Answering(call, Admitted)
    IN  IF call.op = "get" /\ Cardinality(all) > 1 THEN answer.status = "error"
        ELSE /\ answer.status = "rows"
             /\ PageOf(all)
             /\ ~ answer.more /\ call.op # "get" => Cardinality(all) <= call.offset + Len(answer.rows)

(* A read shows exactly what the same caller's actions may touch, of the rows   *)
(* that were in the tables when this call scanned them: the SQL of the folded   *)
(* predicates and the evaluator agree, nothing is filtered after the page was   *)
(* cut, no pushed-down equality or stale registration loses or adds a row, and  *)
(* a page that says it is the last one is (resolver.py, search; predicate.py:   *)
(* the two lowerings agree). Except where the two planes tell values apart      *)
(* (PlanesShareAnOrder), and where a third row of a key is left unread before   *)
(* governance is asked.                                                         *)
AnswersWhatActionsAdmit ==
    Answered /\ PlanesShareAnOrder /\ ReadsAllOfItsKey => AnsweredAsActionsWould

(* The same, whatever the planes tell apart, as predicate.py has it: "the only  *)
(* claim worth making about them is that they agree". A boolean ordered against *)
(* a boolean is decided by DuckDB and an EvalError in evaluate.py; a decimal is *)
(* compared with a double as it is by evaluate.py, and cast to one by DuckDB.   *)
PlanesAgree == Answered /\ ReadsAllOfItsKey => AnsweredAsActionsWould

(* A token that carries one claim less never shows a row more, whatever the     *)
(* guards and predicates negate (predicate.py, UNDECIDABLE; governance.py,      *)
(* select: a policy applies on true or undecided).                              *)
MissingClaimShowsNoMore ==
    Answered /\ case.caller.attested =>
        \A c \in DOMAIN case.caller.token :
            LET token == case.caller.token
                less == [case.caller EXCEPT !.token = [d \in DOMAIN token \ {c} |-> token[d]]]
            IN  \A alias \in DOMAIN seen \cap Governed : \A row \in seen[alias] :
                    LET on == TableOf(call, alias)
                    IN  SqlShows(case.program, less, on, row) => SqlShows(case.program, case.caller, on, row)

\* The masked properties of a type no row policy of it reads.
Withheld(on) ==
    Masked(case.program, on)
        \ UNION {Names(e, "object") : e \in UNION {p.rows : p \in RowPolicies(case.program, on)}}

\* A table with a value of one property and its nulls exchanged.
Swapped(r, prop, v) ==
    [r EXCEPT ![prop] = IF @ = Null THEN v ELSE IF @ = v THEN Null ELSE @]
Disguised(rows, prop, v) == {Swapped(r, prop, v) : r \in rows}

(* A masked property cannot be read by any call: not projected, filtered on,    *)
(* joined on or ranked by, so no answer and no refusal changes with its values  *)
(* (governance.py, bind_policies: "a filter on a property you cannot read       *)
(* answers the question the mask refused").                                     *)
MaskedIsUnreadable ==
    Answered =>
        \A alias \in DOMAIN seen \cap Governed :
            LET on == TableOf(call, alias)
            IN  \A prop \in Withheld(on) : \A v \in {r[prop] : r \in seen[alias]} \cup {Value("string", 1)} :
                    Answers(case.program, case.caller, call, Registered(seen, alias, Disguised(seen[alias], prop, v)))
                        = Answers(case.program, case.caller, call, seen)
=============================================================================
