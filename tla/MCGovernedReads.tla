--------------------------- MODULE MCGovernedReads ---------------------------
(* Small instances of GovernedReads: customers, their orders, and policies.   *)
EXTENDS GovernedReads, TLC

Str(n) == Value("string", n)

\* On the number line, every other place is a double: the tenth a decimal column
\* holds lies beside the double that "0.1" is read as.
NearestDouble(n) == n + (n % 2)
Tenth == Value("exact", 1)
FloatTenth == Value("double", 2)
Num(n) == Value("exact", 4 * n)
Dbl(n) == Value("double", 4 * n)

True == Value("boolean", 1)
Enum(members) == [Type("enum") EXCEPT !.members = members]
RefTo(kind) == [Type("objectRef") EXCEPT !.refers = kind]
ListOf(kind) == [Type(kind) EXCEPT !.list = TRUE]

TokenClaims == [sub |-> Type("string"), dept |-> Type("string"),
                admin |-> Type("boolean"), groups |-> ListOf("string")]

Ontology ==
    [Customer |-> [props |-> [id |-> Type("string"), tier |-> Enum({1, 2}), ltv |-> Type("double"),
                              owner |-> Type("string"), active |-> Type("boolean"),
                              secret |-> Type("string"), note |-> Type("string")],
                   key |-> "id", semantic |-> "note", vectors |-> "vectors of Customer",
                   searchable |-> {"tier", "ltv", "owner", "secret"}],
     Order |-> [props |-> [id |-> Type("string"), placedBy |-> RefTo("string"), total |-> Type("decimal")],
                key |-> "id", semantic |-> "", vectors |-> "", searchable |-> {"total"}]]

End(type, prop) == [type |-> type, prop |-> prop]
LinkTypes ==
    [placed |-> [from |-> End("Order", "placedBy"), to |-> End("Customer", "id"), through |-> FALSE],
     friends |-> [from |-> End("Customer", "id"), to |-> End("Customer", "id"), through |-> TRUE]]
ActionTypes == [promote |-> [target |-> "Customer", touches |-> {"tier", "ltv"}]]

\* "1" is part of "1" and "2", and the text None is part of itself.
Parts == {<<1, 1>>, <<1, 2>>, <<2, 2>>, <<9, 9>>}

-----------------------------------------------------------------------------
(* Expressions. *)

Prop(name) == [is |-> "object", name |-> name]
ClaimOf(name) == [is |-> "principal", name |-> name]
Expr(op, left, right) == <<[op |-> op, left |-> left, right |-> right]>>
Not(e) == Append(e, [op |-> "!", of |-> Len(e)])

\* The nodes of an expression after n others.
Moved(e, n) ==
    [i \in DOMAIN e |->
        CASE e[i].op = "!" -> [e[i] EXCEPT !.of = @ + n]
          [] e[i].op \in Connectives -> [e[i] EXCEPT !.left = @ + n, !.right = @ + n]
          [] OTHER -> e[i]]
Both(op, l, r) ==
    l \o Moved(r, Len(l)) \o <<[op |-> op, left |-> Len(l), right |-> Len(l) + Len(r)]>>

Operands ==
    {Prop(p) : p \in {"tier", "ltv", "owner", "active", "unknown"}}
        \cup {Literal(v) : v \in {Null, Str(1), Str(3), Num(2), True}}
        \cup {ClaimOf(c) : c \in {"sub", "dept", "admin", "groups", "undeclared"}}

Compared == {Expr(op, l, r) : op \in Comparisons, l \in {Prop("tier"), Prop("ltv"), Prop("active"), ClaimOf("sub")}, r \in Operands}

\* A nullable property, one the caller owns, a flag a claim carries, a null test.
FewLeaves ==
    {Expr(">", Prop("ltv"), Literal(Num(1))), Expr("==", Prop("owner"), ClaimOf("dept")),
     Expr("!=", Prop("owner"), ClaimOf("sub")), Expr("==", Prop("active"), ClaimOf("admin")),
     Expr("==", Prop("owner"), Literal(Null)), Expr("<=", Prop("tier"), Literal(Str(1)))}

Pairs == {Both(op, l, r) : op \in Connectives, l \in FewLeaves, r \in FewLeaves \cup {Not(x) : x \in FewLeaves}}

RowExprs == Compared \cup {Not(e) : e \in Compared} \cup Pairs \cup {Not(e) : e \in Pairs}

Guards ==
    LET few == {Expr("contains", ClaimOf("groups"), Literal(Str(1))), Expr("==", ClaimOf("admin"), Literal(True)),
                Expr("!=", ClaimOf("dept"), Literal(Null)), Expr("==", ClaimOf("sub"), ClaimOf("dept")),
                Expr("==", Prop("owner"), ClaimOf("sub"))}
    IN  few \cup {Not(e) : e \in few} \cup {Both(op, l, Not(r)) : op \in Connectives, l \in few, r \in few}

Policy(on, mask, rows, when) == [on |-> on, mask |-> mask, rows |-> rows, when |-> when]

-----------------------------------------------------------------------------
(* Callers and rows. *)

Caller(token) == [attested |-> TRUE, token |-> token]
Nobody == [attested |-> FALSE, token |-> << >>]
WhoAsks ==
    {Nobody, Caller(<< >>),
     Caller([sub |-> Str(1), dept |-> Str(1), admin |-> True, groups |-> List({1})]),
     Caller([sub |-> Str(2), dept |-> True, admin |-> Value("boolean", 0)])}

\* One customer for every mix of an enum, a double and an owner; the flag follows.
Everyone ==
    LET tiers == <<Null, Str(1), Str(2)>>
        ltvs == <<Null, Dbl(1), Dbl(2)>>
        owners == <<Null, Str(1), Str(2)>>
        flags == <<Null, Value("boolean", 0), True>>
    IN  {[id |-> Str(t + 3 * l + 9 * o), tier |-> tiers[t], ltv |-> ltvs[l], owner |-> owners[o],
          active |-> flags[1 + ((t + l + o) % 3)], secret |-> Str(t), note |-> Str(o)] :
            t \in 1..3, l \in 1..3, o \in 1..3}

Customer(id, tier, owner, secret, note) ==
    [id |-> id, tier |-> tier, ltv |-> Dbl(1), owner |-> owner, active |-> True, secret |-> secret, note |-> note]
Ann == Customer(Str(1), Str(1), Str(1), Str(2), Str(1))
Bob == Customer(Str(2), Str(2), Null, Str(1), Str(2))
Bob2 == [Bob EXCEPT !.tier = Str(1)]        \* a second row of Bob's key
Cat == Customer(Str(3), Null, Str(2), Null, Str(1))
OrderOf(id, customer) == [id |-> id, placedBy |-> customer, total |-> Num(1)]
Friend(a, b) == [from |-> a, to |-> b]
Vector(id, score, text) == [key |-> id, model |-> Str(1), score |-> Dbl(score), text |-> text]

Shop(customers) ==
    [Customer |-> customers,
     Order |-> {OrderOf(Str(1), Str(1)), OrderOf(Str(2), Str(2)), OrderOf(Str(3), Null)},
     friends |-> {Friend(Str(1), Str(2)), Friend(Str(1), Str(3))}]
    @@ ("vectors of Customer" :> {Vector(Str(1), 2, Str(1)), Vector(Str(2), 3, Str(1)), Vector(Str(3), 1, Str(1))})

ShopEdits ==
    {[table |-> "Customer", rows |-> {Ann, [Bob EXCEPT !.owner = Str(1), !.tier = Null]}],
     [table |-> "Order", rows |-> {OrderOf(Str(2), Str(1))}]}

-----------------------------------------------------------------------------
(* Calls. *)

Call(op, on) ==
    [op |-> op, on |-> on, key |-> Str(1), filters |-> {}, limit |-> {}, offset |-> 0,
     link |-> "", forward |-> TRUE, via |-> {}, blank |-> FALSE, model |-> Str(1)]
Filter(prop, op, values) == [prop |-> prop, op |-> op, values |-> values]
SearchBy(filters) == [Call("search", "Customer") EXCEPT !.filters = filters]
Search == Call("search", "Customer")

Searches ==
    {SearchBy({Filter("tier", op, {Str(1)})}) : op \in {"eq", "ne", "bare", "gt"}}
        \cup {SearchBy({Filter("ltv", op, {v})}) : op \in {"lt", "gte", "ne", "eq"}, v \in {Dbl(1), Null, True}}
        \cup {SearchBy({Filter("owner", op, vs)}) : op \in {"in", "contains", "bare", "eq"}, vs \in {{Str(1), Null}, {Null}, {}, {Str(1)}}}
        \cup {SearchBy({Filter("secret", "eq", {Str(1)})}), SearchBy({Filter("note", "eq", {Str(1)})}),
               SearchBy({Filter("unknown", "eq", {Str(1)})}),
               SearchBy({Filter("tier", "ne", {Str(1)}), Filter("owner", "eq", {Null})})}

Pages ==
    {[Search EXCEPT !.limit = {n}, !.offset = o] : n \in {1, 2}, o \in {0, 1}}
        \cup {[Search EXCEPT !.limit = {0}], [Search EXCEPT !.limit = {999}], [Search EXCEPT !.offset = -1]}

Gets == {Call("get", "Customer"), [Call("get", "Customer") EXCEPT !.key = Str(2)]}

Follow(on, link, forward) == [Call("traverse", on) EXCEPT !.link = link, !.forward = forward]
Traversals ==
    {Follow("Order", "placed", TRUE), Follow("Customer", "placed", FALSE),
     Follow("Customer", "friends", TRUE), Follow("Order", "friends", TRUE)}

MatchCall == Call("match", "Customer")
MatchCalls ==
    {MatchCall, Call("match", "Order"), [MatchCall EXCEPT !.limit = {1}, !.offset = 1],
     [MatchCall EXCEPT !.link = "placed", !.forward = FALSE, !.via = {Filter("total", "eq", {Num(1)})}],
     [MatchCall EXCEPT !.link = "friends"], [MatchCall EXCEPT !.blank = TRUE]}

-----------------------------------------------------------------------------
(* Deployments. *)

Deployment(program, caller, tables, calls) ==
    [program |-> program, caller |-> caller, tables |-> tables, calls |-> calls]

\* Every predicate, over a table that holds every mix of values.
PredicateCases ==
    {Deployment({Policy("Customer", {}, {e}, {})}, caller, Shop(Everyone), {[Search EXCEPT !.limit = {50}]}) :
        e \in RowExprs, caller \in WhoAsks}
\* Every guard, on one predicate beside another policy.
GuardCases ==
    {Deployment({Policy("Customer", {}, {e}, {g}),
                 Policy("Customer", {"secret"}, {Expr("!=", Prop("tier"), Literal(Str(2)))}, {})},
                caller, Shop({Ann, Bob, Cat}), {Search}) :
        e \in FewLeaves, g \in Guards, caller \in WhoAsks}

\* A decimal against an integer, against a double its cast leaves it, and against
\* one that the cast moves it to or past.
DecimalCases ==
    LET totals == {{Null}, {Tenth}, {Value("exact", 3)}, {Num(1)}, {Null, Tenth, Num(1)}}
        compared == {Expr(op, Prop("total"), Literal(v)) : op \in Comparisons, v \in {FloatTenth, Num(1), Dbl(1)}}
        orders(some) == {[id |-> Str(1 + t.at), placedBy |-> Null, total |-> t] : t \in some}
    IN  {Deployment({Policy("Order", {}, {e}, {})}, Nobody,
                    [Shop({Ann}) EXCEPT !["Order"] = orders(some)], {Call("search", "Order")}) :
            e \in compared \cup {Not(e) : e \in compared}, some \in totals}

MaskPrograms == {{Policy("Customer", {m}, {}, {})} : m \in DOMAIN Ontology.Customer.props}
ServedPrograms ==
    {{}, {Policy("Customer", {"secret"}, {}, {})},
     {Policy("Customer", {}, {Expr("==", Prop("owner"), ClaimOf("sub"))}, {})},
     {Policy("Customer", {"secret"}, {Expr("!=", Prop("tier"), Literal(Str(2)))}, {}),
      Policy("Order", {}, {Expr("!=", Prop("placedBy"), Literal(Str(1)))}, {})}}

FilterCases ==
    {Deployment(program, caller, Shop({Ann, Bob, Cat}), {c}) :
        program \in ServedPrograms \cup MaskPrograms, caller \in WhoAsks,
        c \in Searches \cup Pages \cup Gets \cup Traversals \cup MatchCalls}

\* Calls after one another on one connection.
SessionCases ==
    {Deployment(program, caller, Shop({Ann, Bob, Bob2}), {c, d}) :
        program \in ServedPrograms, caller \in WhoAsks,
        c \in Gets \cup Traversals \cup MatchCalls, d \in Gets \cup {Search} \cup Traversals}

\* A match before the first reconcile: there is no sidecar.
UnembeddedCases ==
    {Deployment({}, Nobody, [t \in {"Customer", "Order", "friends"} |-> Shop({Ann, Bob, Cat})[t]], {MatchCall, Search})}

AllCases == PredicateCases \cup DecimalCases \cup GuardCases \cup FilterCases \cup SessionCases \cup UnembeddedCases
=============================================================================
