----------------------------- MODULE Predicates -----------------------------
(* predicate.py: what a policy's rows: predicate and when: guard may say, and *)
(* what they mean on the two planes that answer them: evaluate.py over one    *)
(* row (writes), and the SQL the read plane compiles for DuckDB.              *)
(*                                                                            *)
(* A value is its kind and its place in that kind's order. The numbers are    *)
(* one order of two kinds, exact (int, long and decimal) and double; "nan" is *)
(* the double that is not a number. An expression is the nodes of its tree, each  *)
(* after the ones it is made of, so that the root comes last: !, && and ||    *)
(* name theirs by position, and a leaf compares two operands, a literal, a    *)
(* property of the row (object) or a claim (principal).                       *)
EXTENDS Integers, FiniteSets, Sequences

CONSTANTS Claims,      \* claim -> its declared type, the built-in sub and iss included
          NaNRank,     \* where DuckDB sorts NaN: above every number
          AsDouble(_)  \* the double a cast makes of an exact number

Value(kind, at) == [kind |-> kind, at |-> at, items |-> {}]
Null == Value("null", 0)
Raises == Value("raises", 0)
List(items) == [kind |-> "list", at |-> 0, items |-> items]

Literal(value) == [is |-> "literal", value |-> value]

-----------------------------------------------------------------------------
(* Three answers. *)

Equalities == {"==", "!="}
Orderings == {"<", "<=", ">", ">="}
Comparisons == Equalities \cup Orderings
Connectives == {"&&", "||"}
Leaves(e) == {i \in DOMAIN e : e[i].op \notin Connectives \cup {"!"}}

Decided(truth) == IF truth THEN "true" ELSE "false"

\* ! && || propagate undecided by Kleene's rules, which are SQL's.
KleeneNot(a) ==
    CASE a = "true" -> "false" [] a = "false" -> "true" [] OTHER -> "undecided"

\* A plausible bug: the left side alone decides, and an undecided one stops there.
ConnectShort(op, a, b) ==
    LET decides == IF op = "||" THEN "true" ELSE "false"
    IN  IF a \in {decides, "undecided"} THEN a ELSE b

\* The side that decides wins whatever the other says.
Connect(op, a, b) ==
    LET decides == IF op = "||" THEN "true" ELSE "false"
    IN  IF decides \in {a, b} THEN decides
        ELSE IF "undecided" \in {a, b} THEN "undecided" ELSE KleeneNot(decides)

-----------------------------------------------------------------------------
(* What bind time accepts. *)

NumericKinds == {"int", "long", "double", "decimal"}

\* An enum compares as its string storage, an objectRef as the key it holds.
Base(type) ==
    CASE type.kind = "enum" -> "string"
      [] type.kind = "objectRef" -> type.refers
      [] OTHER -> type.kind

Type(kind) == [kind |-> kind, members |-> {}, list |-> FALSE, refers |-> ""]

Comparable(a, b) ==
    {Base(a), Base(b)} \subseteq NumericKinds \/ Base(a) = Base(b)

LiteralType(value) ==
    Type(CASE value.kind = "boolean" -> "boolean"
           [] value.kind = "exact" -> "long"
           [] OTHER -> value.kind)

\* A guard is answered before a row is read: props is empty there.
OperandType(x, props) ==
    CASE x.is = "literal" -> LiteralType(x.value)
      [] x.is = "object" /\ x.name \in DOMAIN props -> props[x.name]
      [] x.is = "principal" /\ x.name \in DOMAIN Claims -> Claims[x.name]
      [] OTHER -> Type("bad")

\* An enum equated with a value it cannot hold is the same answer for every row.
CanHold(declared, x) ==
    declared.kind = "enum" /\ x.is = "literal" /\ x.value.kind = "string"
        => x.value.at \in declared.members

ComparisonFits(e, props) ==
    LET l == OperandType(e.left, props)
        r == OperandType(e.right, props)
    IN  /\ "bad" \notin {l.kind, r.kind}
        /\ ~ l.list /\ ~ r.list
        /\ e.op \in Orderings => "null" \notin {l.kind, r.kind}
        /\ "null" \in {l.kind, r.kind} \/ Comparable(l, r)
        /\ e.op \in Equalities => CanHold(l, e.right) /\ CanHold(r, e.left)

ContainsFits(e) ==
    LET l == OperandType(e.left, << >>)
        r == OperandType(e.right, << >>)
    IN  l.kind # "bad" /\ l.list /\ ~ r.list /\ Base(r) = l.kind

Fits(e, props, guard) ==
    \A i \in Leaves(e) :
        \/ e[i].op \in Comparisons /\ ComparisonFits(e[i], props)
        \/ e[i].op = "contains" /\ guard /\ ContainsFits(e[i])

NamesIn(leaf, namespace) == {x.name : x \in {y \in {leaf.left, leaf.right} : y.is = namespace}}
Names(e, namespace) == UNION {NamesIn(e[i], namespace) : i \in Leaves(e)}

\* The same answer for every row, or for every caller, is not a policy.
FitsRows(e, props) == Fits(e, props, FALSE) /\ Names(e, "object") # {}
FitsGuard(e) == Fits(e, << >>, TRUE) /\ Names(e, "principal") # {}

-----------------------------------------------------------------------------
(* The write plane: evaluate.py over one row. *)

Operand(x, row, claims) ==
    CASE x.is = "literal" -> x.value
      [] x.is = "object" -> row[x.name]
      [] x.is = "principal" /\ x.name \in DOMAIN claims -> claims[x.name]
      [] OTHER -> Raises

Numbers == {"exact", "double"}

\* Null is a value: it equals itself and nothing else. NaN equals nothing. Python
\* compares numbers exactly across their types.
Equal(a, b) ==
    /\ a.at = b.at
    /\ \/ a.kind = b.kind /\ a.kind # "nan"
       \/ {a.kind, b.kind} \subseteq Numbers

Ordered(op, a, b) ==
    /\ "nan" \notin {a.kind, b.kind}
    /\ CASE op = "<" -> a.at < b.at
         [] op = "<=" -> a.at <= b.at
         [] op = ">" -> a.at > b.at
         [] op = ">=" -> a.at >= b.at

\* Ordering null, a boolean or two kinds is an EvalError.
Orderable(a, b) ==
    \/ {a.kind, b.kind} \subseteq Numbers \cup {"nan"}
    \/ a.kind = b.kind /\ a.kind \in {"string", "date"}

Leaf(e, row, claims) ==
    LET a == Operand(e.left, row, claims)
        b == Operand(e.right, row, claims)
    IN  IF "raises" \in {a.kind, b.kind} THEN "undecided"
        ELSE CASE e.op = "==" -> Decided(Equal(a, b))
               [] e.op = "!=" -> Decided(~ Equal(a, b))
               [] e.op = "contains" /\ a.kind = "list" /\ b.kind = "string" -> Decided(b.at \in a.items)
               [] e.op \in Orderings /\ Orderable(a, b) -> Decided(Ordered(e.op, a, b))
               [] OTHER -> "undecided"

\* What every node of an expression answers.
Truths(e, row, claims) ==
    LET truth[i \in DOMAIN e] ==
            CASE e[i].op = "!" -> KleeneNot(truth[e[i].of])
              [] e[i].op \in Connectives -> Connect(e[i].op, truth[e[i].left], truth[e[i].right])
              [] OTHER -> Leaf(e[i], row, claims)
    IN  truth

Truth(e, row, claims) == Truths(e, row, claims)[Len(e)]

GuardTruth(e, claims) == Truth(e, << >>, claims)

\* Admitted only on true.
Admits(e, row) == Truth(e, row, << >>) = "true"

-----------------------------------------------------------------------------
(* The caller folded out: a predicate that names nobody. *)

\* null < null: both planes refuse to order a null.
Undecidable == [op |-> "<", left |-> Literal(Null), right |-> Literal(Null)]

Substituted(x, claims) ==
    IF x.is = "principal" THEN Literal(claims[x.name]) ELSE x

FoldedLeaf(leaf, claims) ==
    IF NamesIn(leaf, "principal") \subseteq DOMAIN claims
    THEN [op |-> leaf.op, left |-> Substituted(leaf.left, claims), right |-> Substituted(leaf.right, claims)]
    ELSE Undecidable

Fold(e, claims) == [i \in DOMAIN e |-> IF i \in Leaves(e) THEN FoldedLeaf(e[i], claims) ELSE e[i]]

-----------------------------------------------------------------------------
(* The read plane: what the SQL of a lowered predicate answers in DuckDB. *)

\* A BIGINT or DECIMAL next to a DOUBLE is cast to one before the two are compared.
Cast(a, b) ==
    IF a.kind = "exact" /\ b.kind \in {"double", "nan"} THEN Value("double", AsDouble(a.at)) ELSE a

\* DuckDB orders booleans, and NaN above every number and equal to itself.
SqlRank(a, b) == IF a.kind = "nan" THEN NaNRank ELSE Cast(a, b).at

\* IS NOT DISTINCT FROM, or IS NULL against a null literal.
SqlSame(a, b) ==
    Decided(Cast(a, b).kind = Cast(b, a).kind /\ Cast(a, b).at = Cast(b, a).at)

SqlOrder(op, a, b) ==
    CASE op = "<" -> SqlRank(a, b) < SqlRank(b, a)
      [] op = "<=" -> SqlRank(a, b) <= SqlRank(b, a)
      [] op = ">" -> SqlRank(a, b) > SqlRank(b, a)
      [] op = ">=" -> SqlRank(a, b) >= SqlRank(b, a)

SqlCompare(op, a, b) ==
    IF op \in Orderings
    THEN IF "null" \in {a.kind, b.kind} THEN "undecided" ELSE Decided(SqlOrder(op, a, b))
    ELSE IF op = "==" THEN SqlSame(a, b) ELSE KleeneNot(SqlSame(a, b))

\* SQL's AND and OR: the least and the greatest of false < unknown < true.
SqlConnect(op, a, b) ==
    LET order == IF op = "&&" THEN <<"false", "undecided", "true">>
                 ELSE <<"true", "undecided", "false">>
    IN  order[CHOOSE i \in 1..3 : order[i] \in {a, b} /\ \A j \in 1..(i - 1) : order[j] \notin {a, b}]

SqlTruths(e, row) ==
    LET truth[i \in DOMAIN e] ==
            CASE e[i].op = "!" -> KleeneNot(truth[e[i].of])
              [] e[i].op \in Connectives -> SqlConnect(e[i].op, truth[e[i].left], truth[e[i].right])
              [] OTHER -> SqlCompare(e[i].op, Operand(e[i].left, row, << >>), Operand(e[i].right, row, << >>))
    IN  truth

SqlTruth(e, row) == SqlTruths(e, row)[Len(e)]
=============================================================================
