---------------------------- MODULE MCMigration ----------------------------
(* Two tables in two catalogs, one of them a mapping table. One edit of the   *)
(* spec renames a column and adds another, and can be rolled back; the other  *)
(* widens what it renames and makes the other optional, and cannot.          *)
EXTENDS Migration, TLC

CONSTANTS t1, t2, c1, c2

Property(table, column, type, nullable, from) ==
    [table |-> table, column |-> column, type |-> type, nullable |-> nullable, from |-> from, key |-> FALSE]

PrimaryKey(type) == [Property(t1, "i", type, FALSE, NoName) EXCEPT !.key = TRUE]

MCTables == <<t1, t2>>
MCCatalogOf == t1 :> c1 @@ t2 :> c2

\* A mapping table: its column is required and has the type of the property it joins.
Side(column, type) == [table |-> t2, column |-> column, type |-> type, from |-> NoName]

MCOntology ==
    [first |-> [properties |-> {PrimaryKey("int"), Property(t1, "a", "int", TRUE, NoName)},
                sides |-> {Side("k", "int")}],
     moved |-> [properties |-> {PrimaryKey("int"), Property(t1, "b", "int", TRUE, "a"),
                                Property(t2, "m", "int", TRUE, NoName)},
                sides |-> {Side("k", "int")}],
     wider |-> [properties |-> {PrimaryKey("long"), Property(t1, "b", "long", TRUE, "a"),
                                Property(t2, "k", "long", TRUE, NoName)},
                sides |-> {Side("k", "long")}]]

MCSpecs == DOMAIN MCOntology

\* a becomes b.
Texts(properties) == [properties |-> properties, sides |-> {}]

RenameOntology ==
    [one |-> Texts({Property(t1, "a", "int", TRUE, NoName)}),
     two |-> Texts({Property(t1, "b", "int", TRUE, "a")})]

RenameSpecs == DOMAIN RenameOntology
OneTable == <<t1>>
OneCatalogOf == t1 :> c1

Symmetry == Permutations(Operators)
=============================================================================
