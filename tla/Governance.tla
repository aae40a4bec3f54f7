----------------------------- MODULE Governance -----------------------------
(* governance.py: what a policy may withhold (parse_policies, bind_policies)  *)
(* and which of the bound policies a call is decided by (PolicyProgram).      *)
EXTENDS Predicates

CONSTANTS
    Objects,   \* object type -> [props : property -> type, key, semantic, searchable]
    Links,     \* link type -> [from, to : [type, prop], through : BOOLEAN]
    Actions    \* action -> [target, touches : the properties its rules and effect name]

(* A policy: [on, mask : properties, rows, when]; rows and when are sets of at *)
(* most one expression.                                                        *)

-----------------------------------------------------------------------------
(* Load time. *)

\* What a policy may be before it meets an ontology.
Parses(p) ==
    /\ p.mask # {} \/ p.rows # {}
    /\ ~ (p.mask # {} /\ p.when # {})
    /\ p.when # {} => p.rows # {}

LinkEnds == UNION {{Links[l].from, Links[l].to} : l \in DOMAIN Links}

\* Every other surface that would answer for a withheld value.
\* A plausible bug: a property the semantic ranking reads may be withheld.
MayMaskSemantic(on, prop) ==
    /\ prop \in DOMAIN Objects[on].props
    /\ prop # Objects[on].key
    /\ [type |-> on, prop |-> prop] \notin LinkEnds
    /\ ~ \E a \in DOMAIN Actions : Actions[a].target = on /\ prop \in Actions[a].touches

MayMask(on, prop) == MayMaskSemantic(on, prop) /\ prop # Objects[on].semantic

Binds(p) ==
    /\ p.on \in DOMAIN Objects
    /\ \A prop \in p.mask : MayMask(p.on, prop)
    /\ \A e \in p.rows : FitsRows(e, Objects[p.on].props)
    /\ \A e \in p.when : FitsGuard(e)

\* The deployment serves only a program all of whose policies load and bind.
Serves(program) == \A p \in program : Parses(p) /\ Binds(p)

-----------------------------------------------------------------------------
(* Per call. *)

Masked(program, on) == UNION {p.mask : p \in {q \in program : q.on = on}}

RowPolicies(program, on) == {p \in program : p.on = on /\ p.rows # {}}

NamesPrincipal(e) == Names(e, "principal") # {}

Conditional(program) ==
    \E p \in program : p.when # {} \/ \E e \in p.rows : NamesPrincipal(e)

HasType(value, type) ==
    IF type.list THEN value.kind = "list" ELSE value.kind = type.kind

\* A claim of the token counts if it is declared, present and of its declared type.
ReadableClaims(token) ==
    [c \in {d \in DOMAIN Claims \cap DOMAIN token : HasType(token[d], Claims[d])} |-> token[c]]

\* A plausible bug: a guard that cannot be decided withholds nothing.
AppliesIfTrue(p, claims) == \A e \in p.when : GuardTruth(e, claims) = "true"

\* A guard withholds its policy only by being false.
Applies(p, claims) == \A e \in p.when : GuardTruth(e, claims) # "false"

\* One policy's rows, with the caller folded out.
SelectedRows(program, on, claims) ==
    {Fold(CHOOSE e \in p.rows : TRUE, claims) :
        p \in {q \in RowPolicies(program, on) : Applies(q, claims)}}

\* A surface that attests nobody refuses a program that names the caller.
MayDecide(program, caller) == Conditional(program) => caller.attested

(* PolicySet.predicate_for: the predicates a call's rows must all satisfy. An *)
(* unconditional program names nobody, so folding it changes nothing.          *)
RowsFor(program, on, caller) ==
    SelectedRows(program, on, IF caller.attested THEN ReadableClaims(caller.token) ELSE << >>)

\* The write plane: ActionRuntime admits a row by the same selected predicates.
AdmitsRow(predicates, row) == \A e \in predicates : Admits(e, row)
=============================================================================
