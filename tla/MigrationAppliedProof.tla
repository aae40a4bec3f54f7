------------------------ MODULE MigrationAppliedProof ------------------------
(* What a run that was applied leaves: the changes of a plan, made in full, leave *)
(* nothing to plan (the lemmas on DiffTable and Altered, up to AppliedSettles);   *)
(* and a run keeps the tables it has come to as it planned them, or settled, for  *)
(* as long as nobody overtakes it (Level). And what a rollback finds: it planned  *)
(* from columns that no row it read has lost (Way, Lasts), and the renames of a   *)
(* history that tells them all lead each name to the column it was (Chronicle,    *)
(* IsChain, up to ColumnFound). Levels, the two together, is an invariant beside  *)
(* IInv.                                                                          *)
EXTENDS MigrationProof
-----------------------------------------------------------------------------
(* What a plan that was made in full leaves. *)

(* Columns whose renames are from columns no property is live on. *)
Renamable(desired) == \A c \in DOMAIN desired : desired[c].from \notin DOMAIN desired

(* A table that has what is desired of it. *)
Settled(desired, live) ==
    \A c \in DOMAIN desired :
        /\ c \in DOMAIN live /\ desired[c].from \notin DOMAIN live
        /\ live[c].type = desired[c].type /\ live[c].required = desired[c].required

LEMMA SettledIf ==
    ASSUME NEW desired, NEW live, live # << >>, Settled(desired, live)
    PROVE  DiffTable(desired, live) = NoChange
<1>1. ASSUME NEW c \in DOMAIN desired
      PROVE  ColumnChanges(c, desired[c], live) = {}
    <2>1. /\ c \in DOMAIN live /\ desired[c].from \notin DOMAIN live
          /\ live[c].type = desired[c].type /\ live[c].required = desired[c].required
        BY DEF Settled
    <2>2. Compared(c, desired[c], live[c]) = {}
        BY <2>1, Zenon DEF Compared
    <2>3. ColumnChanges(c, desired[c], live) = {} \cup Compared(c, desired[c], live[c])
        BY <2>1, Zenon DEF ColumnChanges
    <2>. QED
        BY <2>2, <2>3
<1>2. Alteration(desired, live) = {}
    BY <1>1 DEF Alteration
<1>. QED
    BY <1>2, Zenon DEF DiffTable

LEMMA SettledMeans ==
    ASSUME NEW desired, desired # << >>, NEW live, DiffTable(desired, live) = NoChange
    PROVE  Settled(desired, live)
<1>1. live # << >> /\ Alteration(desired, live) = {}
    <2>1. NoChange.action = "none"
        BY DEF NoChange
    <2>2. CASE live = << >>
        <3>1. DiffTable(desired, live) = [action |-> "create", columns |-> Creation(desired)]
            BY <2>2, Zenon DEF DiffTable
        <3>. QED
            BY <2>1, <3>1
    <2>3. CASE live # << >> /\ Alteration(desired, live) # {}
        <3>1. DiffTable(desired, live) = [action |-> "alter", columns |-> Alteration(desired, live)]
            BY <2>3, Zenon DEF DiffTable
        <3>. QED
            BY <2>1, <3>1
    <2>. QED
        BY <2>2, <2>3
<1>2. ASSUME NEW c \in DOMAIN desired
      PROVE  /\ c \in DOMAIN live /\ desired[c].from \notin DOMAIN live
             /\ live[c].type = desired[c].type /\ live[c].required = desired[c].required
    <2>1. ColumnChanges(c, desired[c], live) = {}
        BY <1>1 DEF Alteration
    <2>2. c \in DOMAIN live \/ desired[c].from \in DOMAIN live
        <3>1. CASE ~ (c \in DOMAIN live) /\ ~ (desired[c].from \in DOMAIN live)
            <4>1. ColumnChanges(c, desired[c], live)
                    = {Change("add", c, desired[c], NoName, desired[c].required)}
                BY <3>1, Zenon DEF ColumnChanges
            <4>. QED
                BY <2>1, <4>1
        <3>. QED
            BY <3>1
    <2>. DEFINE current == IF c \in DOMAIN live THEN live[c] ELSE live[desired[c].from]
    <2>3. ColumnChanges(c, desired[c], live)
            = (IF desired[c].from \in DOMAIN live
               THEN {Change("rename", c, desired[c], desired[c].from, c \in DOMAIN live)} ELSE {})
              \cup Compared(c, desired[c], current)
        BY <2>2, Zenon DEF ColumnChanges
    <2>. HIDE DEF current
    <2>4. desired[c].from \notin DOMAIN live /\ Compared(c, desired[c], current) = {}
        <3>1. Compared(c, desired[c], current) = {}
            BY <2>1, <2>3
        <3>2. CASE desired[c].from \in DOMAIN live
            <4>1. Change("rename", c, desired[c], desired[c].from, c \in DOMAIN live)
                    \in ColumnChanges(c, desired[c], live)
                BY <2>3, <3>2
            <4>. QED
                BY <2>1, <4>1
        <3>. QED
            BY <3>1, <3>2
    <2>5. c \in DOMAIN live /\ current = live[c]
        BY <2>2, <2>4 DEF current
    <2>6. live[c].type = desired[c].type /\ live[c].required = desired[c].required
        <3>1. Compared(c, desired[c], live[c]) = {}
            BY <2>4, <2>5
        <3>. QED
            BY <3>1, Zenon DEF Compared
    <2>. QED
        BY <2>4, <2>5, <2>6
<1>. QED
    BY <1>2 DEF Settled

(* The live column a desired one comes of, if there is one. *)
Source(want, c, live) == IF want.from \in DOMAIN live THEN want.from ELSE c

(* The changes of one column, when none of them is breaking. *)
Unbroken(c, want, live, was, changes) ==
    /\ was \notin DOMAIN live =>
          want.required = FALSE /\ changes = {Change("add", c, want, NoName, FALSE)}
    /\ was \in DOMAIN live => \A d \in changes : d.kind # "add"
    /\ want.from \in DOMAIN live => c \notin DOMAIN live /\ \E d \in changes : d.kind = "rename"
    /\ \A d \in changes : d.kind = "rename" => want.from \in DOMAIN live /\ d.from = want.from
    /\ was \in DOMAIN live =>
          /\ live[was].type = want.type \/ \E d \in changes : d.kind = "promote"
          /\ live[was].type = want.type => \A d \in changes : d.kind # "promote"
          /\ \/ live[was].required = want.required
             \/ want.required = FALSE /\ \E d \in changes : d.kind = "loosen"
          /\ live[was].required = want.required => \A d \in changes : d.kind # "loosen"

LEMMA UnbrokenChangesAre ==
    ASSUME NEW c, NEW want, want.required \in BOOLEAN, NEW live,
           \A d \in ColumnChanges(c, want, live) : ~ d.breaking,
           NEW was, was = Source(want, c, live),
           was \in DOMAIN live => live[was].required \in BOOLEAN
    PROVE  Unbroken(c, want, live, was, ColumnChanges(c, want, live))
<1>. DEFINE here == c \in DOMAIN live
            old == want.from \in DOMAIN live
            current == IF here THEN live[c] ELSE live[want.from]
<1>1. \A kind, from, breaking :
         /\ Change(kind, c, want, from, breaking).kind = kind
         /\ Change(kind, c, want, from, breaking).from = from
         /\ Change(kind, c, want, from, breaking).breaking = breaking
    BY DEF Change
<1>2. ~ here /\ ~ old => ColumnChanges(c, want, live) = {Change("add", c, want, NoName, want.required)}
    BY Zenon DEF ColumnChanges
<1>3. here \/ old => ColumnChanges(c, want, live) =
         (IF old THEN {Change("rename", c, want, want.from, here)} ELSE {}) \cup Compared(c, want, current)
    BY Zenon DEF ColumnChanges
<1>4. was = IF old THEN want.from ELSE c
    BY DEF Source
<1>5. \A d \in Compared(c, want, current) :
         \/ d = Retyped(c, want, current) /\ current.type # want.type
         \/ d = Renullabled(c, want, current) /\ current.required # want.required
    BY DEF Compared
<1>6. /\ current.type # want.type => Retyped(c, want, current) \in Compared(c, want, current)
      /\ current.required # want.required => Renullabled(c, want, current) \in Compared(c, want, current)
    BY DEF Compared
<1>7. /\ Retyped(c, want, current).kind \in {"promote", "retype"}
      /\ ~ Retyped(c, want, current).breaking => Retyped(c, want, current).kind = "promote"
    <2>1. \/ Retyped(c, want, current) = Change("promote", c, want, NoName, FALSE)
          \/ Retyped(c, want, current) = Change("retype", c, want, NoName, TRUE)
        BY Zenon DEF Retyped
    <2>2. Change("promote", c, want, NoName, FALSE).kind = "promote"
        BY <1>1
    <2>3. /\ Change("retype", c, want, NoName, TRUE).kind = "retype"
          /\ Change("retype", c, want, NoName, TRUE).breaking
        BY <1>1
    <2>. QED
        BY <2>1, <2>2, <2>3, Zenon
<1>8. /\ Renullabled(c, want, current).kind \in {"loosen", "tighten"}
      /\ ~ Renullabled(c, want, current).breaking =>
            Renullabled(c, want, current).kind = "loosen" /\ current.required
    <2>1. \/ /\ Renullabled(c, want, current) = Change("loosen", c, want, NoName, FALSE)
             /\ current.required
          \/ Renullabled(c, want, current) = Change("tighten", c, want, NoName, TRUE)
        BY Zenon DEF Renullabled
    <2>2. Change("loosen", c, want, NoName, FALSE).kind = "loosen"
        BY <1>1
    <2>3. /\ Change("tighten", c, want, NoName, TRUE).kind = "tighten"
          /\ Change("tighten", c, want, NoName, TRUE).breaking
        BY <1>1
    <2>. QED
        BY <2>1, <2>2, <2>3, Zenon
<1>9. old => ~ here
    <2>. SUFFICES ASSUME old PROVE ~ here
        OBVIOUS
    <2>1. Change("rename", c, want, want.from, here) \in ColumnChanges(c, want, live)
        BY <1>3
    <2>2. Change("rename", c, want, want.from, here).breaking = here
        BY <1>1
    <2>. QED
        BY <2>1, <2>2
<1>10. was \in DOMAIN live <=> here \/ old
    BY <1>4
<1>11. was \in DOMAIN live => current = live[was]
    BY <1>4, <1>9
<1>. HIDE DEF here, old, current
<1>12. was \notin DOMAIN live =>
          /\ want.required = FALSE
          /\ ColumnChanges(c, want, live) = {Change("add", c, want, NoName, FALSE)}
    <2>. SUFFICES ASSUME ~ here /\ ~ old
                  PROVE  /\ want.required = FALSE
                         /\ ColumnChanges(c, want, live) = {Change("add", c, want, NoName, FALSE)}
        BY <1>10
    <2>1. ColumnChanges(c, want, live) = {Change("add", c, want, NoName, want.required)}
        BY <1>2
    <2>2. Change("add", c, want, NoName, want.required) \in ColumnChanges(c, want, live)
        BY <2>1
    <2>3. ~ Change("add", c, want, NoName, want.required).breaking
        BY <2>2
    <2>4. Change("add", c, want, NoName, want.required).breaking = want.required
        <3>1. PICK b \in BOOLEAN : b = want.required
            OBVIOUS
        <3>2. Change("add", c, want, NoName, b).breaking = b
            BY <1>1
        <3>. QED
            BY <3>1, <3>2, Zenon
    <2>5. want.required = FALSE
        BY <2>3, <2>4, Zenon
    <2>. QED
        BY <2>1, <2>5
<1>13. was \in DOMAIN live => \A d \in ColumnChanges(c, want, live) :
           (d.kind = "rename" /\ d.from = want.from /\ old) \/ d \in Compared(c, want, current)
    BY <1>1, <1>3, <1>10
<1>14. was \in DOMAIN live => \A d \in Compared(c, want, current) : d \in ColumnChanges(c, want, live)
    BY <1>3, <1>10
<1>15. \A d \in Compared(c, want, current) : d.kind \notin {"add", "rename"}
    BY <1>5, <1>7, <1>8
<1>16. old => \E d \in ColumnChanges(c, want, live) : d.kind = "rename"
    BY <1>1, <1>3
<1>17. \A d \in ColumnChanges(c, want, live) : d.kind = "rename" => old /\ d.from = want.from
    <2>1. CASE was \in DOMAIN live
        BY <1>13, <1>15, <2>1
    <2>2. CASE was \notin DOMAIN live
        <3>1. Change("add", c, want, NoName, FALSE).kind = "add"
            BY <1>1
        <3>. QED
            BY <1>12, <2>2, <3>1
    <2>. QED
        BY <2>1, <2>2
<1>18. was \in DOMAIN live /\ current.type # want.type =>
          \E d \in ColumnChanges(c, want, live) : d.kind = "promote"
    BY <1>6, <1>7, <1>14
<1>19. was \in DOMAIN live /\ current.type = want.type =>
          \A d \in ColumnChanges(c, want, live) : d.kind # "promote"
    BY <1>5, <1>8, <1>13
<1>20. was \in DOMAIN live /\ current.required # want.required =>
          want.required = FALSE /\ \E d \in ColumnChanges(c, want, live) : d.kind = "loosen"
    BY <1>6, <1>8, <1>11, <1>14
<1>21. was \in DOMAIN live /\ current.required = want.required =>
          \A d \in ColumnChanges(c, want, live) : d.kind # "loosen"
    BY <1>5, <1>7, <1>13
<1>22. old <=> want.from \in DOMAIN live
    BY DEF old
<1>23. here <=> c \in DOMAIN live
    BY DEF here
<1>. QED
    BY <1>9, <1>11, <1>12, <1>13, <1>15, <1>16, <1>17, <1>18, <1>19, <1>20, <1>21, <1>22, <1>23
    DEF Unbroken

(* The type and the mode of an added column are those of its only addition. *)
LEMMA AddedTyped ==
    ASSUME NEW live, NEW change, NEW add \in OfKind(change, "add"),
           \A other \in OfKind(change, "add") : other.column = add.column => other = add,
           NEW required \in BOOLEAN, required <=> change.action = "create" /\ add.required
    PROVE  /\ Added(live, change, add.column).type = add.type
           /\ Added(live, change, add.column).required = required
<1>. DEFINE name == add.column
            order == SetToSeq(Additions(change))
            first == CHOOSE c \in OfKind(change, "add") : c.column = name
            at == CHOOSE i \in DOMAIN order : order[i] = name
<1>1. first = add
    <2>1. first \in OfKind(change, "add") /\ first.column = name
        OBVIOUS
    <2>. QED
        BY <2>1
<1>2. Added(live, change, name) = [id |-> Cardinality(DOMAIN live) + at, type |-> first.type,
                                   required |-> change.action = "create" /\ first.required]
    BY Zenon DEF Added, order, first, at
<1>. HIDE DEF first, at, order
<1>3. Added(live, change, name) =
         [id |-> Cardinality(DOMAIN live) + at, type |-> add.type, required |-> required]
    <2>1. required = (change.action = "create" /\ add.required)
        BY Zenon
    <2>. QED
        BY <1>1, <1>2, <2>1, Zenon
<1>4. Added(live, change, name).type = add.type /\ Added(live, change, name).required = required
    BY <1>3
<1>. QED
    BY <1>4, Zenon

(* A kept column has the type it is promoted to, or its own; and so for its mode. *)
Promoted(live, change, was, type) ==
    /\ \A c \in OfKind(change, "promote") : Path(change, c.column) = was => c.type = type
    /\ live[was].type = type \/ \E c \in OfKind(change, "promote") : Path(change, c.column) = was

Loosened(live, change, was, required) ==
    /\ (\E c \in OfKind(change, "loosen") : Path(change, c.column) = was) => required = FALSE
    /\ (\A c \in OfKind(change, "loosen") : Path(change, c.column) # was) =>
          required = live[was].required

LEMMA KeptTyped ==
    ASSUME NEW live, NEW change, NEW name, NEW was, was = Was(change, name),
           NEW type, Promoted(live, change, was, type), live[was].required \in BOOLEAN
    PROVE  /\ Kept(live, change, name).type = type
           /\ Loosened(live, change, was, Kept(live, change, name).required)
<1>. DEFINE promoted == {c \in OfKind(change, "promote") : Path(change, c.column) = was}
            relaxed == \E c \in OfKind(change, "loosen") : Path(change, c.column) = was
            chosen == IF promoted = {} THEN live[was].type ELSE (CHOOSE c \in promoted : TRUE).type
<1>1. Kept(live, change, name) =
         [id |-> live[was].id, type |-> chosen, required |-> live[was].required /\ ~ relaxed]
    BY Zenon DEF Kept, promoted, relaxed, chosen
<1>2. chosen = type
    <2>1. CASE promoted = {}
        BY <2>1 DEF Promoted
    <2>2. CASE promoted # {}
        <3>1. (CHOOSE c \in promoted : TRUE) \in promoted
            BY <2>2
        <3>. QED
            BY <2>2, <3>1 DEF Promoted
    <2>. QED
        BY <2>1, <2>2
<1>. HIDE DEF chosen, promoted, relaxed
<1>3. PICK required : required = (live[was].required /\ ~ relaxed)
    OBVIOUS
<1>4. Kept(live, change, name) = [id |-> live[was].id, type |-> type, required |-> required]
    BY <1>1, <1>2, <1>3, Zenon
<1>5. Kept(live, change, name).type = type /\ Kept(live, change, name).required = required
    BY <1>4
<1>6. relaxed => required = FALSE
    BY <1>3, Zenon
<1>7. ~ relaxed => required = live[was].required
    BY <1>3, Zenon
<1>. QED
    BY <1>5, <1>6, <1>7, Zenon DEF relaxed, Loosened

LEMMA NoColumns ==
    ASSUME NEW columns, Columns(columns), DOMAIN columns = {}
    PROVE  columns = << >>
<1>1. << >> = [c \in {} |-> c]
    OBVIOUS
<1>2. columns = [c \in {} |-> c]
    BY DEF Columns
<1>. QED
    BY <1>1, <1>2

LEMMA CreationSettles ==
    ASSUME NEW desired, Columns(desired), desired # << >>, Renamable(desired),
           NEW plan, plan.action = "create", plan.columns = Creation(desired),
           NEW live, DOMAIN live = {}
    PROVE  DiffTable(desired, Altered(live, plan)) = NoChange
<1>1. DOMAIN desired # {}
    BY NoColumns
<1>2. /\ \A d \in plan.columns : d.kind = "add"
      /\ plan.action = "create"
    BY DEF Creation, Change
<1>3. Taken(plan) = {}
    BY <1>2 DEF Taken, OfKind
<1>4. Given(plan) = {}
    BY <1>3 DEF Given
<1>5. Keeping(live, plan) = {}
    BY <1>3, <1>4 DEF Keeping
<1>6. ASSUME NEW c \in DOMAIN desired
      PROVE  /\ c \in Additions(plan)
             /\ Added(live, plan, c).type = desired[c].type
             /\ Added(live, plan, c).required = desired[c].required
    <2>1. PICK add : add = Change("add", c, desired[c], NoName, FALSE)
        OBVIOUS
    <2>2. /\ add.column = c /\ add.kind = "add" /\ add.type = desired[c].type
          /\ add.required = desired[c].required
        BY <2>1 DEF Change
    <2>3. add \in OfKind(plan, "add")
        BY <2>1, <2>2 DEF OfKind, Creation
    <2>4. \A other \in OfKind(plan, "add") : other.column = add.column => other = add
        <3>. SUFFICES ASSUME NEW d \in DOMAIN desired,
                             Change("add", d, desired[d], NoName, FALSE).column = c
                      PROVE  Change("add", d, desired[d], NoName, FALSE) = add
            BY <2>2 DEF OfKind, Creation
        <3>1. d = c
            BY DEF Change
        <3>. QED
            BY <2>1, <3>1
    <2>5. PICK required \in BOOLEAN : required <=> plan.action = "create" /\ add.required
        OBVIOUS
    <2>6. Added(live, plan, add.column).type = add.type
          /\ Added(live, plan, add.column).required = required
        BY <2>3, <2>4, <2>5, AddedTyped
    <2>7. desired[c].required \in BOOLEAN
        BY DEF Columns
    <2>8. required = desired[c].required
        BY <1>2, <2>2, <2>5, <2>7, Zenon
    <2>. QED
        BY <2>2, <2>3, <2>6, <2>8 DEF Additions
<1>7. Additions(plan) \subseteq DOMAIN desired
    BY DEF Additions, OfKind, Creation, Change
<1>8. PICK after : after = Altered(live, plan)
    OBVIOUS
<1>9. DOMAIN after = DOMAIN desired /\ \A c \in DOMAIN desired : after[c] = Added(live, plan, c)
    <2>1. Keeping(live, plan) \cap Additions(plan) = {}
        BY <1>5
    <2>2. /\ DOMAIN after = Keeping(live, plan) \cup Additions(plan)
          /\ \A c \in Additions(plan) : after[c] = Added(live, plan, c)
        BY <1>8, <2>1, AlteredIs
    <2>. QED
        BY <1>5, <1>6, <1>7, <2>2
<1>10. Settled(desired, after)
    BY <1>6, <1>9 DEF Settled, Renamable
<1>11. after # << >>
    BY <1>1, <1>9
<1>. QED
    BY <1>8, <1>10, <1>11, SettledIf

LEMMA AlterationSettles ==
    ASSUME NEW desired, Columns(desired), Renamable(desired), NEW live, Live(live),
           NEW plan, WellPlanned(plan), plan.action = "alter",
           plan.columns = Alteration(desired, live), Accepts(live, plan), ~ Breaking(plan),
           \A r, s \in OfKind(plan, "rename") : r.from = s.from => r = s
    PROVE  Settled(desired, Altered(live, plan))
<1>. DEFINE Of(c) == ColumnChanges(c, desired[c], live)
            From(c) == Source(desired[c], c, live)
            R == OfKind(plan, "rename")
<1>1. ASSUME NEW c \in DOMAIN desired
      PROVE  /\ Of(c) \subseteq plan.columns
             /\ \A d \in Of(c) : d.column = c /\ d.type = desired[c].type /\ ~ d.breaking
             /\ desired[c].required \in BOOLEAN
    <2>1. PICK want : want = desired[c]
        OBVIOUS
    <2>2. want.type \in STRING /\ want.required \in BOOLEAN
        BY <2>1 DEF Columns
    <2>3. \A d \in ColumnChanges(c, want, live) : d.column = c /\ d.type = want.type
        BY <2>2, ColumnChangesAre
    <2>4. Of(c) \subseteq plan.columns
        BY DEF Alteration
    <2>. HIDE DEF Of
    <2>5. \A d \in Of(c) : ~ d.breaking
        BY <2>4 DEF Breaking
    <2>. QED
        BY <2>1, <2>2, <2>3, <2>4, <2>5 DEF Of
<1>2. \A d \in plan.columns : d.column \in DOMAIN desired /\ d \in Of(d.column)
    <2>1. \A d \in plan.columns : \E c \in DOMAIN desired : d \in Of(c)
        BY DEF Alteration
    <2>. HIDE DEF Of
    <2>. QED
        BY <1>1, <2>1
<1>3. ASSUME NEW c \in DOMAIN desired
      PROVE  Unbroken(c, desired[c], live, From(c), Of(c))
    <2>1. PICK want : want = desired[c]
        OBVIOUS
    <2>2. PICK was : was = Source(want, c, live)
        OBVIOUS
    <2>3. want.required \in BOOLEAN /\ \A d \in ColumnChanges(c, want, live) : ~ d.breaking
        BY <1>1, <2>1
    <2>4. was \in DOMAIN live => live[was].required \in BOOLEAN
        BY DEF Live, Idents
    <2>5. Unbroken(c, want, live, was, ColumnChanges(c, want, live))
        BY <2>2, <2>3, <2>4, UnbrokenChangesAre
    <2>. QED
        BY <2>1, <2>2, <2>5, Zenon
<1>. HIDE DEF Of
<1>4. \A c \in DOMAIN desired : \A d \in Of(c) :
         d.kind = "rename" => desired[c].from \in DOMAIN live /\ d.from = desired[c].from
    BY <1>3 DEF Unbroken
<1>5. \A r \in R : /\ r.column \in DOMAIN desired /\ r \in Of(r.column)
                   /\ r.from = desired[r.column].from /\ r.from \in DOMAIN live
    BY <1>2, <1>4 DEF OfKind
<1>6. ASSUME NEW c \in DOMAIN desired, desired[c].from \in DOMAIN live
      PROVE  \E r \in R : r.column = c /\ r.from = desired[c].from
    <2>1. PICK r \in Of(c) : r.kind = "rename"
        BY <1>3, <1>6 DEF Unbroken
    <2>2. r \in R /\ r.column = c /\ r.from = desired[c].from
        BY <1>1, <1>4, <2>1 DEF OfKind
    <2>. QED
        BY <2>2
<1>7. Taken(plan) \cap DOMAIN desired = {} /\ Taken(plan) \subseteq DOMAIN live
    BY <1>5 DEF Taken, Renamable
<1>8. \A c \in DOMAIN desired : desired[c].from \in DOMAIN live =>
         /\ desired[c].from \in Taken(plan) /\ NewName(plan, desired[c].from) = c
    <2>. TAKE c \in DOMAIN desired
    <2>. HAVE desired[c].from \in DOMAIN live
    <2>1. PICK r \in R : r.column = c /\ r.from = desired[c].from
        BY <1>6
    <2>2. r.from \in Taken(plan)
        BY DEF Taken
    <2>3. PICK s \in R : s.from = r.from /\ s.column = NewName(plan, r.from)
        BY <2>2, NewNameIs
    <2>4. s = r
        BY <2>3
    <2>. QED
        BY <2>1, <2>2, <2>3, <2>4
<1>9. \A old \in Taken(plan) : /\ NewName(plan, old) \in DOMAIN desired
                               /\ desired[NewName(plan, old)].from = old
    <2>. TAKE old \in Taken(plan)
    <2>1. PICK r \in R : r.from = old /\ r.column = NewName(plan, old)
        BY NewNameIs
    <2>. QED
        BY <1>5, <2>1
<1>10. \A c \in DOMAIN desired : c \in Given(plan) <=> desired[c].from \in DOMAIN live
    BY <1>7, <1>8, <1>9 DEF Given
<1>11. ASSUME NEW c \in DOMAIN desired PROVE Path(plan, c) = From(c)
    <2>. DEFINE renames == {r \in R : r.column = c}
    <2>1. Path(plan, c) = IF renames = {} THEN c ELSE (CHOOSE r \in renames : TRUE).from
        BY Zenon DEF Path
    <2>2. CASE desired[c].from \in DOMAIN live
        <3>1. renames # {}
            BY <1>6, <2>2
        <3>2. (CHOOSE r \in renames : TRUE) \in renames
            BY <3>1
        <3>3. (CHOOSE r \in renames : TRUE).from = desired[c].from
            BY <1>5, <3>2
        <3>. QED
            BY <2>1, <2>2, <3>1, <3>3 DEF Source
    <2>3. CASE desired[c].from \notin DOMAIN live
        <3>1. renames = {}
            BY <1>5, <2>3
        <3>. QED
            BY <2>1, <2>3, <3>1 DEF Source
    <2>. QED
        BY <2>2, <2>3
<1>12. \A c, d \in DOMAIN desired : From(c) = From(d) => c = d
    BY <1>8 DEF Source, Renamable
<1>13. \A c \in DOMAIN desired : From(c) \in DOMAIN live =>
          c \in Keeping(live, plan) /\ Was(plan, c) = From(c)
    <2>. TAKE c \in DOMAIN desired
    <2>. HAVE From(c) \in DOMAIN live
    <2>1. CASE desired[c].from \in DOMAIN live
        <3>1. c \in Given(plan)
            BY <1>10, <2>1
        <3>2. PICK was : was = CHOOSE old \in Taken(plan) : NewName(plan, old) = c
            OBVIOUS
        <3>3. was \in Taken(plan) /\ NewName(plan, was) = c
            BY <1>8, <2>1, <3>2
        <3>4. was = desired[c].from
            BY <1>9, <3>3
        <3>5. Was(plan, c) = was
            BY <3>1, <3>2, Zenon DEF Was
        <3>. QED
            BY <2>1, <3>1, <3>4, <3>5 DEF Keeping, Source
    <2>2. CASE desired[c].from \notin DOMAIN live
        <3>1. c \notin Given(plan) /\ From(c) = c /\ c \notin Taken(plan)
            BY <1>7, <1>10, <2>2 DEF Source
        <3>2. Was(plan, c) = c
            BY <3>1, Zenon DEF Was
        <3>. QED
            BY <3>1, <3>2 DEF Keeping
    <2>. QED
        BY <2>1, <2>2
<1>14. Keeping(live, plan) \cap Additions(plan) = {}
    BY WasIs
<1>15. PICK after : after = Altered(live, plan)
    OBVIOUS
<1>16. /\ DOMAIN after = Keeping(live, plan) \cup Additions(plan)
       /\ \A n \in Keeping(live, plan) : after[n] = Kept(live, plan, n)
       /\ \A n \in Additions(plan) : after[n] = Added(live, plan, n)
    BY <1>14, <1>15, AlteredIs
<1>17. ASSUME NEW c \in DOMAIN desired, From(c) \notin DOMAIN live
       PROVE  c \in DOMAIN after /\ after[c].type = desired[c].type /\ after[c].required = desired[c].required
    <2>1. PICK add : add = Change("add", c, desired[c], NoName, FALSE)
        OBVIOUS
    <2>2. add.kind = "add" /\ add.column = c /\ add.type = desired[c].type
        BY <2>1 DEF Change
    <2>3. Of(c) = {add} /\ desired[c].required = FALSE
        BY <1>3, <1>17, <2>1 DEF Unbroken
    <2>4. add \in OfKind(plan, "add")
        BY <1>1, <2>2, <2>3 DEF OfKind
    <2>5. \A other \in OfKind(plan, "add") : other.column = add.column => other = add
        BY <1>2, <2>2, <2>3 DEF OfKind
    <2>6. PICK required \in BOOLEAN : required <=> plan.action = "create" /\ add.required
        OBVIOUS
    <2>7. Added(live, plan, add.column).type = add.type /\ Added(live, plan, add.column).required = required
        BY <2>4, <2>5, <2>6, AddedTyped
    <2>8. required = FALSE
        BY <2>6
    <2>9. c \in Additions(plan)
        BY <2>2, <2>4 DEF Additions
    <2>. QED
        BY <1>16, <2>2, <2>3, <2>7, <2>8, <2>9
<1>18. ASSUME NEW c \in DOMAIN desired, From(c) \in DOMAIN live
       PROVE  c \in DOMAIN after /\ after[c].type = desired[c].type /\ after[c].required = desired[c].required
    <2>1. PICK was : was = Was(plan, c)
        OBVIOUS
    <2>2. was = From(c) /\ c \in Keeping(live, plan)
        BY <1>13, <1>18, <2>1
    <2>3. \A d \in plan.columns : Path(plan, d.column) = was => d.column = c /\ d \in Of(c)
        BY <1>2, <1>11, <1>12, <2>2
    <2>4. \A d \in Of(c) : d \in plan.columns /\ d.column = c /\ Path(plan, d.column) = was
        BY <1>1, <1>11, <2>2
    <2>5. PICK type : type = desired[c].type
        OBVIOUS
    <2>6. \A d \in OfKind(plan, "promote") : Path(plan, d.column) = was => d.type = type
        BY <1>1, <2>3, <2>5 DEF OfKind
    <2>7. live[was].type = type \/ \E d \in OfKind(plan, "promote") : Path(plan, d.column) = was
        <3>1. live[was].type = type \/ \E d \in Of(c) : d.kind = "promote"
            BY <1>3, <1>18, <2>2, <2>5 DEF Unbroken
        <3>. QED
            BY <2>4, <3>1 DEF OfKind
    <2>8. desired[c].required \in BOOLEAN /\ live[was].required \in BOOLEAN
        BY <1>1, <1>18, <2>2 DEF Live, Idents
    <2>9. /\ Kept(live, plan, c).type = type
          /\ Loosened(live, plan, was, Kept(live, plan, c).required)
        <3>1. Promoted(live, plan, was, type)
            BY <2>6, <2>7 DEF Promoted
        <3>. QED
            BY <2>1, <2>8, <3>1, KeptTyped
    <2>10. CASE live[was].required = desired[c].required
        <3>1. \A d \in Of(c) : d.kind # "loosen"
            BY <1>3, <1>18, <2>2, <2>10 DEF Unbroken
        <3>2. \A d \in OfKind(plan, "loosen") : Path(plan, d.column) # was
            BY <2>3, <3>1 DEF OfKind
        <3>3. Kept(live, plan, c).required = desired[c].required
            BY <2>9, <2>10, <3>2, Zenon DEF Loosened
        <3>. QED
            BY <1>16, <2>2, <2>5, <2>9, <3>3
    <2>11. CASE desired[c].required = FALSE /\ \E d \in Of(c) : d.kind = "loosen"
        <3>1. \E d \in OfKind(plan, "loosen") : Path(plan, d.column) = was
            BY <2>4, <2>11 DEF OfKind
        <3>2. Kept(live, plan, c).required = desired[c].required
            BY <2>9, <2>11, <3>1, Zenon DEF Loosened
        <3>. QED
            BY <1>16, <2>2, <2>5, <2>9, <3>2
    <2>. QED
        BY <1>3, <1>18, <2>2, <2>10, <2>11 DEF Unbroken
<1>19. ASSUME NEW c \in DOMAIN desired PROVE desired[c].from \notin DOMAIN after
    <2>1. desired[c].from \notin DOMAIN desired
        BY DEF Renamable
    <2>2. Given(plan) \subseteq DOMAIN desired /\ Additions(plan) \subseteq DOMAIN desired
        BY <1>2, <1>9 DEF Given, Additions, OfKind
    <2>3. desired[c].from \in DOMAIN live => desired[c].from \in Taken(plan)
        BY <1>8
    <2>. QED
        BY <1>16, <2>1, <2>2, <2>3 DEF Keeping
<1>. QED
    BY <1>15, <1>17, <1>18, <1>19 DEF Settled

(* A plan that is not refused, made in full of the table it was planned for, leaves *)
(* nothing to plan.                                                                 *)
LEMMA AppliedSettles ==
    ASSUME NEW desired, Columns(desired), desired # << >>, Renamable(desired),
           NEW live, Live(live), NEW plan, plan = DiffTable(desired, live),
           plan.action # "none", Accepts(live, plan), ~ Breaking(plan),
           \A r, s \in OfKind(plan, "rename") : r.from = s.from => r = s
    PROVE  DiffTable(desired, Altered(live, plan)) = NoChange
<1>1. NoChange.action = "none"
    BY DEF NoChange
<1>2. CASE live = << >>
    <2>1. plan = [action |-> "create", columns |-> Creation(desired)]
        BY <1>2, Zenon DEF DiffTable
    <2>2. plan.action = "create" /\ plan.columns = Creation(desired)
        BY <2>1
    <2>3. DOMAIN live = {}
        BY <1>2
    <2>. QED
        BY <2>2, <2>3, CreationSettles
<1>3. CASE live # << >>
    <2>1. plan = NoChange \/ plan = [action |-> "alter", columns |-> Alteration(desired, live)]
        BY <1>3, Zenon DEF DiffTable
    <2>2. plan = [action |-> "alter", columns |-> Alteration(desired, live)]
        BY <1>1, <2>1
    <2>3. plan.action = "alter" /\ plan.columns = Alteration(desired, live)
        BY <2>2
    <2>4. WellPlanned(plan)
        BY DiffWellPlanned
    <2>5. PICK after : after = Altered(live, plan)
        OBVIOUS
    <2>6. Settled(desired, after)
        BY <2>3, <2>4, <2>5, AlterationSettles
    <2>7. PICK c : c \in DOMAIN desired
        BY NoColumns
    <2>8. c \in DOMAIN after
        BY <2>6, <2>7 DEF Settled
    <2>9. after # << >>
        BY <2>8
    <2>. QED
        BY <2>5, <2>6, <2>9, SettledIf
<1>. QED
    BY <1>2, <1>3

LEMMA DesiredIs ==
    ASSUME NEW ontology, NEW t, NEW c \in DOMAIN Desired(ontology, t)
    PROVE  \E from : Desired(ontology, t)[c] =
               [type |-> (CHOOSE d \in Wanting(ontology, t, c) : TRUE).type,
                required |-> \A d \in Wanting(ontology, t, c) : d.required,
                from |-> from]
<1>1. DOMAIN Desired(ontology, t) = {d.column : d \in {x \in Declarations(ontology) : x.table = t}}
    BY DEF Desired
<1>2. c \in {d.column : d \in {x \in Declarations(ontology) : x.table = t}}
    BY <1>1
<1>. QED
    BY <1>2, Zenon DEF Desired

(* What a spec wants of a column it declares, if its declarations agree. *)
LEMMA WantedIs ==
    ASSUME NEW spec \in Specs, Agree(Ontology[spec]), NEW one \in Declarations(Ontology[spec]),
           NEW t \in TableSet, one.table = t, NEW c, one.column = c
    PROVE  /\ c \in DOMAIN Wanted(spec, t)
           /\ Wanted(spec, t)[c].type = one.type
           /\ (\A d \in Wanting(Ontology[spec], t, c) : d.required) => Wanted(spec, t)[c].required
<1>. DEFINE D == Declarations(Ontology[spec])
            wanting == Wanting(Ontology[spec], t, c)
            type == (CHOOSE d \in wanting : TRUE).type
            required == \A d \in wanting : d.required
<1>1. Wanted(spec, t) = Desired(Ontology[spec], t)
    BY DEF Wanted, DesiredTables
<1>2. DOMAIN Wanted(spec, t) = {d.column : d \in {x \in D : x.table = t}}
    BY <1>1 DEF Desired
<1>3. c \in DOMAIN Wanted(spec, t)
    BY <1>2
<1>4. PICK from : Wanted(spec, t)[c] = [type |-> type, required |-> required, from |-> from]
    <2>1. PICK o : o = Ontology[spec]
        OBVIOUS
    <2>2. c \in DOMAIN Desired(o, t)
        BY <1>1, <1>3, <2>1
    <2>3. \E from : Desired(o, t)[c] =
             [type |-> (CHOOSE d \in Wanting(o, t, c) : TRUE).type,
              required |-> \A d \in Wanting(o, t, c) : d.required,
              from |-> from]
        BY <2>2, DesiredIs
    <2>. QED
        BY <1>1, <2>1, <2>3, Zenon
<1>5. one \in wanting
    BY DEF Wanting
<1>6. (CHOOSE d \in wanting : TRUE) \in wanting
    BY <1>5
<1>7. type = one.type
    BY <1>5, <1>6 DEF Agree, Wanting
<1>. HIDE DEF type, required, wanting
<1>8. PICK r : r = required
    OBVIOUS
<1>9. Wanted(spec, t)[c] = [type |-> type, required |-> r, from |-> from]
    BY <1>4, <1>8, Zenon
<1>10. Wanted(spec, t)[c].type = type /\ Wanted(spec, t)[c].required = r
    BY <1>9
<1>11. ASSUME required PROVE Wanted(spec, t)[c].required
    <2>1. r = TRUE
        BY <1>8, <1>11, Zenon
    <2>. QED
        BY <1>10, <2>1, Zenon
<1>. QED
    BY <1>3, <1>7, <1>10, <1>11, Zenon DEF required, wanting

LEMMA NamesAreReal ==
    ASSUME NEW spec \in Specs, NEW t \in TableSet
    PROVE  NoName \notin DOMAIN Wanted(spec, t)
<1>1. \A d \in Declarations(Ontology[spec]) : d.column # NoName
    BY MigrationAssumption
<1>2. DOMAIN Wanted(spec, t) = {e.column : e \in {x \in Declarations(Ontology[spec]) : x.table = t}}
    BY DEF Wanted, DesiredTables, Desired
<1>. QED
    BY <1>1, <1>2

(* The columns a sound run works towards. *)
LEMMA OverlaidIs ==
    ASSUME NEW x, Sound(x), x.spec \in Specs, NEW t \in Targets(x.spec)
    PROVE  /\ Columns(Overlaid(x, t)) /\ Overlaid(x, t) # << >> /\ Renamable(Overlaid(x, t))
           /\ DOMAIN Overlaid(x, t) = DOMAIN Wanted(x.spec, t)
           /\ \A c \in DOMAIN Wanted(x.spec, t) :
                 /\ Overlaid(x, t)[c].type = Wanted(x.spec, t)[c].type
                 /\ Overlaid(x, t)[c].required = Wanted(x.spec, t)[c].required
                 /\ c \in DOMAIN x.overlay[t] => Overlaid(x, t)[c].from = x.overlay[t][c]
<1>1. PICK W : W = Wanted(x.spec, t)
    OBVIOUS
<1>2. PICK overlay : overlay = x.overlay[t]
    OBVIOUS
<1>3. PICK D : D = Overlaid(x, t)
    OBVIOUS
<1>4. t \in TableSet /\ W # << >>
    BY <1>1 DEF Targets
<1>5. D = ApplyRenames(W, overlay)
    BY <1>1, <1>2, <1>3 DEF Overlaid
<1>6. Columns(W) /\ Columns(D)
    BY <1>1, <1>4, <1>5, WantedTyped
<1>7. DOMAIN D = DOMAIN W
    BY <1>5 DEF ApplyRenames
<1>8. D # << >>
    <2>1. PICK c : c \in DOMAIN W
        BY <1>4, <1>6, NoColumns
    <2>2. c \in DOMAIN D
        BY <1>7, <2>1
    <2>. QED
        BY <2>2
<1>9. CheckRenames(W) /\ ~ OverlayClashes(W, overlay) /\ NoName \notin DOMAIN W
    <2>1. NoName \notin DOMAIN Wanted(x.spec, t)
        BY <1>4, NamesAreReal
    <2>2. CheckRenames(Wanted(x.spec, t)) /\ ~ OverlayClashes(Wanted(x.spec, t), x.overlay[t])
        BY <1>4 DEF Sound
    <2>. QED
        BY <1>1, <1>2, <2>1, <2>2
<1>10. \A c \in DOMAIN W : DOMAIN W[c] = {"type", "required", "from"}
    <2>. DEFINE O == Ontology[x.spec]
    <2>1. W = Desired(O, t)
        BY <1>1, <1>4 DEF Wanted, DesiredTables
    <2>2. ASSUME NEW c \in DOMAIN W
          PROVE  \E type, required, from : W[c] = [type |-> type, required |-> required, from |-> from]
        <3>1. c \in DOMAIN Desired(O, t)
            BY <2>1, <2>2
        <3>2. \E from : Desired(O, t)[c] =
                 [type |-> (CHOOSE d \in Wanting(O, t, c) : TRUE).type,
                  required |-> \A d \in Wanting(O, t, c) : d.required,
                  from |-> from]
            BY <3>1, DesiredIs
        <3>. QED
            BY <2>1, <3>2, Zenon
    <2>. QED
        BY <2>2
<1>11. ASSUME NEW c \in DOMAIN W
       PROVE  /\ D[c].type = W[c].type /\ D[c].required = W[c].required /\ D[c].from \notin DOMAIN W
              /\ c \in DOMAIN overlay => D[c].from = overlay[c]
    <2>1. CASE c \in DOMAIN overlay
        <3>1. D[c] = [W[c] EXCEPT !.from = overlay[c]]
            BY <1>5, <2>1 DEF ApplyRenames
        <3>2. overlay[c] \notin DOMAIN W
            BY <1>9, <2>1 DEF OverlayClashes
        <3>. QED
            BY <1>10, <2>1, <3>1, <3>2
    <2>2. CASE c \notin DOMAIN overlay
        <3>1. D[c] = W[c]
            BY <1>5, <2>2 DEF ApplyRenames
        <3>2. W[c].from \notin DOMAIN W
            BY <1>9 DEF CheckRenames
        <3>. QED
            BY <2>2, <3>1, <3>2
    <2>. QED
        BY <2>1, <2>2
<1>12. Renamable(D)
    BY <1>7, <1>11 DEF Renamable
<1>. QED
    BY <1>1, <1>2, <1>3, <1>6, <1>7, <1>8, <1>11, <1>12

-----------------------------------------------------------------------------
(* A run that was applied leaves nothing to plan. *)

(* Live columns with nothing to plan are what check_physical wants of them. *)
LEMMA SettledIsSound ==
    ASSUME NEW x, Sound(x), x.spec \in Specs, Plannable(Ontology[x.spec]), NEW t \in Targets(x.spec),
           NEW live, Settled(Overlaid(x, t), live)
    PROVE  PhysicallySound(Ontology[x.spec], t, live)
<1>1. PICK spec : spec = x.spec
    OBVIOUS
<1>2. spec \in Specs /\ Agree(Ontology[spec]) /\ t \in TableSet
    BY <1>1 DEF Sound, Targets
<1>3. \A c \in DOMAIN Wanted(spec, t) :
         /\ c \in DOMAIN live
         /\ live[c].type = Wanted(spec, t)[c].type /\ live[c].required = Wanted(spec, t)[c].required
    <2>1. /\ DOMAIN Overlaid(x, t) = DOMAIN Wanted(spec, t)
          /\ \A c \in DOMAIN Wanted(spec, t) :
                /\ Overlaid(x, t)[c].type = Wanted(spec, t)[c].type
                /\ Overlaid(x, t)[c].required = Wanted(spec, t)[c].required
        BY <1>1, OverlaidIs
    <2>. QED
        BY <2>1 DEF Settled
<1>4. ASSUME NEW p \in Ontology[spec].properties, p.table = t
      PROVE  /\ p.column \in DOMAIN live
             /\ Promotable(live[p.column].type, p.type)
             /\ p.key => live[p.column].required
    <2>1. p.type # Virtual /\ (p.key => \A d \in Wanting(Ontology[spec], t, p.column) : d.required)
        BY <1>1, <1>4 DEF Plannable
    <2>2. PICK d : d = [table |-> p.table, column |-> p.column, type |-> p.type,
                        required |-> ~ p.nullable, from |-> p.from]
        OBVIOUS
    <2>3. d \in Declarations(Ontology[spec])
        BY <2>1, <2>2, Zenon DEF Declarations
    <2>4. PICK c : c = p.column
        OBVIOUS
    <2>5. d.table = t /\ d.column = c /\ d.type = p.type
        BY <1>4, <2>2, <2>4
    <2>6. /\ c \in DOMAIN Wanted(spec, t)
          /\ Wanted(spec, t)[c].type = d.type
          /\ (\A e \in Wanting(Ontology[spec], t, c) : e.required) => Wanted(spec, t)[c].required
        BY <1>2, <2>3, <2>5, WantedIs
    <2>7. c \in DOMAIN live /\ live[c].type = p.type /\ live[c].required = Wanted(spec, t)[c].required
        BY <1>3, <2>5, <2>6
    <2>8. Promotable(live[c].type, p.type)
        BY <2>7, Zenon DEF Promotable
    <2>9. p.key => live[c].required
        BY <2>1, <2>4, <2>6, <2>7, Zenon
    <2>. QED
        BY <2>4, <2>7, <2>8, <2>9
<1>5. ASSUME NEW s \in Ontology[spec].sides, s.table = t PROVE s.column \in DOMAIN live
    <2>1. PICK d : d = [table |-> s.table, column |-> s.column, type |-> s.type,
                        required |-> TRUE, from |-> s.from]
        OBVIOUS
    <2>2. d \in Declarations(Ontology[spec])
        BY <2>1, Zenon DEF Declarations
    <2>3. PICK c : c = s.column
        OBVIOUS
    <2>4. d.table = t /\ d.column = c
        BY <1>5, <2>1, <2>3
    <2>5. c \in DOMAIN Wanted(spec, t)
        BY <1>2, <2>2, <2>4, WantedIs
    <2>. QED
        BY <1>3, <2>3, <2>5
<1>. QED
    BY <1>1, <1>4, <1>5 DEF PhysicallySound

Reached(x, t) == x.pc # "diff" \/ \E i \in 1 .. x.at - 1 : t = Tables[i]

(* A table is planned for as it is, or, when it was not shown, as one to create. *)
PlannedFor(plan, want, live) == plan = DiffTable(want, live) \/ plan = DiffTable(want, << >>)

(* A run stands on sound specs; and while nobody overtakes it and no table fails, the *)
(* tables it has come to are as it planned, and those it changed need nothing more.   *)
Level(x, l) ==
    x.pc \notin {"idle", "dead"} =>
        /\ Sound(x)
        /\ ~ x.overtaken /\ ~ x.failed =>
              \A t \in Targets(x.spec) :
                 IF t \in x.landed
                 THEN ~ Contested(x) => DiffTable(Overlaid(x, t), l[t]) = NoChange
                 ELSE Reached(x, t) => PlannedFor(x.plan[t], Overlaid(x, t), l[t])

Ids(columns) == {columns[n].id : n \in DOMAIN columns}

(* The rows of a history when a rollback read it. *)
ReadOf(x, m, c) == SubSeq(m[c], 1, x.read[c])

(* What a rollback goes back by. *)
Led(x, m) ==
    /\ x.read \in [Catalogs -> Nat]
    /\ \A c \in Catalogs : x.read[c] <= Len(m[c])
    /\ \E newestFirst \in BOOLEAN : \A t \in TableSet :
          x.overlay[t] = ReverseRenames(RenamesSince(ReadOf(x, m, CatalogOf[t]), t, x.target, newestFirst))

(* A table it has come to: planned as it was found, with every column of the rows *)
(* that were read; and it is so still, or as the plan makes it.                   *)
FoundAs(x, l, m, t) ==
    /\ Live(x.found[t]) /\ PlannedFor(x.plan[t], Overlaid(x, t), x.found[t])
    /\ \A i \in 1 .. x.read[CatalogOf[t]] : Ids(m[CatalogOf[t]][i].live[t]) \subseteq Ids(x.found[t])
    /\ ~ x.overtaken /\ ~ x.failed =>
          IF t \in x.landed
          THEN Accepts(x.found[t], x.plan[t]) /\ ~ Breaking(x.plan[t]) /\ l[t] = Altered(x.found[t], x.plan[t])
          ELSE l[t] = x.found[t]

Way(x, l, m) ==
    /\ DOMAIN x.found = TableSet
    /\ x.rollback /\ x.pc \notin {"idle", "dead"} =>
          Led(x, m) /\ \A t \in Targets(x.spec) : Reached(x, t) => FoundAs(x, l, m, t)

(* No column of a row is missing from a later one, or from the lake. *)
Lasts(l, m) ==
    \A t \in TableSet : \A i \in 1 .. Len(m[CatalogOf[t]]) :
        LET rows == m[CatalogOf[t]]
        IN  /\ IsFiniteSet(rows[i].renames) /\ Live(rows[i].live[t])
            /\ Ids(rows[i].live[t]) \subseteq Ids(l[t])
            /\ \A j \in 1 .. i : Ids(rows[j].live[t]) \subseteq Ids(rows[i].live[t])

Levels ==
    /\ Lasts(lake, meta)
    /\ \A p \in Operators : Level(run[p], lake) /\ Way(run[p], lake, meta)

(* What a step of a run leaves of what Level and Way speak of. *)
Steady(x, y) ==
    /\ y.spec = x.spec /\ y.overlay = x.overlay /\ y.plan = x.plan /\ y.landed = x.landed
    /\ y.overtaken = x.overtaken /\ (y.failed = x.failed \/ y.failed = TRUE)
    /\ y.rollback = x.rollback /\ y.target = x.target /\ y.read = x.read /\ y.found = x.found

(* The plan of a table that was not shown is refused by it; and where there is nothing *)
(* to change, the table was shown.                                                     *)
LEMMA PlannedAccepts ==
    ASSUME NEW plan, NEW want, NEW live, PlannedFor(plan, want, live),
           Accepts(live, plan) \/ (plan.action = "none" /\ want # << >>)
    PROVE  plan = DiffTable(want, live)
<1>1. CASE want = << >>
    <2>1. DiffTable(want, live) = NoChange /\ DiffTable(want, << >>) = NoChange
        BY <1>1, Zenon DEF DiffTable
    <2>. QED
        BY <2>1 DEF PlannedFor
<1>2. CASE want # << >> /\ plan = DiffTable(want, << >>)
    <2>1. plan = [action |-> "create", columns |-> Creation(want)]
        BY <1>2, Zenon DEF DiffTable
    <2>2. plan.action = "create"
        BY <2>1
    <2>3. live = << >>
        BY <2>2, Zenon DEF Accepts
    <2>. QED
        BY <1>2, <2>3
<1>. QED
    BY <1>1, <1>2 DEF PlannedFor

LEMMA SoundKept ==
    ASSUME NEW x, NEW y, y.spec = x.spec, y.overlay = x.overlay
    PROVE  (Sound(y) <=> Sound(x)) /\ \A t : Overlaid(y, t) = Overlaid(x, t)
BY DEF Sound, Overlaid

LEMMA LevelKept ==
    ASSUME NEW x, NEW l, Level(x, l), x.pc \notin {"idle", "dead", "diff"}, NEW y, Steady(x, y)
    PROVE  Level(y, l)
<1>1. Sound(y) /\ Sound(x) /\ \A t : Overlaid(y, t) = Overlaid(x, t)
    BY SoundKept DEF Steady, Level
<1>2. Contested(y) <=> Contested(x)
    BY DEF Steady, Contested
<1>3. ASSUME ~ y.overtaken, ~ y.failed, NEW t \in Targets(y.spec)
      PROVE  /\ t \in y.landed => (~ Contested(y) => DiffTable(Overlaid(y, t), l[t]) = NoChange)
             /\ t \notin y.landed => PlannedFor(y.plan[t], Overlaid(y, t), l[t])
    <2>1. ~ x.overtaken /\ ~ x.failed /\ t \in Targets(x.spec) /\ y.plan = x.plan /\ y.landed = x.landed
        BY <1>3 DEF Steady
    <2>2. IF t \in x.landed
          THEN ~ Contested(x) => DiffTable(Overlaid(x, t), l[t]) = NoChange
          ELSE Reached(x, t) => PlannedFor(x.plan[t], Overlaid(x, t), l[t])
        BY <2>1 DEF Level
    <2>3. Reached(x, t)
        BY DEF Reached
    <2>. QED
        BY <1>1, <1>2, <2>1, <2>2, <2>3
<1>. QED
    BY <1>1, <1>3 DEF Level

LEMMA LevelOfOthers ==
    ASSUME NEW x, DOMAIN x = Fields, NEW l, NEW k, Level(x, l),
           NEW y, (y = Lasting(x) /\ k = l) \/ y = Overtake(x)
    PROVE  Level(y, k)
<1>1. CASE Ended(x)
    <2>1. y.pc = "idle"
        BY <1>1, IdleIs DEF Lasting, Overtake
    <2>. QED
        BY <2>1 DEF Level
<1>2. CASE ~ Ended(x) /\ y = Lasting(x) /\ k = l
    BY <1>2 DEF Lasting
<1>3. CASE ~ Ended(x) /\ y = Overtake(x)
    <2>1. y = [x EXCEPT !.overtaken = TRUE]
        BY <1>3 DEF Overtake
    <2>2. y.overtaken = TRUE /\ y.spec = x.spec /\ y.overlay = x.overlay
        BY <2>1 DEF Fields, Idle
    <2>3. Sound(x)
        BY <1>3 DEF Level, Ended
    <2>4. Sound(y)
        BY <2>2, <2>3, SoundKept
    <2>. QED
        BY <2>2, <2>4 DEF Level
<1>. QED
    BY <1>1, <1>2, <1>3

LEMMA IdleWay == ASSUME NEW l, NEW m PROVE Way(Idle, l, m)
BY DEF Way, Idle, NoRenames

(* A history that grows is read as before. *)
LEMMA LedKept ==
    ASSUME NEW x, NEW m, HistoriesOK(m), Led(x, m), NEW n, HistoriesOK(n), Appended(m, n),
           NEW y, y.read = x.read, y.overlay = x.overlay, y.target = x.target
    PROVE  Led(y, n)
<1>1. \A c \in Catalogs : x.read[c] \in Nat /\ x.read[c] <= Len(m[c]) /\ x.read[c] <= Len(n[c])
    BY DEF Led, Appended
<1>2. ASSUME NEW c \in Catalogs PROVE ReadOf(y, n, c) = ReadOf(x, m, c)
    <2>1. PICK s : s = m[c]
        OBVIOUS
    <2>2. PICK u : u = n[c]
        OBVIOUS
    <2>3. s \in Seq({s[i] : i \in DOMAIN s}) /\ u \in Seq({u[i] : i \in DOMAIN u})
        BY <2>1, <2>2 DEF HistoriesOK
    <2>4. Len(s) <= Len(u) /\ \A i \in 1 .. Len(s) : u[i] = s[i]
        BY <2>1, <2>2 DEF Appended
    <2>5. PICK k : k = x.read[c]
        OBVIOUS
    <2>6. k \in Nat /\ k <= Len(s)
        BY <1>1, <2>1, <2>5
    <2>7. SubSeq(u, 1, k) = SubSeq(s, 1, k)
        BY <2>3, <2>4, <2>6
    <2>. QED
        BY <2>1, <2>2, <2>5, <2>7 DEF ReadOf
<1>3. PICK newestFirst \in BOOLEAN : \A t \in TableSet :
         x.overlay[t] = ReverseRenames(RenamesSince(ReadOf(x, m, CatalogOf[t]), t, x.target, newestFirst))
    BY DEF Led
<1>4. ASSUME NEW t \in TableSet
      PROVE  y.overlay[t] = ReverseRenames(RenamesSince(ReadOf(y, n, CatalogOf[t]), t, y.target, newestFirst))
    <2>1. ReadOf(y, n, CatalogOf[t]) = ReadOf(x, m, CatalogOf[t])
        BY <1>2, TablesAre
    <2>2. x.overlay[t] = ReverseRenames(RenamesSince(ReadOf(x, m, CatalogOf[t]), t, x.target, newestFirst))
        BY <1>3
    <2>. QED
        BY <2>1, <2>2
<1>5. y.read \in [Catalogs -> Nat]
    BY DEF Led
<1>. QED
    BY <1>1, <1>4, <1>5 DEF Led

(* And so are the rows a table was found with. *)
LEMMA ReadRowsKept ==
    ASSUME NEW x, NEW m, Led(x, m), NEW n, Appended(m, n), NEW t \in TableSet,
           NEW i \in 1 .. x.read[CatalogOf[t]]
    PROVE  n[CatalogOf[t]][i] = m[CatalogOf[t]][i]
<1>1. PICK c \in Catalogs : c = CatalogOf[t]
    BY TablesAre
<1>2. /\ x.read[c] \in Nat /\ x.read[c] <= Len(m[c]) /\ Len(m[c]) \in Nat
      /\ \A j \in 1 .. Len(m[c]) : n[c][j] = m[c][j]
    BY DEF Led, Appended
<1>. QED
    BY <1>1, <1>2

LEMMA WayKept ==
    ASSUME NEW x, NEW l, NEW m, NEW n, HistoriesOK(m), HistoriesOK(n), Appended(m, n), Way(x, l, m),
           x.pc \notin {"idle", "dead", "diff"}, NEW y, Steady(x, y)
    PROVE  Way(y, l, n)
<1>1. /\ y.spec = x.spec /\ y.plan = x.plan /\ y.landed = x.landed /\ y.rollback = x.rollback
      /\ y.read = x.read /\ y.found = x.found /\ \A t : Overlaid(y, t) = Overlaid(x, t)
      /\ ~ y.overtaken /\ ~ y.failed => ~ x.overtaken /\ ~ x.failed
    BY SoundKept DEF Steady
<1>2. ASSUME x.rollback PROVE Led(y, n)
    BY <1>2, LedKept DEF Way, Steady
<1>3. ASSUME x.rollback, NEW t \in Targets(x.spec) PROVE FoundAs(y, l, n, t)
    <2>1. FoundAs(x, l, m, t) /\ Led(x, m) /\ t \in TableSet
        BY <1>3 DEF Way, Reached, Targets
    <2>2. \A i \in 1 .. x.read[CatalogOf[t]] : n[CatalogOf[t]][i] = m[CatalogOf[t]][i]
        BY <2>1, ReadRowsKept
    <2>. QED
        BY <1>1, <2>1, <2>2 DEF FoundAs
<1>. QED
    BY <1>1, <1>2, <1>3 DEF Way

LEMMA WayOfOthers ==
    ASSUME NEW x, DOMAIN x = Fields, NEW l, NEW k, NEW m, NEW n, HistoriesOK(m), HistoriesOK(n),
           Appended(m, n), Way(x, l, m), NEW y, (y = Lasting(x) /\ k = l) \/ y = Overtake(x)
    PROVE  Way(y, k, n)
<1>1. CASE Ended(x)
    <2>1. y = Idle
        BY <1>1 DEF Lasting, Overtake
    <2>. QED
        BY <2>1, IdleWay
<1>2. CASE ~ Ended(x)
    <2>1. /\ y.rollback = x.rollback /\ y.pc = x.pc /\ y.spec = x.spec /\ y.found = x.found /\ y.read = x.read
          /\ y.plan = x.plan /\ y.overlay = x.overlay /\ y.at = x.at /\ y.target = x.target
          /\ y.landed = x.landed
          /\ (y.overtaken = x.overtaken /\ y.failed = x.failed /\ k = l) \/ y.overtaken = TRUE
        BY <1>2 DEF Lasting, Overtake, Fields, Idle
    <2>2. \A t : (Overlaid(y, t) = Overlaid(x, t)) /\ (Reached(y, t) <=> Reached(x, t))
        BY <2>1 DEF Overlaid, Reached
    <2>3. ASSUME x.rollback, x.pc \notin {"idle", "dead"} PROVE Led(y, n)
        BY <2>1, <2>3, LedKept DEF Way
    <2>4. ASSUME x.rollback, x.pc \notin {"idle", "dead"}, NEW t \in Targets(x.spec), Reached(x, t)
          PROVE  FoundAs(y, k, n, t)
        <3>1. FoundAs(x, l, m, t) /\ Led(x, m) /\ t \in TableSet
            BY <2>4 DEF Way, Targets
        <3>2. \A i \in 1 .. x.read[CatalogOf[t]] : n[CatalogOf[t]][i] = m[CatalogOf[t]][i]
            BY <3>1, ReadRowsKept
        <3>. QED
            BY <2>1, <2>2, <3>1, <3>2 DEF FoundAs
    <2>. QED
        BY <2>1, <2>2, <2>3, <2>4 DEF Way
<1>. QED
    BY <1>1, <1>2

LEMMA LevelsKeep ==
    ASSUME IInv, Levels, HistoriesOK(meta'), Appended(meta, meta'), Lasts(lake', meta'),
           NEW p \in Operators, NEW y, Moves(p, y), Level(y, lake'), Way(y, lake', meta')
    PROVE  Levels'
<1>1. run'[p] = y /\ DOMAIN run' = Operators
    BY DEF Moves
<1>2. HistoriesOK(meta)
    BY DEF IInv
<1>3. ASSUME NEW q \in Operators, q # p PROVE Level(run'[q], lake') /\ Way(run'[q], lake', meta')
    <2>1. Level(run[q], lake) /\ Way(run[q], lake, meta) /\ DOMAIN run[q] = Fields
        BY DEF Levels, IInv, Shape
    <2>2. (run'[q] = Lasting(run[q]) /\ lake' = lake) \/ run'[q] = Overtake(run[q])
        BY <1>3 DEF Moves
    <2>3. Level(run'[q], lake')
        BY <2>1, <2>2, LevelOfOthers
    <2>4. Way(run'[q], lake', meta')
        BY <1>2, <2>1, <2>2, WayOfOthers
    <2>. QED
        BY <2>3, <2>4
<1>4. \A q \in Operators : Level(run'[q], lake') /\ Way(run'[q], lake', meta')
    BY <1>1, <1>3
<1>. QED
    BY <1>4 DEF Levels

(* A step that leaves the tables and the histories alone. *)
LEMMA LevelsStill ==
    ASSUME IInv, Levels, UNCHANGED <<lake, meta>>
    PROVE  /\ HistoriesOK(meta) /\ HistoriesOK(meta') /\ Appended(meta, meta')
           /\ Lasts(lake, meta) /\ Lasts(lake', meta')
<1>1. HistoriesOK(meta) /\ Lasts(lake, meta) /\ Appended(meta, meta)
    BY GroundIs DEF IInv, Levels
<1>2. meta' = meta /\ lake' = lake
    OBVIOUS
<1>. QED
    BY <1>1, <1>2

(* A step of a run past its plan, which leaves the tables alone. *)
LEMMA SteadyKeeps ==
    ASSUME IInv, Levels, NEW p \in Operators, NEW y, Steps(p, y), UNCHANGED lake,
           HistoriesOK(meta'), Appended(meta, meta'), Lasts(lake', meta'),
           run[p].pc \notin {"idle", "dead", "diff"}, Steady(run[p], y)
    PROVE  Levels'
<1>1. PICK x : x = run[p]
    OBVIOUS
<1>2. Level(x, lake) /\ Way(x, lake, meta) /\ x.pc \notin {"idle", "dead", "diff"} /\ Steady(x, y)
    BY <1>1 DEF Levels
<1>3. Level(y, lake)
    BY <1>2, LevelKept
<1>4. HistoriesOK(meta)
    BY DEF IInv
<1>5. Way(y, lake, meta')
    BY <1>2, <1>4, WayKept
<1>6. Moves(p, y)
    BY DEF Moves, Steps
<1>. QED
    BY <1>3, <1>5, <1>6, LevelsKeep

(* A step after which there is no run. *)
LEMMA GoneKeeps ==
    ASSUME IInv, Levels, NEW p \in Operators, NEW y, Steps(p, y), UNCHANGED <<lake, meta>>,
           y.pc \in {"idle", "dead"}, y.found = NoRenames
    PROVE  Levels'
<1>1. Moves(p, y) /\ Level(y, lake') /\ Way(y, lake', meta')
    BY DEF Moves, Steps, Level, Way, NoRenames
<1>. QED
    BY <1>1, LevelsStill, LevelsKeep

LEMMA FinishSteady ==
    ASSUME NEW x, DOMAIN x = Fields, NEW status, NEW y, y = Finish(x, status)
    PROVE  Steady(x, y) /\ DOMAIN y = Fields
BY DEF Finish, Steady, Fields, Idle

LEMMA OnwardSteady ==
    ASSUME NEW x, DOMAIN x = Fields, NEW i, NEW y, y = Onward(x, i)
    PROVE  Steady(x, y) /\ DOMAIN y = Fields
<1>1. PICK at : at = CHOOSE j \in ChangesFrom(x, i) : \A k \in ChangesFrom(x, i) : j <= k
    OBVIOUS
<1>2. y = [x EXCEPT !.pc = "record"] \/ y = [x EXCEPT !.pc = "execute", !.at = at]
    BY <1>1, Zenon DEF Onward
<1>. QED
    BY <1>2 DEF Steady, Fields, Idle

LEMMA LevelsDecline == ASSUME IInv, Levels, NEW p \in Operators, Decline(p) PROVE Levels'
<1>1. Steps(p, Idle) /\ UNCHANGED <<lake, meta>>
    BY DEF Decline
<1>2. Idle.pc = "idle" /\ Idle.found = NoRenames
    BY DEF Idle
<1>. QED
    BY <1>1, <1>2, GoneKeeps

LEMMA LevelsDie == ASSUME IInv, Levels, NEW p \in Operators, Die(p) PROVE Levels'
<1>1. PICK y : y = [Idle EXCEPT !.pc = "dead"]
    OBVIOUS
<1>2. y.pc = "dead" /\ y.found = NoRenames
    BY <1>1 DEF Idle
<1>3. Steps(p, y) /\ UNCHANGED <<lake, meta>>
    BY <1>1 DEF Die
<1>. QED
    BY <1>2, <1>3, GoneKeeps

LEMMA LevelsRestore == ASSUME IInv, Levels, NEW p \in Operators, Restore(p) PROVE Levels'
<1>1. PICK x : x = run[p]
    OBVIOUS
<1>2. PICK y : y = [x EXCEPT !.pc = "done", !.restored = TRUE]
    OBVIOUS
<1>3. DOMAIN x = Fields /\ x.pc = "restore"
    BY <1>1 DEF IInv, Shape, Restore
<1>4. Steady(x, y)
    BY <1>2, <1>3 DEF Steady, Fields, Idle
<1>5. Steps(p, y) /\ UNCHANGED <<lake, meta>>
    BY <1>1, <1>2 DEF Restore
<1>. QED
    BY <1>1, <1>3, <1>4, <1>5, LevelsStill, SteadyKeeps

LEMMA LevelsEdit == ASSUME IInv, Levels, Edit PROVE Levels'
<1>1. UNCHANGED <<lake, meta>> /\ \A q \in Operators : run'[q] = Lasting(run[q])
    BY DEF Edit
<1>2. /\ HistoriesOK(meta) /\ HistoriesOK(meta') /\ Appended(meta, meta') /\ Lasts(lake', meta')
    BY <1>1, LevelsStill
<1>3. ASSUME NEW q \in Operators PROVE Level(run'[q], lake') /\ Way(run'[q], lake', meta')
    <2>1. Level(run[q], lake) /\ Way(run[q], lake, meta) /\ DOMAIN run[q] = Fields
        BY DEF Levels, IInv, Shape
    <2>2. PICK y : y = run'[q]
        OBVIOUS
    <2>3. y = Lasting(run[q]) /\ lake' = lake
        BY <1>1, <2>2
    <2>4. Level(y, lake')
        BY <2>1, <2>3, LevelOfOthers
    <2>5. Way(y, lake', meta')
        BY <1>2, <2>1, <2>3, WayOfOthers
    <2>. QED
        BY <2>2, <2>4, <2>5
<1>. QED
    BY <1>2, <1>3 DEF Levels

(* Before it has planned, a run need only be sound. *)
LEMMA LevelsStart ==
    ASSUME IInv, Levels, NEW p \in Operators, NEW x, Start(p, x), Fresh(x), Returns(x)
    PROVE  Levels'
<1>1. PICK y : y = IF Sound(x) THEN [x EXCEPT !.pc = "diff"] ELSE Idle
    OBVIOUS
<1>2. Level(y, lake) /\ Way(y, lake, meta)
    <2>1. CASE y = Idle
        BY <2>1, IdleIs, IdleWay DEF Level
    <2>2. CASE Sound(x) /\ y = [x EXCEPT !.pc = "diff"]
        <3>1. /\ y.pc = "diff" /\ y.at = 1 /\ y.landed = {} /\ y.found = NoRenames
              /\ y.spec = x.spec /\ y.overlay = x.overlay /\ y.rollback = x.rollback
              /\ y.read = x.read /\ y.target = x.target
            BY <2>2 DEF Fresh, SameBut, Fields, Idle
        <3>2. Sound(y)
            BY <2>2, <3>1, SoundKept
        <3>3. \A t : ~ Reached(y, t)
            BY <3>1 DEF Reached
        <3>4. Level(y, lake)
            BY <3>1, <3>2, <3>3 DEF Level
        <3>5. ASSUME x.rollback PROVE Led(y, meta)
            <4>1. PICK shown \in SUBSET Catalogs, newestFirst \in BOOLEAN :
                     /\ x.read = [c \in Catalogs |-> Len(Rows(c, shown))]
                     /\ x.overlay = [t \in TableSet |-> Back(t, shown, x.target, newestFirst)]
                BY <3>5 DEF Returns
            <4>2. \A c \in Catalogs : Len(meta[c]) \in Nat /\ meta[c] \in Seq({meta[c][i] : i \in DOMAIN meta[c]})
                BY GroundIs DEF Appended, IInv, HistoriesOK
            <4>3. ASSUME NEW c \in Catalogs
                  PROVE  /\ Len(Rows(c, shown)) \in Nat /\ Len(Rows(c, shown)) <= Len(meta[c])
                         /\ ReadOf(y, meta, c) = Rows(c, shown)
                <5>1. PICK s : s = meta[c]
                    OBVIOUS
                <5>2. PICK T : T = {s[i] : i \in DOMAIN s}
                    OBVIOUS
                <5>3. s \in Seq(T) /\ Len(s) \in Nat
                    BY <4>2, <5>1, <5>2
                <5>4. SubSeq(s, 1, Len(s)) = s /\ SubSeq(s, 1, 0) = << >> /\ Len(<< >>) = 0
                    BY <5>3
                <5>5. PICK rows : rows = Rows(c, shown)
                    OBVIOUS
                <5>6. rows = s \/ rows = << >>
                    BY <5>1, <5>5 DEF Rows
                <5>7. y.read[c] = Len(rows)
                    BY <3>1, <4>1, <5>5
                <5>8. SubSeq(s, 1, y.read[c]) = rows
                    BY <5>4, <5>6, <5>7
                <5>. QED
                    BY <5>1, <5>3, <5>4, <5>5, <5>6, <5>8 DEF ReadOf
            <4>4. ASSUME NEW t \in TableSet
                  PROVE  y.overlay[t] =
                            ReverseRenames(RenamesSince(ReadOf(y, meta, CatalogOf[t]), t, y.target, newestFirst))
                <5>1. PICK c \in Catalogs : c = CatalogOf[t]
                    BY TablesAre
                <5>2. ReadOf(y, meta, c) = Rows(c, shown)
                    BY <4>3
                <5>3. y.overlay[t] = Back(t, shown, x.target, newestFirst)
                    BY <3>1, <4>1
                <5>. QED
                    BY <3>1, <5>1, <5>2, <5>3, Zenon DEF Back
            <4>5. y.read \in [Catalogs -> Nat] /\ \A c \in Catalogs : y.read[c] <= Len(meta[c])
                BY <3>1, <4>1, <4>3
            <4>. QED
                BY <4>4, <4>5 DEF Led
        <3>6. Way(y, lake, meta)
            BY <3>1, <3>3, <3>5 DEF Way, NoRenames
        <3>. QED
            BY <3>4, <3>6
    <2>. QED
        BY <1>1, <2>1, <2>2, Zenon
<1>3. Steps(p, y) /\ UNCHANGED <<lake, meta>>
    BY <1>1, Zenon DEF Start
<1>4. Moves(p, y) /\ Level(y, lake') /\ Way(y, lake', meta')
    BY <1>2, <1>3 DEF Moves, Steps
<1>. QED
    BY <1>3, <1>4, LevelsStill, LevelsKeep

LEMMA LevelsApply == ASSUME IInv, Levels, NEW p \in Operators, Apply(p) PROVE Levels'
BY ApplyIs, LevelsStart

LEMMA LevelsRollback == ASSUME IInv, Levels, NEW p \in Operators, Rollback(p) PROVE Levels'
BY RollbackIs, LevelsStart

LEMMA LevelsDiffNext == ASSUME IInv, Levels, NEW p \in Operators, DiffNext(p) PROVE Levels'
<1>1. PICK x : x = run[p]
    OBVIOUS
<1>2. PICK t : t = Tables[x.at]
    OBVIOUS
<1>3. PICK live : live = lake[t]
    OBVIOUS
<1>4. PICK want : want = Overlaid(x, t)
    OBVIOUS
<1>5. UNCHANGED <<lake, meta, files, begun, edits>> /\ GoesOn(p, x, t, want)
    BY <1>1, <1>2, <1>4, DiffNextIs, Zenon
<1>6. PICK y, missed :
         /\ Steps(p, y) /\ missed \subseteq {t}
         /\ Diffed(x, y, t, Finding(x, t, want, Shown(t, missed)), Leaving(x, t, want, Shown(t, missed)))
         /\ y.found = [x.found EXCEPT ![t] = IF x.rollback THEN lake[t] ELSE @]
         /\ y.missed = x.missed \cup missed
    BY <1>5, Zenon DEF GoesOn
<1>7. PICK found, left :
         /\ found = Finding(x, t, want, Shown(t, missed)) /\ left = Leaving(x, t, want, Shown(t, missed))
         /\ Diffed(x, y, t, found, left)
    <2>1. \E f, k : /\ f = Finding(x, t, want, Shown(t, missed)) /\ k = Leaving(x, t, want, Shown(t, missed))
                    /\ Diffed(x, y, t, f, k)
        BY <1>6, Zenon
    <2>. QED
        BY <2>1, Zenon
<1>8. Shape(x) /\ Stage(x) /\ Level(x, lake) /\ Way(x, lake, meta) /\ x.pc = "diff"
    BY <1>1 DEF IInv, Levels, DiffNext
<1>9. /\ y.spec = x.spec /\ y.overlay = x.overlay /\ y.landed = {} /\ x.landed = {}
      /\ y.overtaken = x.overtaken /\ y.failed = x.failed
      /\ y.plan = [x.plan EXCEPT ![t] = found] /\ DOMAIN x.plan = TableSet
      /\ y.rollback = x.rollback /\ y.read = x.read /\ y.target = x.target
    BY <1>7, <1>8 DEF Diffed, SameBut, Fields, Idle, Stage, Unbegun, Shape
<1>10. x.at \in 1 .. Len(Tables) /\ Len(Tables) \in Nat /\ t \in TableSet
    BY <1>2, <1>8, TablesAre DEF Shape
<1>11. Sound(y) /\ Sound(x) /\ \A u : Overlaid(y, u) = Overlaid(x, u)
    BY <1>8, <1>9, SoundKept DEF Level
(* What it has come to is this table, and what it had come to. *)
<1>12. ASSUME NEW u \in TableSet, u # t, Reached(y, u) PROVE Reached(x, u)
    <2>1. PICK i \in DOMAIN Tables : u = Tables[i]
        BY TablesAre
    <2>2. CASE y.pc = "diff"
        <3>1. y.at = x.at + 1
            BY <1>7, <2>2 DEF Diffed
        <3>2. PICK j \in 1 .. y.at - 1 : u = Tables[j]
            BY <1>12, <2>2 DEF Reached
        <3>3. j # x.at
            BY <1>2, <1>12, <3>2
        <3>4. j \in 1 .. x.at - 1
            BY <1>10, <3>1, <3>2, <3>3
        <3>. QED
            BY <3>2, <3>4 DEF Reached
    <2>3. CASE y.pc # "diff"
        <3>1. ~ (x.at < Len(Tables))
            BY <1>7, <2>3 DEF Diffed
        <3>2. i # x.at
            BY <1>2, <1>12, <2>1
        <3>3. i \in 1 .. x.at - 1
            BY <1>10, <2>1, <3>1, <3>2, TablesAre
        <3>. QED
            BY <2>1, <3>3 DEF Reached
    <2>. QED
        BY <2>2, <2>3
<1>13. ASSUME t \in Targets(x.spec) PROVE PlannedFor(found, want, live) /\ y.plan[t] = found
    <2>1. found = DiffTable(want, Shown(t, missed))
        BY <1>7, <1>13, Zenon DEF Finding
    <2>2. Shown(t, missed) = live \/ Shown(t, missed) = << >>
        BY <1>3 DEF Shown
    <2>3. PlannedFor(found, want, live)
        BY <2>1, <2>2, Zenon DEF PlannedFor
    <2>. QED
        BY <1>9, <1>10, <2>3
<1>14. ASSUME ~ y.overtaken, ~ y.failed, NEW u \in Targets(y.spec), Reached(y, u)
       PROVE  PlannedFor(y.plan[u], Overlaid(y, u), lake[u])
    <2>1. u \in TableSet /\ u \in Targets(x.spec)
        BY <1>9, <1>14 DEF Targets
    <2>2. CASE u = t
        BY <1>3, <1>4, <1>11, <1>13, <2>1, <2>2
    <2>3. CASE u # t
        <3>1. PlannedFor(x.plan[u], Overlaid(x, u), lake[u])
            BY <1>8, <1>9, <1>12, <1>14, <2>1, <2>3 DEF Level
        <3>. QED
            BY <1>9, <1>11, <2>1, <2>3, <3>1
    <2>. QED
        BY <2>2, <2>3
<1>15. Level(y, lake)
    BY <1>9, <1>11, <1>14 DEF Level
<1>16. HistoriesOK(meta) /\ Appended(meta, meta) /\ Lasts(lake, meta) /\ LakeOK(lake)
    BY GroundIs DEF IInv, Levels
<1>17. /\ DOMAIN x.found = TableSet /\ DOMAIN y.found = TableSet
       /\ \A u \in TableSet : u # t => y.found[u] = x.found[u]
       /\ x.rollback => y.found[t] = live
    BY <1>3, <1>6, <1>8, <1>10 DEF Way
<1>18. ASSUME x.rollback PROVE Led(x, meta) /\ Led(y, meta)
    <2>1. Led(x, meta)
        BY <1>8, <1>18 DEF Way
    <2>. QED
        BY <1>9, <1>16, <2>1, LedKept
<1>19. ASSUME x.rollback, NEW u \in Targets(y.spec), Reached(y, u) PROVE FoundAs(y, lake, meta, u)
    <2>1. u \in TableSet /\ u \in Targets(x.spec)
        BY <1>9, <1>19 DEF Targets
    <2>2. CASE u = t
        <3>1. y.found[t] = lake[t] /\ Live(lake[t]) /\ t \notin y.landed
            <4>1. Live(lake[t])
                BY <1>10, <1>16 DEF LakeOK
            <4>2. y.found[t] = lake[t]
                BY <1>3, <1>17, <1>19
            <4>3. t \notin y.landed
                BY <1>9
            <4>. QED
                BY <4>1, <4>2, <4>3
        <3>2. PlannedFor(y.plan[t], Overlaid(y, t), lake[t])
            BY <1>3, <1>4, <1>11, <1>13, <2>1, <2>2
        <3>3. ASSUME NEW i \in 1 .. y.read[CatalogOf[t]]
              PROVE  Ids(meta[CatalogOf[t]][i].live[t]) \subseteq Ids(lake[t])
            <4>1. PICK c \in Catalogs : c = CatalogOf[t]
                BY <1>10, TablesAre
            <4>2. i \in 1 .. Len(meta[c])
                BY <1>16, <1>18, <1>19, <4>1 DEF Led, Appended
            <4>. QED
                BY <1>10, <1>16, <4>1, <4>2 DEF Lasts
        <3>. QED
            BY <2>2, <3>1, <3>2, <3>3 DEF FoundAs
    <2>3. CASE u # t
        <3>1. FoundAs(x, lake, meta, u)
            BY <1>8, <1>12, <1>19, <2>1, <2>3 DEF Way
        <3>2. y.plan[u] = x.plan[u] /\ y.found[u] = x.found[u]
            <4>1. y.found[u] = x.found[u]
                BY <1>17, <2>1, <2>3
            <4>2. y.plan = [x.plan EXCEPT ![t] = found] /\ DOMAIN x.plan = TableSet
                BY <1>9
            <4>3. y.plan[u] = x.plan[u]
                BY <2>1, <2>3, <4>2
            <4>. QED
                BY <4>1, <4>3
        <3>. QED
            BY <1>9, <1>11, <3>1, <3>2 DEF FoundAs
    <2>. QED
        BY <2>2, <2>3
<1>20. Way(y, lake, meta)
    BY <1>9, <1>17, <1>18, <1>19 DEF Way
<1>21. UNCHANGED <<lake, meta>> /\ Moves(p, y)
    BY <1>5, <1>6 DEF Moves, Steps
<1>22. Level(y, lake') /\ Way(y, lake', meta')
    BY <1>15, <1>20, <1>21
<1>. QED
    BY <1>21, <1>22, LevelsStill, LevelsKeep

LEMMA LevelsBegin == ASSUME IInv, Levels, NEW p \in Operators, Begin(p) PROVE Levels'
<1>1. PICK x : x = run[p]
    OBVIOUS
<1>2. PICK snap : snap = IF x.rollback THEN x.spec ELSE files
    OBVIOUS
<1>3. PICK newestFirst, unseen, unread :
         Missing(unseen \cup unread) /\ Steps(p, Decided(x, snap, unseen, unread, newestFirst))
    BY <1>1, <1>2, BeginIs, Zenon
<1>4. PICK version : version = Version(x, unseen)
    OBVIOUS
<1>5. DOMAIN x = Fields /\ x.pc = "confirm"
    BY <1>1 DEF IInv, Shape, Begin
<1>6. PICK base : base = [c \in Catalogs |-> Len(Rows(c, Catalogs \ unseen))]
    OBVIOUS
<1>7. PICK pending : pending = Pending(x, snap, unread, newestFirst)
    OBVIOUS
<1>8. PICK chosen : chosen = [x EXCEPT !.snap = snap, !.version = version, !.pending = pending, !.base = base]
    OBVIOUS
<1>9. PICK y : y = IF BeginRefused(x) THEN Finish(x, "refused")
                   ELSE IF Changes(x) = {} /\ pending = {} THEN Finish(chosen, "up-to-date")
                   ELSE Onward(chosen, 1)
    OBVIOUS
<1>10. Steps(p, y)
    BY <1>3, <1>4, <1>6, <1>7, <1>8, <1>9, Zenon DEF Decided
<1>11. Steady(x, chosen) /\ DOMAIN chosen = Fields
    BY <1>5, <1>8 DEF Steady, Fields, Idle
<1>12. y = Finish(x, "refused") \/ y = Finish(chosen, "up-to-date") \/ y = Onward(chosen, 1)
    BY <1>9, Zenon
<1>13. Steady(x, y)
    <2>1. CASE y = Finish(x, "refused")
        BY <1>5, <2>1, FinishSteady
    <2>2. CASE y = Finish(chosen, "up-to-date")
        <3>1. Steady(chosen, y)
            BY <1>11, <2>2, FinishSteady
        <3>. QED
            BY <1>11, <3>1 DEF Steady
    <2>3. CASE y = Onward(chosen, 1)
        <3>1. Steady(chosen, y)
            BY <1>11, <2>3, OnwardSteady
        <3>. QED
            BY <1>11, <3>1 DEF Steady
    <2>. QED
        BY <1>12, <2>1, <2>2, <2>3
<1>14. UNCHANGED <<lake, meta>>
    BY DEF Begin
<1>. QED
    BY <1>1, <1>5, <1>10, <1>13, <1>14, LevelsStill, SteadyKeeps

LEMMA LevelsTableFails == ASSUME IInv, Levels, NEW p \in Operators, TableFails(p) PROVE Levels'
<1>1. PICK x : x = run[p]
    OBVIOUS
<1>2. PICK y : y = AfterTable(x, FALSE)
    OBVIOUS
<1>3. DOMAIN x = Fields /\ x.pc = "execute"
    BY <1>1 DEF IInv, Shape, TableFails, Executing
<1>4. Steady(x, y)
    <2>1. PICK tried : tried = x.tried \cup {Tables[x.at]}
        OBVIOUS
    <2>2. y = [[x EXCEPT !.tried = tried, !.failed = TRUE, !.landed = x.landed] EXCEPT !.pc = "record"]
        <3>1. Tried(x, FALSE) = [x EXCEPT !.tried = tried, !.failed = TRUE, !.landed = x.landed]
            BY <1>3, <2>1 DEF Tried, Fields, Idle
        <3>. QED
            BY <1>2, <3>1 DEF AfterTable
    <2>. QED
        BY <1>3, <2>2 DEF Steady, Fields, Idle
<1>5. Steps(p, y) /\ UNCHANGED <<lake, meta>>
    BY <1>1, <1>2 DEF TableFails
<1>. QED
    BY <1>1, <1>3, <1>4, <1>5, LevelsStill, SteadyKeeps

LEMMA RecordedSteady ==
    ASSUME IInv, Levels, NEW p \in Operators, run[p].pc = "record", NEW wrote, NEW ok \in BOOLEAN,
           NEW y, y = Recorded([run[p] EXCEPT !.wrote = wrote], ok), Steps(p, y), UNCHANGED lake,
           HistoriesOK(meta'), Appended(meta, meta'), Lasts(lake', meta')
    PROVE  Levels'
<1>1. PICK x : x = run[p]
    OBVIOUS
<1>2. Shape(x) /\ Stage(x) /\ x.pc = "record"
    BY <1>1 DEF IInv
<1>3. SameBut(x, y, {"pc", "status", "pending", "unrecorded", "wrote"})
    BY <1>1, <1>2, RecordedStage
<1>4. Steady(x, y)
    BY <1>3 DEF SameBut, Fields, Idle, Steady
<1>. QED
    BY <1>1, <1>2, <1>4, SteadyKeeps

(* The renames a run records are finitely many. *)
LEMMA RenamesOfFinite ==
    ASSUME NEW x, Shape(x), Stage(x), x.pc = "record", NEW c
    PROVE  IsFiniteSet(RenamesOf(x, c))
<1>. DEFINE of == {u \in x.tried : CatalogOf[u] = c}
            each(u) == {[table |-> u, new |-> r.column, old |-> r.from] : r \in OfKind(x.plan[u], "rename")}
<1>1. x.tried \subseteq Changes(x)
    BY DEF Stage, Whole, Halted, UpTo
<1>2. IsFiniteSet(of)
    <2>1. IsFiniteSet(DOMAIN Tables)
        BY TablesAre, FS_Interval
    <2>2. IsFiniteSet({Tables[i] : i \in DOMAIN Tables})
        BY <2>1, ImageFinite
    <2>3. of \subseteq {Tables[i] : i \in DOMAIN Tables}
        BY <1>1 DEF Changes, TableSet
    <2>. QED
        BY <2>2, <2>3, FS_Subset
<1>3. ASSUME NEW u \in of PROVE IsFiniteSet(each(u))
    <2>1. u \in TableSet /\ x.plan[u].action # "none"
        BY <1>1 DEF Changes
    <2>2. IsFiniteSet(x.plan[u].columns)
        BY <2>1 DEF Shape, WellPlanned
    <2>3. PICK R : R = OfKind(x.plan[u], "rename")
        OBVIOUS
    <2>4. IsFiniteSet(R)
        BY <2>2, <2>3, FS_Subset DEF OfKind
    <2>5. PICK f : f = [r \in R |-> [table |-> u, new |-> r.column, old |-> r.from]]
        OBVIOUS
    <2>6. DOMAIN f = R /\ {f[r] : r \in DOMAIN f} = each(u)
        BY <2>3, <2>5
    <2>. HIDE DEF each
    <2>. QED
        BY <2>4, <2>6, ImageFinite
<1>4. IsFiniteSet({each(u) : u \in of})
    <2>. HIDE DEF each, of
    <2>1. PICK f : f = [u \in of |-> each(u)]
        OBVIOUS
    <2>2. DOMAIN f = of /\ {f[u] : u \in DOMAIN f} = {each(u) : u \in of}
        BY <2>1
    <2>. QED
        BY <1>2, <2>2, ImageFinite
<1>5. IsFiniteSet(UNION {each(u) : u \in of})
    <2>. HIDE DEF each, of
    <2>1. \A T \in {each(u) : u \in of} : IsFiniteSet(T)
        BY <1>3
    <2>. QED
        BY <1>4, <2>1, FS_UNION
<1>. QED
    BY <1>5 DEF RenamesOf

(* The row that is appended holds the tables as they are. *)
LEMMA LevelsRecordLands ==
    ASSUME IInv, Levels, NEW p \in Operators, NEW answered \in BOOLEAN, RecordLands(p, answered)
    PROVE  Levels'
<1>1. PICK x : x = run[p]
    OBVIOUS
<1>2. PICK c : c = NextCatalog(x)
    OBVIOUS
<1>3. PICK row : row = Row(x, c)
    OBVIOUS
<1>4. PICK wrote : wrote = x.wrote \cup {<<c, Len(meta[c]) + 1>>}
    OBVIOUS
<1>5. PICK y : y = Recorded([x EXCEPT !.wrote = wrote], answered)
    OBVIOUS
<1>6. Shape(x) /\ Stage(x) /\ x.pc = "record"
    BY <1>1 DEF IInv, RecordLands
<1>7. Steps(p, y) /\ UNCHANGED lake /\ meta' = [meta EXCEPT ![c] = Append(@, row)]
    BY <1>1, <1>2, <1>3, <1>4, <1>5 DEF RecordLands
<1>8. HistoriesOK(meta) /\ HistoriesOK(meta') /\ Lasts(lake, meta) /\ LakeOK(lake)
    BY RecordLandsStep DEF IInv, Levels
<1>9. c \in Catalogs
    <2>1. c \in x.pending
        BY <1>2, <1>6, NextCatalogIs DEF Stage
    <2>2. x.pending \subseteq Bound(x) /\ Bound(x) \subseteq Catalogs
        BY <1>6 DEF Shape, Bound, Catalogs, Targets
    <2>. QED
        BY <2>1, <2>2
<1>10. /\ \A d \in Catalogs : d # c => meta'[d] = meta[d]
       /\ Len(meta[c]) \in Nat /\ Len(meta'[c]) = Len(meta[c]) + 1
       /\ \A i \in 1 .. Len(meta[c]) : meta'[c][i] = meta[c][i]
       /\ meta'[c][Len(meta[c]) + 1] = row
    BY <1>7, <1>8, <1>9, Lengthened
<1>11. \A t \in TableSet : CatalogOf[t] = c => row.live[t] = lake[t]
    BY <1>3 DEF Row
<1>12. row.renames = RenamesOf(x, c) /\ IsFiniteSet(RenamesOf(x, c))
    BY <1>3, <1>6, RenamesOfFinite DEF Row
<1>13. Lasts(lake', meta')
    <2>1. ASSUME NEW t \in TableSet, NEW rows, rows = meta'[CatalogOf[t]], NEW i \in 1 .. Len(rows)
          PROVE  /\ IsFiniteSet(rows[i].renames) /\ Live(rows[i].live[t])
                 /\ Ids(rows[i].live[t]) \subseteq Ids(lake[t])
                 /\ \A j \in 1 .. i : Ids(rows[j].live[t]) \subseteq Ids(rows[i].live[t])
        <3>1. PICK had : had = meta[CatalogOf[t]]
            OBVIOUS
        <3>2. \A k \in 1 .. Len(had) :
                 /\ IsFiniteSet(had[k].renames) /\ Live(had[k].live[t])
                 /\ Ids(had[k].live[t]) \subseteq Ids(lake[t])
                 /\ \A j \in 1 .. k : Ids(had[j].live[t]) \subseteq Ids(had[k].live[t])
            BY <1>8, <3>1 DEF Lasts
        <3>3. CatalogOf[t] \in Catalogs
            BY TablesAre
        <3>4. CASE CatalogOf[t] # c
            BY <1>10, <2>1, <3>1, <3>2, <3>3, <3>4
        <3>5. CASE CatalogOf[t] = c
            <4>1. /\ Len(had) \in Nat /\ Len(rows) = Len(had) + 1
                  /\ \A j \in 1 .. Len(had) : rows[j] = had[j]
                  /\ rows[Len(had) + 1] = row
                <5>1. rows = meta'[c] /\ had = meta[c]
                    BY <2>1, <3>1, <3>5
                <5>. QED
                    BY <1>10, <5>1
            <4>2. CASE i \in 1 .. Len(had)
                <5>1. \A j \in 1 .. i : j \in 1 .. Len(had)
                    BY <4>1, <4>2
                <5>. QED
                    BY <3>2, <4>1, <4>2, <5>1
            <4>3. CASE i = Len(had) + 1
                <5>1. rows[i].live[t] = lake[t] /\ Live(lake[t])
                    BY <1>8, <1>11, <3>5, <4>1, <4>3 DEF LakeOK
                <5>2. \A j \in 1 .. i : j \in 1 .. Len(had) \/ j = i
                    BY <4>1, <4>3
                <5>3. \A j \in 1 .. Len(had) : Ids(rows[j].live[t]) \subseteq Ids(lake[t])
                    BY <3>2, <4>1
                <5>4. IsFiniteSet(rows[i].renames)
                    BY <1>12, <4>1, <4>3
                <5>. QED
                    BY <5>1, <5>2, <5>3, <5>4
            <4>. QED
                BY <2>1, <4>1, <4>2, <4>3
        <3>. QED
            BY <3>4, <3>5
    <2>. QED
        BY <1>7, <2>1 DEF Lasts
<1>14. PICK ok \in BOOLEAN : ok = answered
    OBVIOUS
<1>15. y = Recorded([run[p] EXCEPT !.wrote = wrote], ok)
    BY <1>1, <1>5, <1>14, Zenon
<1>16. run[p].pc = "record"
    BY <1>1, <1>6
<1>17. Steps(p, y) /\ UNCHANGED lake
    BY <1>7
<1>18. HistoriesOK(meta') /\ Appended(meta, meta')
    BY <1>7, <1>8, <1>9, Lengthened
<1>. QED
    BY <1>13, <1>15, <1>16, <1>17, <1>18, RecordedSteady

LEMMA LevelsRecordFails == ASSUME IInv, Levels, NEW p \in Operators, RecordFails(p) PROVE Levels'
<1>1. PICK x : x = run[p]
    OBVIOUS
<1>2. PICK y : y = Recorded(x, FALSE)
    OBVIOUS
<1>3. DOMAIN x = Fields /\ x.pc = "record"
    BY <1>1 DEF IInv, Shape, RecordFails
<1>4. y = Recorded([x EXCEPT !.wrote = x.wrote], FALSE)
    <2>1. PICK w : w = [x EXCEPT !.wrote = x.wrote]
        OBVIOUS
    <2>2. w.pending = x.pending /\ w.spec = x.spec /\ w.unrecorded = x.unrecorded
        BY <1>3, <2>1 DEF Fields, Idle
    <2>3. NextCatalog(w) = NextCatalog(x)
        BY <2>2, Zenon DEF NextCatalog
    <2>4. PICK c : c = NextCatalog(x)
        OBVIOUS
    <2>5. [w EXCEPT !.pending = @ \ {c}, !.unrecorded = @ \/ ~ FALSE]
            = [x EXCEPT !.pending = @ \ {c}, !.unrecorded = @ \/ ~ FALSE]
        BY <1>3, <2>1, <2>2 DEF Fields, Idle
    <2>. QED
        BY <1>2, <2>1, <2>3, <2>4, <2>5, Zenon DEF Recorded
<1>5. PICK wrote : wrote = run[p].wrote
    OBVIOUS
<1>6. PICK ok \in BOOLEAN : ok = FALSE
    OBVIOUS
<1>7. y = Recorded([run[p] EXCEPT !.wrote = wrote], ok)
    BY <1>1, <1>4, <1>5, <1>6, Zenon
<1>8. run[p].pc = "record" /\ Steps(p, y) /\ UNCHANGED <<lake, meta>>
    BY <1>1, <1>2 DEF RecordFails
<1>. QED
    BY <1>7, <1>8, LevelsStill, RecordedSteady

(* A table that was tried changes what was tried, what landed and where the run is. *)
Tabled(x, y) ==
    /\ y.spec = x.spec /\ y.overlay = x.overlay /\ y.plan = x.plan
    /\ y.overtaken = x.overtaken /\ y.rollback = x.rollback /\ y.target = x.target
    /\ y.read = x.read /\ y.found = x.found
    /\ y.failed = TRUE \/ y.landed = x.landed \cup {Tables[x.at]}
    /\ y.pc # "diff"

LEMMA AfterTableLevel ==
    ASSUME NEW x, DOMAIN x = Fields, NEW ok \in BOOLEAN, NEW y, y = AfterTable(x, ok)
    PROVE  Tabled(x, y)
<1>1. PICK t : t = Tables[x.at]
    OBVIOUS
<1>2. PICK tried : tried = x.tried \cup {t}
    OBVIOUS
<1>3. CASE ok
    <2>1. PICK z : z = Tried(x, TRUE)
        OBVIOUS
    <2>2. /\ z.spec = x.spec /\ z.overlay = x.overlay /\ z.plan = x.plan
          /\ z.overtaken = x.overtaken /\ z.rollback = x.rollback /\ z.target = x.target
          /\ z.read = x.read /\ z.found = x.found
          /\ z.landed = x.landed \cup {t} /\ DOMAIN z = Fields
        BY <1>1, <2>1 DEF Tried, Fields, Idle
    <2>3. PICK i : i = x.at + 1
        OBVIOUS
    <2>4. y = Onward(z, i)
        BY <1>3, <2>1, <2>3, Zenon DEF AfterTable
    <2>5. PICK at : at = CHOOSE j \in ChangesFrom(z, i) : \A k \in ChangesFrom(z, i) : j <= k
        OBVIOUS
    <2>6. CASE y = [z EXCEPT !.pc = "record"]
        BY <1>1, <2>2, <2>6 DEF Tabled, Fields, Idle
    <2>7. CASE y = [z EXCEPT !.pc = "execute", !.at = at]
        BY <1>1, <2>2, <2>7 DEF Tabled, Fields, Idle
    <2>. QED
        BY <2>4, <2>5, <2>6, <2>7, Zenon DEF Onward
<1>4. CASE ~ ok
    <2>1. Tried(x, FALSE) = [x EXCEPT !.tried = tried, !.failed = TRUE, !.landed = x.landed]
        BY <1>1, <1>2 DEF Tried, Fields, Idle
    <2>2. y = [[x EXCEPT !.tried = tried, !.failed = TRUE, !.landed = x.landed] EXCEPT !.pc = "record"]
        BY <1>4, <2>1 DEF AfterTable
    <2>. QED
        BY <2>2 DEF Tabled, Fields, Idle
<1>. QED
    BY <1>3, <1>4

(* The table that lands needs nothing more, and the others are as they were. *)
LEMMA LevelsTableLands ==
    ASSUME IInv, Levels, NEW p \in Operators, NEW answered \in BOOLEAN, TableLands(p, answered)
    PROVE  Levels'
<1>1. PICK x : x = run[p]
    OBVIOUS
<1>2. PICK t : t = Tables[x.at]
    OBVIOUS
<1>3. PICK y : y = AfterTable([x EXCEPT !.changed = x.changed \cup {t}], answered)
    OBVIOUS
<1>4. /\ Shape(x) /\ Stage(x) /\ Level(x, lake) /\ Way(x, lake, meta) /\ x.pc = "execute"
      /\ LakeOK(lake) /\ Lasts(lake, meta) /\ HistoriesOK(meta)
    BY <1>1 DEF IInv, Levels, TableLands, Executing
<1>5. /\ y.spec = x.spec /\ y.overlay = x.overlay /\ y.plan = x.plan /\ y.overtaken = x.overtaken
      /\ y.rollback = x.rollback /\ y.target = x.target /\ y.read = x.read /\ y.found = x.found
      /\ y.failed = TRUE \/ y.landed = x.landed \cup {t}
      /\ y.pc # "diff"
    <2>1. PICK now : now = x.changed \cup {t}
        OBVIOUS
    <2>2. PICK z : z = [x EXCEPT !.changed = now]
        OBVIOUS
    <2>3. /\ DOMAIN z = Fields /\ z.spec = x.spec /\ z.overlay = x.overlay /\ z.plan = x.plan
          /\ z.overtaken = x.overtaken /\ z.landed = x.landed /\ z.at = x.at
          /\ z.rollback = x.rollback /\ z.target = x.target /\ z.read = x.read /\ z.found = x.found
        BY <1>4, <2>2 DEF Shape, Fields, Idle
    <2>4. y = AfterTable(z, answered)
        BY <1>3, <2>1, <2>2, Zenon
    <2>5. Tabled(z, y)
        <3>1. DOMAIN z = Fields
            BY <2>3
        <3>2. PICK ok \in BOOLEAN : ok = answered
            OBVIOUS
        <3>3. y = AfterTable(z, ok)
            BY <2>4, <3>2
        <3>. QED
            BY <3>1, <3>3, AfterTableLevel
    <2>. QED
        BY <1>2, <2>3, <2>5 DEF Tabled
<1>6. Sound(y) /\ Sound(x) /\ \A u : Overlaid(y, u) = Overlaid(x, u)
    BY <1>4, <1>5, SoundKept DEF Level
<1>7. /\ x.at \in DOMAIN Tables /\ t \in TableSet /\ t \in Changes(x) /\ ~ Refused(x)
      /\ x.landed = UpTo(x, x.at - 1) /\ ~ x.failed
      /\ Changes(x) \subseteq Targets(x.spec) /\ x.spec \in Specs
    BY <1>2, <1>4, TablesAre DEF Stage, Shape, Changes
<1>8. t \notin x.landed
    BY <1>2, <1>7, UpToAdds
<1>9. Contested(y) <=> Contested(x)
    BY <1>5 DEF Contested
<1>10. PICK change : change = x.plan[t]
    OBVIOUS
<1>11. PICK live : live = lake[t]
    OBVIOUS
<1>12. Accepts(live, change) /\ lake' = [lake EXCEPT ![t] = Altered(live, change)]
    BY <1>1, <1>2, <1>10, <1>11 DEF TableLands, NextChange
<1>13. /\ DOMAIN lake = TableSet /\ Live(live) /\ lake'[t] = Altered(live, change)
       /\ \A u \in TableSet : u # t => lake'[u] = lake[u]
    BY <1>4, <1>7, <1>11, <1>12 DEF LakeOK
<1>14. ASSUME ~ x.overtaken, ~ Contested(x)
       PROVE  DiffTable(Overlaid(x, t), lake'[t]) = NoChange
    <2>1. PICK want : want = Overlaid(x, t)
        OBVIOUS
    <2>2. t \in Targets(x.spec) /\ Reached(x, t)
        BY <1>4, <1>7 DEF Reached
    <2>3. change = DiffTable(want, live)
        <3>1. PlannedFor(change, want, live)
            BY <1>4, <1>7, <1>8, <1>10, <1>11, <1>14, <2>1, <2>2 DEF Level
        <3>. QED
            BY <1>12, <3>1, PlannedAccepts
    <2>4. Columns(want) /\ want # << >> /\ Renamable(want)
        BY <1>6, <1>7, <2>1, <2>2, OverlaidIs
    <2>5. ~ Breaking(change) /\ change.action # "none"
        BY <1>7, <1>10 DEF Refused, Changes
    <2>6. \A r, s \in OfKind(change, "rename") : r.from = s.from => r = s
        BY <1>7, <1>10, <1>14 DEF Contested
    <2>7. DiffTable(want, Altered(live, change)) = NoChange
        BY <1>12, <1>13, <2>3, <2>4, <2>5, <2>6, AppliedSettles
    <2>. QED
        BY <1>13, <2>1, <2>7
<1>15. ASSUME ~ y.overtaken, ~ y.failed, NEW u \in Targets(y.spec)
       PROVE  IF u \in y.landed
              THEN ~ Contested(y) => DiffTable(Overlaid(y, u), lake'[u]) = NoChange
              ELSE Reached(y, u) => PlannedFor(y.plan[u], Overlaid(y, u), lake'[u])
    <2>1. y.landed = x.landed \cup {t} /\ ~ x.overtaken /\ u \in Targets(x.spec)
        BY <1>5, <1>15
    <2>2. CASE u = t
        BY <1>6, <1>9, <1>14, <2>1, <2>2
    <2>3. CASE u # t
        <3>1. lake'[u] = lake[u]
            BY <1>13, <2>1, <2>3 DEF Targets
        <3>2. IF u \in x.landed
              THEN ~ Contested(x) => DiffTable(Overlaid(x, u), lake[u]) = NoChange
              ELSE Reached(x, u) => PlannedFor(x.plan[u], Overlaid(x, u), lake[u])
            BY <1>4, <1>7, <2>1 DEF Level
        <3>3. Reached(x, u)
            BY <1>4 DEF Reached
        <3>4. u \in y.landed <=> u \in x.landed
            BY <2>1, <2>3
        <3>. QED
            BY <1>5, <1>6, <1>9, <3>1, <3>2, <3>3, <3>4
    <2>. QED
        BY <2>2, <2>3
<1>16. Level(y, lake')
    BY <1>6, <1>15, Zenon DEF Level
<1>17. Moves(p, y) /\ meta' = meta
    BY <1>1, <1>2, <1>3 DEF TableLands, Moves, Overtake
<1>18. ASSUME NEW u \in TableSet PROVE Ids(lake[u]) \subseteq Ids(lake'[u])
    <2>1. CASE u = t
        <3>1. WellPlanned(change) /\ change.action \in {"create", "alter"}
            BY <1>4, <1>7, <1>10 DEF Shape, Changes, WellPlanned
        <3>2. \A c \in DOMAIN live : \E d \in DOMAIN Altered(live, change) :
                 Altered(live, change)[d].id = live[c].id
            BY <1>12, <1>13, <3>1, AlteredLosesNothing
        <3>3. lake[u] = live /\ lake'[u] = Altered(live, change)
            BY <1>11, <1>13, <2>1
        <3>. QED
            BY <3>2, <3>3 DEF Ids
    <2>2. CASE u # t
        BY <1>13, <2>2
    <2>. QED
        BY <2>1, <2>2
<1>19. Lasts(lake', meta)
    BY <1>4, <1>18 DEF Lasts
<1>20. ASSUME x.rollback, NEW u \in Targets(x.spec) PROVE FoundAs(y, lake', meta, u)
    <2>1. FoundAs(x, lake, meta, u) /\ u \in TableSet
        BY <1>4, <1>20 DEF Way, Reached, Targets
    <2>2. ASSUME ~ y.overtaken, ~ y.failed
          PROVE  IF u \in y.landed
                 THEN /\ Accepts(y.found[u], y.plan[u]) /\ ~ Breaking(y.plan[u])
                      /\ lake'[u] = Altered(y.found[u], y.plan[u])
                 ELSE lake'[u] = y.found[u]
        <3>1. y.landed = x.landed \cup {t} /\ ~ x.overtaken /\ ~ x.failed
            BY <1>5, <1>7, <2>2
        <3>2. IF u \in x.landed
              THEN Accepts(x.found[u], x.plan[u]) /\ ~ Breaking(x.plan[u]) /\ lake[u] = Altered(x.found[u], x.plan[u])
              ELSE lake[u] = x.found[u]
            BY <2>1, <3>1 DEF FoundAs
        <3>3. CASE u = t
            <4>1. x.found[u] = live /\ x.plan[u] = change /\ u \in y.landed
                BY <1>8, <1>10, <1>11, <3>1, <3>2, <3>3
            <4>2. ~ Breaking(change)
                BY <1>7, <1>10 DEF Refused
            <4>. QED
                BY <1>5, <1>12, <1>13, <3>3, <4>1, <4>2
        <3>4. CASE u # t
            <4>1. lake'[u] = lake[u] /\ (u \in y.landed <=> u \in x.landed)
                BY <1>13, <2>1, <3>1, <3>4
            <4>. QED
                BY <1>5, <3>2, <4>1
        <3>. QED
            BY <3>3, <3>4
    <2>3. /\ Live(y.found[u]) /\ PlannedFor(y.plan[u], Overlaid(y, u), y.found[u])
          /\ \A i \in 1 .. y.read[CatalogOf[u]] : Ids(meta[CatalogOf[u]][i].live[u]) \subseteq Ids(y.found[u])
        BY <1>5, <1>6, <2>1 DEF FoundAs
    <2>. QED
        BY <2>2, <2>3 DEF FoundAs
<1>21. ASSUME x.rollback PROVE Led(y, meta)
    <2>1. Led(x, meta) /\ Appended(meta, meta) /\ HistoriesOK(meta)
        BY <1>4, <1>21, GroundIs DEF Way
    <2>. QED
        BY <1>5, <2>1, LedKept
<1>22. Way(y, lake', meta)
    BY <1>4, <1>5, <1>20, <1>21 DEF Way
<1>23. /\ HistoriesOK(meta') /\ Appended(meta, meta') /\ Lasts(lake', meta') /\ Way(y, lake', meta')
    BY <1>4, <1>17, <1>19, <1>22, GroundIs
<1>. QED
    BY <1>16, <1>17, <1>23, LevelsKeep

LEMMA LevelsInit == Init => Levels
<1>. SUFFICES ASSUME Init PROVE Levels
    OBVIOUS
<1>1. \A x, l : x.pc = "idle" => Level(x, l)
    BY DEF Level
<1>2. \A p \in Operators : run[p] = Idle
    BY DEF Init
<1>3. \A t \in TableSet : meta[CatalogOf[t]] = << >>
    BY TablesAre DEF Init
<1>4. Lasts(lake, meta)
    BY <1>3 DEF Lasts
<1>. QED
    BY <1>1, <1>2, <1>4, IdleIs, IdleWay DEF Levels

LEMMA LevelsNext == IInv /\ Levels /\ [Next]_vars => Levels'
<1>. SUFFICES ASSUME IInv, Levels, [Next]_vars PROVE Levels'
    OBVIOUS
<1>1. CASE UNCHANGED vars
    <2>1. lake' = lake /\ run' = run /\ meta' = meta
        BY <1>1 DEF vars
    <2>. QED
        BY <2>1 DEF Levels
<1>2. ASSUME NEW p \in Operators, Apply(p) PROVE Levels'
    BY <1>2, LevelsApply
<1>3. ASSUME NEW p \in Operators, Rollback(p) PROVE Levels'
    BY <1>3, LevelsRollback
<1>4. ASSUME NEW p \in Operators, DiffNext(p) PROVE Levels'
    BY <1>4, LevelsDiffNext
<1>5. ASSUME NEW p \in Operators, Decline(p) PROVE Levels'
    BY <1>5, LevelsDecline
<1>6. ASSUME NEW p \in Operators, Begin(p) PROVE Levels'
    BY <1>6, LevelsBegin
<1>7. ASSUME NEW p \in Operators, TableFails(p) PROVE Levels'
    BY <1>7, LevelsTableFails
<1>8. ASSUME NEW p \in Operators, RecordFails(p) PROVE Levels'
    BY <1>8, LevelsRecordFails
<1>9. ASSUME NEW p \in Operators, Restore(p) PROVE Levels'
    BY <1>9, LevelsRestore
<1>10. ASSUME NEW p \in Operators, Die(p) PROVE Levels'
    BY <1>10, LevelsDie
<1>11. ASSUME NEW p \in Operators, NEW answered \in BOOLEAN, TableLands(p, answered) PROVE Levels'
    BY <1>11, LevelsTableLands
<1>12. ASSUME NEW p \in Operators, NEW answered \in BOOLEAN, RecordLands(p, answered) PROVE Levels'
    BY <1>12, LevelsRecordLands
<1>13. CASE Edit
    BY <1>13, LevelsEdit
<1>. QED
    BY <1>1, <1>2, <1>3, <1>4, <1>5, <1>6, <1>7, <1>8, <1>9, <1>10, <1>11, <1>12, <1>13 DEF Next

(* A run that was applied has landed what it planned, and planned all there was. *)
LEMMA ExecutedIsWhole ==
    ASSUME NEW x, Shape(x), Stage(x), Executed(x), ~ x.failed
    PROVE  x.landed = Changes(x) /\ x.pc \notin {"idle", "dead", "diff"} /\ x.spec \in Specs
BY DEF Executed, Stage, Whole, Halted, Shape

(* For any specs, any lake, any interleaving and any failures: a run that was applied  *)
(* and not overtaken leaves nothing to plan for its spec, and, where each property had *)
(* a column to plan, nothing for the check of the live tables to complain of.          *)
THEOREM AppliedIsLive == Spec => []AppliedMeansLive
<1>1. Init => IInv /\ Levels
    BY InitInv, LevelsInit
<1>2. IInv /\ Levels /\ [Next]_vars => IInv' /\ Levels'
    BY NextInv, LevelsNext
<1>3. ASSUME IInv, Levels, NEW p \in Operators, NEW x, x = run[p],
             Executed(x), ~ x.failed, ~ x.overtaken, ~ Contested(x), NEW t \in Targets(x.spec)
      PROVE  /\ DiffTable(Overlaid(x, t), lake[t]) = NoChange
             /\ Plannable(Ontology[x.spec]) => PhysicallySound(Ontology[x.spec], t, lake[t])
    <2>1. Shape(x) /\ Stage(x) /\ Level(x, lake) /\ t \in TableSet
        BY <1>3 DEF IInv, Levels, Targets
    <2>2. x.landed = Changes(x) /\ x.pc \notin {"idle", "dead", "diff"} /\ x.spec \in Specs
        BY <1>3, <2>1, ExecutedIsWhole
    <2>3. Sound(x) /\ Reached(x, t)
        BY <2>1, <2>2 DEF Level, Reached
    <2>4. PICK want : want = Overlaid(x, t)
        OBVIOUS
    <2>5. PICK live : live = lake[t]
        OBVIOUS
    <2>6. IF t \in x.landed THEN DiffTable(want, live) = NoChange
          ELSE PlannedFor(x.plan[t], want, live)
        BY <1>3, <2>1, <2>2, <2>3, <2>4, <2>5 DEF Level
    <2>7. DiffTable(want, live) = NoChange
        <3>1. CASE t \in x.landed
            BY <2>6, <3>1
        <3>2. CASE t \notin x.landed
            <4>1. DiffTable(want, live).action = "none"
                <5>1. x.plan[t].action = "none" /\ want # << >>
                    BY <1>3, <2>1, <2>2, <2>3, <2>4, <3>2, OverlaidIs DEF Changes
                <5>. QED
                    BY <2>6, <3>2, <5>1, PlannedAccepts
            <4>2. \A columns : /\ [action |-> "create", columns |-> columns].action # "none"
                               /\ [action |-> "alter", columns |-> columns].action # "none"
                OBVIOUS
            <4>. QED
                BY <4>1, <4>2, Zenon DEF DiffTable
        <3>. QED
            BY <3>1, <3>2
    <2>8. want # << >>
        BY <1>3, <2>2, <2>3, <2>4, OverlaidIs
    <2>9. Settled(want, live)
        BY <2>7, <2>8, SettledMeans
    <2>10. Plannable(Ontology[x.spec]) => PhysicallySound(Ontology[x.spec], t, live)
        BY <1>3, <2>2, <2>3, <2>4, <2>9, SettledIsSound
    <2>. QED
        BY <2>4, <2>5, <2>7, <2>10
<1>4. IInv /\ Levels => AppliedMeansLive
    <2>. SUFFICES ASSUME IInv, Levels PROVE AppliedMeansLive
        OBVIOUS
    <2>. QED
        BY <1>3, Zenon DEF AppliedMeansLive
<1>. QED
    BY <1>1, <1>2, <1>4, PTL DEF Spec

-----------------------------------------------------------------------------
(* The way back, of one table. times are its columns, as they were when each    *)
(* row was written and when the rollback found them; told are the renames of    *)
(* the rows after the k-th.                                                     *)

(* The column a rename is of. *)
IdOf(times, r) == times[r.row][r.new].id

(* Columns stay, no name passes from one to another, and the renames told are   *)
(* those that were made, row by row.                                            *)
Chronicle(times, last, k, told) ==
    /\ last \in Nat /\ k \in 1 .. last
    /\ \A i \in 1 .. last : \A n, m \in DOMAIN times[i] : times[i][n].id = times[i][m].id => n = m
    /\ \A i, j \in 1 .. last : i <= j => Ids(times[i]) \subseteq Ids(times[j])
    /\ \A i, j \in 1 .. last : \A n \in DOMAIN times[i] \cap DOMAIN times[j] : times[i][n].id = times[j][n].id
    /\ Len(told) \in Nat
    /\ \A j \in 1 .. Len(told) :
          /\ told[j].row \in k + 1 .. last
          /\ Became(times[told[j].row - 1], times[told[j].row], told[j].old, told[j].new)
    /\ \A i \in k + 1 .. last : \A n, m :
          Became(times[i - 1], times[i], n, m) /\ n # m =>
              \E j \in 1 .. Len(told) : told[j].row = i /\ told[j].old = n /\ told[j].new = m
    /\ \A j, h \in 1 .. Len(told) : j < h => told[j].row <= told[h].row
    /\ \A j, h \in 1 .. Len(told) :
          told[j].row = told[h].row /\ told[j].old = told[h].old /\ told[j].new = told[h].new => j = h

(* A set of numbers with a lesser one for each has none. *)
LEMMA NoneWithoutLesser ==
    ASSUME NEW S \in SUBSET Nat, \A n \in S : \E m \in S : m < n
    PROVE  S = {}
<1>1. ASSUME S # {} PROVE FALSE
    <2>1. PICK x \in S : \A y \in S : x <= y
        BY <1>1, LeastExists
    <2>2. PICK y \in S : y < x
        OBVIOUS
    <2>. QED
        BY <2>1, <2>2
<1>. QED
    BY <1>1

(* A column nothing is told of keeps its name. *)
LEMMA NameStays ==
    ASSUME NEW times, NEW last, NEW k, NEW told, Chronicle(times, last, k, told),
           NEW i \in k .. last, NEW upto \in i .. last, NEW n \in DOMAIN times[i],
           \A j \in 1 .. Len(told) : told[j].row \in i + 1 .. upto => IdOf(times, told[j]) # times[i][n].id
    PROVE  n \in DOMAIN times[upto] /\ times[upto][n].id = times[i][n].id
<1>. DEFINE Stays(h) == n \in DOMAIN times[h] /\ times[h][n].id = times[i][n].id
            Moved == {h \in i .. upto : ~ Stays(h)}
<1>1. last \in Nat /\ k \in 1 .. last /\ i \in Nat /\ upto \in Nat
    BY DEF Chronicle
<1>2. ASSUME NEW h \in Moved PROVE \E g \in Moved : g < h
    <2>1. h \in i .. upto /\ h # i
        OBVIOUS
    <2>2. h - 1 \in i .. upto /\ h - 1 < h /\ h \in k + 1 .. last /\ h \in 1 .. last /\ h - 1 \in 1 .. last /\ h - 1 <= h
        BY <1>1, <2>1
    <2>3. ASSUME Stays(h - 1) PROVE FALSE
        <3>1. n \in DOMAIN times[h - 1] /\ times[h - 1][n].id = times[i][n].id
            BY <2>3
        <3>2. times[h - 1][n].id \in Ids(times[h])
            <4>1. Ids(times[h - 1]) \subseteq Ids(times[h])
                BY <2>2 DEF Chronicle
            <4>. QED
                BY <3>1, <4>1 DEF Ids
        <3>3. PICK m \in DOMAIN times[h] : times[h - 1][n].id = times[h][m].id
            BY <3>2 DEF Ids
        <3>4. Became(times[h - 1], times[h], n, m)
            BY <3>1, <3>3 DEF Became
        <3>5. n # m
            BY <3>1, <3>3
        <3>6. PICK j \in 1 .. Len(told) : told[j].row = h /\ told[j].old = n /\ told[j].new = m
            <4>1. \A x, y : Became(times[h - 1], times[h], x, y) /\ x # y =>
                     \E j \in 1 .. Len(told) : told[j].row = h /\ told[j].old = x /\ told[j].new = y
                BY <2>2, Zenon DEF Chronicle
            <4>. QED
                BY <3>4, <3>5, <4>1
        <3>7. h \in i + 1 .. upto
            BY <1>1, <2>1
        <3>. QED
            BY <3>1, <3>3, <3>6, <3>7 DEF IdOf
    <2>. QED
        BY <2>2, <2>3
<1>3. Moved \in SUBSET Nat
    BY <1>1
<1>. HIDE DEF Moved
<1>4. Moved = {}
    BY <1>2, <1>3, NoneWithoutLesser
<1>5. upto \in i .. upto
    BY <1>1
<1>. QED
    BY <1>4, <1>5 DEF Moved

(* What a rename is of: one column, that has the old name before it and the new *)
(* one after it; and a name is the name of one column.                          *)
LEMMA ToldIs ==
    ASSUME NEW times, NEW last, NEW k, NEW told, Chronicle(times, last, k, told), NEW j \in 1 .. Len(told)
    PROVE  /\ told[j].row \in Nat /\ told[j].row \in k + 1 .. last /\ told[j].row \in 1 .. last
           /\ told[j].row - 1 \in k .. last /\ told[j].row - 1 \in 1 .. last
           /\ told[j].old \in DOMAIN times[told[j].row - 1]
           /\ times[told[j].row - 1][told[j].old].id = IdOf(times, told[j])
           /\ told[j].new \in DOMAIN times[told[j].row]
           /\ \A i \in 1 .. last : \A n \in DOMAIN times[i] :
                 n \in {told[j].old, told[j].new} => times[i][n].id = IdOf(times, told[j])
<1>1. PICK row : row = told[j].row
    OBVIOUS
<1>2. /\ last \in Nat /\ k \in 1 .. last /\ row \in k + 1 .. last
      /\ Became(times[row - 1], times[row], told[j].old, told[j].new)
    BY <1>1 DEF Chronicle
<1>3. row \in Nat /\ row \in 1 .. last /\ row - 1 \in k .. last /\ row - 1 \in 1 .. last
    BY <1>2
<1>4. /\ told[j].old \in DOMAIN times[row - 1] /\ told[j].new \in DOMAIN times[row]
      /\ times[row - 1][told[j].old].id = IdOf(times, told[j])
    BY <1>1, <1>2 DEF Became, IdOf
<1>5. ASSUME NEW i \in 1 .. last, NEW n \in DOMAIN times[i], n \in {told[j].old, told[j].new}
      PROVE  times[i][n].id = IdOf(times, told[j])
    <2>1. \A h \in 1 .. last : n \in DOMAIN times[h] => times[i][n].id = times[h][n].id
        BY <1>5 DEF Chronicle
    <2>. QED
        BY <1>1, <1>3, <1>4, <1>5, <2>1 DEF IdOf
<1>. QED
    BY <1>1, <1>2, <1>3, <1>4, <1>5

(* A rename of a column takes up where the one before it left off. *)
LEMMA RenamesLink ==
    ASSUME NEW times, NEW last, NEW k, NEW told, Chronicle(times, last, k, told),
           NEW j \in 1 .. Len(told), NEW h \in 1 .. Len(told), j < h,
           IdOf(times, told[j]) = IdOf(times, told[h]),
           \A g \in 1 .. Len(told) : j < g /\ g < h => IdOf(times, told[g]) # IdOf(times, told[h])
    PROVE  told[h].old = told[j].new
<1>1. PICK id : id = IdOf(times, told[h])
    OBVIOUS
<1>2. PICK a : a = told[j].row
    OBVIOUS
<1>3. PICK b : b = told[h].row
    OBVIOUS
<1>4. /\ a \in Nat /\ a \in k + 1 .. last /\ a \in 1 .. last /\ b \in Nat /\ b \in 1 .. last /\ b - 1 \in 1 .. last
      /\ told[j].old \in DOMAIN times[a - 1] /\ a - 1 \in 1 .. last /\ told[j].new \in DOMAIN times[a]
      /\ told[h].old \in DOMAIN times[b - 1] /\ told[h].new \in DOMAIN times[b]
      /\ times[a - 1][told[j].old].id = id /\ times[a][told[j].new].id = id
      /\ times[b - 1][told[h].old].id = id /\ times[b][told[h].new].id = id
    BY <1>1, <1>2, <1>3, ToldIs DEF IdOf
<1>5. /\ a <= b
      /\ \A i \in 1 .. last : \A n, m \in DOMAIN times[i] : times[i][n].id = times[i][m].id => n = m
      /\ last \in Nat /\ k \in 1 .. last /\ Len(told) \in Nat
    BY <1>2, <1>3 DEF Chronicle
<1>6. a # b
    <2>1. ASSUME a = b PROVE FALSE
        <3>1. told[j].old = told[h].old /\ told[j].new = told[h].new
            BY <1>4, <1>5, <2>1
        <3>2. j = h
            BY <1>2, <1>3, <2>1, <3>1 DEF Chronicle
        <3>. QED
            BY <3>2
    <2>. QED
        BY <2>1
<1>7. a \in k .. last /\ b - 1 \in a .. last
    BY <1>4, <1>5, <1>6
<1>8. ASSUME NEW g \in 1 .. Len(told), told[g].row \in a + 1 .. b - 1
      PROVE  IdOf(times, told[g]) # times[a][told[j].new].id
    <2>1. told[g].row \in Nat
        BY ToldIs
    <2>2. \A x, y \in 1 .. Len(told) : x < y => told[x].row <= told[y].row
        BY DEF Chronicle
    <2>3. ~ (g < j) /\ ~ (h < g) /\ g # j /\ g # h
        <3>1. told[g].row > a /\ told[g].row < b
            BY <1>4, <1>8, <2>1
        <3>2. g < j => told[g].row <= a
            BY <1>2, <2>2
        <3>3. h < g => b <= told[g].row
            BY <1>3, <2>2
        <3>. QED
            BY <1>2, <1>3, <1>4, <2>1, <3>1, <3>2, <3>3
    <2>4. j < g /\ g < h
        BY <1>5, <2>3
    <2>. QED
        BY <1>1, <1>4, <2>4
<1>9. told[j].new \in DOMAIN times[b - 1] /\ times[b - 1][told[j].new].id = id
    BY <1>4, <1>7, <1>8, NameStays
<1>. QED
    BY <1>4, <1>5, <1>9

(* The first rename of a column is of the name it had, and the last gives it    *)
(* the name it has.                                                             *)
LEMMA FirstAndLast ==
    ASSUME NEW times, NEW last, NEW k, NEW told, Chronicle(times, last, k, told),
           NEW n \in DOMAIN times[k], NEW m \in DOMAIN times[last], times[k][n].id = times[last][m].id
    PROVE  /\ \A j \in 1 .. Len(told) :
                 /\ IdOf(times, told[j]) = times[k][n].id
                 /\ \A g \in 1 .. j - 1 : IdOf(times, told[g]) # times[k][n].id
                 => told[j].old = n
           /\ \A j \in 1 .. Len(told) :
                 /\ IdOf(times, told[j]) = times[k][n].id
                 /\ \A g \in j + 1 .. Len(told) : IdOf(times, told[g]) # times[k][n].id
                 => told[j].new = m
           /\ (\A j \in 1 .. Len(told) : IdOf(times, told[j]) # times[k][n].id) => n = m
<1>1. PICK id : id = times[k][n].id
    OBVIOUS
<1>2. /\ last \in Nat /\ k \in 1 .. last /\ last \in 1 .. last /\ Len(told) \in Nat
      /\ k \in k .. last /\ last \in k .. last
      /\ \A i \in 1 .. last : \A x, y \in DOMAIN times[i] : times[i][x].id = times[i][y].id => x = y
      /\ \A x, y \in 1 .. Len(told) : x < y => told[x].row <= told[y].row
    BY DEF Chronicle
<1>3. ASSUME NEW j \in 1 .. Len(told), IdOf(times, told[j]) = id,
             \A g \in 1 .. j - 1 : IdOf(times, told[g]) # id
      PROVE  told[j].old = n
    <2>1. PICK a : a = told[j].row
        OBVIOUS
    <2>2. /\ a \in Nat /\ a - 1 \in k .. last /\ a - 1 \in 1 .. last
          /\ told[j].old \in DOMAIN times[a - 1] /\ times[a - 1][told[j].old].id = id
        BY <1>3, <2>1, ToldIs
    <2>3. ASSUME NEW g \in 1 .. Len(told), told[g].row \in k + 1 .. a - 1
          PROVE  IdOf(times, told[g]) # id
        <3>1. told[g].row \in Nat
            BY ToldIs
        <3>2. ~ (j < g) /\ g # j
            BY <1>2, <2>1, <2>2, <2>3, <3>1
        <3>3. g \in 1 .. j - 1
            BY <1>2, <3>2
        <3>. QED
            BY <1>3, <3>3
    <2>4. n \in DOMAIN times[a - 1] /\ times[a - 1][n].id = id
        <3>1. PICK b : b = a - 1
            OBVIOUS
        <3>2. b \in k .. last
            BY <2>2, <3>1
        <3>3. \A g \in 1 .. Len(told) : told[g].row \in k + 1 .. b => IdOf(times, told[g]) # times[k][n].id
            BY <1>1, <2>3, <3>1
        <3>4. n \in DOMAIN times[b] /\ times[b][n].id = times[k][n].id
            BY <1>2, <3>2, <3>3, NameStays
        <3>. QED
            BY <1>1, <3>1, <3>4
    <2>. QED
        BY <1>2, <2>2, <2>4
<1>4. ASSUME NEW j \in 1 .. Len(told), IdOf(times, told[j]) = id,
             \A g \in j + 1 .. Len(told) : IdOf(times, told[g]) # id
      PROVE  told[j].new = m
    <2>1. PICK a : a = told[j].row
        OBVIOUS
    <2>2. /\ a \in Nat /\ a \in k .. last /\ last \in a .. last /\ told[j].new \in DOMAIN times[a]
          /\ times[a][told[j].new].id = id
        <3>1. /\ a \in Nat /\ a \in k + 1 .. last /\ told[j].new \in DOMAIN times[a]
              /\ times[a][told[j].new].id = id
            BY <1>4, <2>1, ToldIs DEF IdOf
        <3>. QED
            BY <1>2, <3>1
    <2>3. ASSUME NEW g \in 1 .. Len(told), told[g].row \in a + 1 .. last
          PROVE  IdOf(times, told[g]) # id
        <3>1. told[g].row \in Nat
            BY ToldIs
        <3>2. ~ (g < j) /\ g # j
            <4>1. told[g].row > a
                BY <1>2, <2>2, <2>3, <3>1
            <4>2. g < j => told[g].row <= a
                BY <1>2, <2>1
            <4>. QED
                BY <2>1, <2>2, <3>1, <4>1, <4>2
        <3>3. g \in j + 1 .. Len(told)
            BY <1>2, <3>2
        <3>. QED
            BY <1>4, <3>3
    <2>4. told[j].new \in DOMAIN times[last] /\ times[last][told[j].new].id = id
        BY <2>2, <2>3, NameStays
    <2>. QED
        BY <1>1, <1>2, <2>4
<1>5. ASSUME \A j \in 1 .. Len(told) : IdOf(times, told[j]) # id
      PROVE  n = m
    <2>1. n \in DOMAIN times[last] /\ times[last][n].id = id
        BY <1>1, <1>2, <1>5, NameStays
    <2>. QED
        BY <1>1, <1>2, <2>1
<1>. QED
    BY <1>1, <1>3, <1>4, <1>5

-----------------------------------------------------------------------------
(* The chain of the renames told: an entry per column renamed, from the old name *)
(* of its first rename to the new name of its last.                              *)

Begins(times, told, f, id) ==
    IdOf(times, told[f]) = id /\ \A g \in 1 .. f - 1 : IdOf(times, told[g]) # id

Ends(times, told, n, l, id) ==
    IdOf(times, told[l]) = id /\ \A g \in l + 1 .. n : IdOf(times, told[g]) # id

IsEntry(times, told, n, entry, id) ==
    \E f, l \in 1 .. n :
        /\ Begins(times, told, f, id) /\ Ends(times, told, n, l, id)
        /\ entry = [origin |-> told[f].old, current |-> told[l].new]

(* own: the column of each entry of the chain of the first n renames. *)
IsChain(times, told, n, chain, own) ==
    /\ Len(chain) \in Nat /\ chain = [p \in 1 .. Len(chain) |-> chain[p]]
    /\ \A p \in 1 .. Len(chain) : IsEntry(times, told, n, chain[p], own[p])
    /\ \A p, q \in 1 .. Len(chain) : own[p] = own[q] => p = q
    /\ \A j \in 1 .. n : \E p \in 1 .. Len(chain) : own[p] = IdOf(times, told[j])

(* The next rename goes to the entry of its column, or begins one. *)
LEMMA ExtendIs ==
    ASSUME NEW times, NEW last, NEW k, NEW told, Chronicle(times, last, k, told),
           NEW n \in Nat, n + 1 \in 1 .. Len(told), NEW chain, NEW own,
           IsChain(times, told, n, chain, own)
    PROVE  \E owning : IsChain(times, told, n + 1, Extend(chain, told[n + 1]), owning)
<1>1. PICK r : r = told[n + 1]
    OBVIOUS
<1>2. PICK id : id = IdOf(times, r)
    OBVIOUS
<1>3. PICK N : N = Len(chain)
    OBVIOUS
<1>4. /\ N \in Nat /\ chain = [p \in 1 .. N |-> chain[p]] /\ DOMAIN chain = 1 .. N
      /\ \A p \in 1 .. N : IsEntry(times, told, n, chain[p], own[p])
      /\ \A p, q \in 1 .. N : own[p] = own[q] => p = q
      /\ \A j \in 1 .. n : \E p \in 1 .. N : own[p] = IdOf(times, told[j])
    BY <1>3 DEF IsChain
<1>5. Len(told) \in Nat /\ 1 .. n \subseteq 1 .. Len(told) /\ n + 1 \in Nat
    BY DEF Chronicle
<1>6. ASSUME NEW j \in 1 .. Len(told), NEW h \in 1 .. Len(told), told[h].old = told[j].old
      PROVE  IdOf(times, told[h]) = IdOf(times, told[j])
    <2>1. PICK before : before = told[h].row - 1
        OBVIOUS
    <2>2. before \in 1 .. last /\ told[h].old \in DOMAIN times[before]
          /\ times[before][told[h].old].id = IdOf(times, told[h])
        BY <2>1, ToldIs
    <2>3. \A i \in 1 .. last : \A x \in DOMAIN times[i] :
             x \in {told[j].old, told[j].new} => times[i][x].id = IdOf(times, told[j])
        BY ToldIs
    <2>. QED
        BY <1>6, <2>2, <2>3
<1>7. ASSUME NEW j \in 1 .. Len(told), NEW h \in 1 .. Len(told), told[h].old = told[j].new
      PROVE  IdOf(times, told[h]) = IdOf(times, told[j])
    <2>1. PICK before : before = told[h].row - 1
        OBVIOUS
    <2>2. before \in 1 .. last /\ told[h].old \in DOMAIN times[before]
          /\ times[before][told[h].old].id = IdOf(times, told[h])
        BY <2>1, ToldIs
    <2>3. \A i \in 1 .. last : \A x \in DOMAIN times[i] :
             x \in {told[j].old, told[j].new} => times[i][x].id = IdOf(times, told[j])
        BY ToldIs
    <2>. QED
        BY <1>7, <2>2, <2>3
(* The entries that end with the old name are the column's own. *)
<1>8. ASSUME NEW p \in 1 .. N
      PROVE  chain[p].current = r.old <=> own[p] = id
    <2>1. PICK f \in 1 .. n, l \in 1 .. n :
             /\ Begins(times, told, f, own[p]) /\ Ends(times, told, n, l, own[p])
             /\ chain[p] = [origin |-> told[f].old, current |-> told[l].new]
        BY <1>4 DEF IsEntry
    <2>2. /\ chain[p].current = told[l].new /\ IdOf(times, told[l]) = own[p]
          /\ \A g \in l + 1 .. n : IdOf(times, told[g]) # own[p]
        BY <2>1 DEF Ends
    <2>3. l \in 1 .. Len(told) /\ l < n + 1
        BY <1>5
    <2>4. ASSUME told[l].new = r.old PROVE own[p] = id
        BY <1>1, <1>2, <1>7, <2>2, <2>3, <2>4
    <2>5. ASSUME own[p] = id PROVE told[l].new = r.old
        <3>1. IdOf(times, told[l]) = IdOf(times, told[n + 1])
            BY <1>1, <1>2, <2>2, <2>5
        <3>2. \A g \in 1 .. Len(told) : l < g /\ g < n + 1 => IdOf(times, told[g]) # IdOf(times, told[n + 1])
            <4>1. \A g \in 1 .. Len(told) : l < g /\ g < n + 1 => g \in l + 1 .. n
                OBVIOUS
            <4>. QED
                BY <1>1, <1>2, <2>2, <2>5, <4>1
        <3>. QED
            BY <1>1, <2>3, <3>1, <3>2, RenamesLink
    <2>. QED
        BY <2>2, <2>4, <2>5
<1>9. ASSUME NEW p \in 1 .. N
      PROVE  chain[p].origin = r.old => own[p] = id
    <2>1. PICK f \in 1 .. n, l \in 1 .. n :
             /\ Begins(times, told, f, own[p]) /\ Ends(times, told, n, l, own[p])
             /\ chain[p] = [origin |-> told[f].old, current |-> told[l].new]
        BY <1>4 DEF IsEntry
    <2>2. chain[p].origin = told[f].old /\ IdOf(times, told[f]) = own[p] /\ f \in 1 .. Len(told)
        BY <1>5, <2>1 DEF Begins
    <2>. QED
        BY <1>1, <1>2, <1>6, <2>2
<1>10. ASSUME NEW p \in 1 .. N, NEW q \in 1 .. N, chain[p].origin = chain[q].origin
       PROVE  p = q
    <2>1. PICK f \in 1 .. n, l \in 1 .. n :
             /\ Begins(times, told, f, own[p]) /\ Ends(times, told, n, l, own[p])
             /\ chain[p] = [origin |-> told[f].old, current |-> told[l].new]
        BY <1>4 DEF IsEntry
    <2>2. PICK g \in 1 .. n, m \in 1 .. n :
             /\ Begins(times, told, g, own[q]) /\ Ends(times, told, n, m, own[q])
             /\ chain[q] = [origin |-> told[g].old, current |-> told[m].new]
        BY <1>4 DEF IsEntry
    <2>3. told[f].old = told[g].old /\ IdOf(times, told[f]) = own[p] /\ IdOf(times, told[g]) = own[q]
        BY <1>10, <2>1, <2>2 DEF Begins
    <2>4. own[p] = own[q]
        BY <1>5, <1>6, <2>3
    <2>. QED
        BY <1>4, <2>4
(* An entry of another column is as it was. *)
<1>11. ASSUME NEW p \in 1 .. N, own[p] # id
       PROVE  IsEntry(times, told, n + 1, chain[p], own[p])
    <2>1. PICK f \in 1 .. n, l \in 1 .. n :
             /\ Begins(times, told, f, own[p]) /\ Ends(times, told, n, l, own[p])
             /\ chain[p] = [origin |-> told[f].old, current |-> told[l].new]
        BY <1>4 DEF IsEntry
    <2>2. Ends(times, told, n + 1, l, own[p])
        <3>1. IdOf(times, told[n + 1]) # own[p]
            BY <1>1, <1>2, <1>11
        <3>2. \A g \in l + 1 .. n + 1 : g \in l + 1 .. n \/ g = n + 1
            OBVIOUS
        <3>. QED
            BY <2>1, <3>1, <3>2 DEF Ends
    <2>3. f \in 1 .. n + 1 /\ l \in 1 .. n + 1
        OBVIOUS
    <2>. QED
        BY <2>1, <2>2, <2>3 DEF IsEntry
<1>12. Ends(times, told, n + 1, n + 1, id)
    BY <1>1, <1>2 DEF Ends
<1>. DEFINE from == {i \in DOMAIN chain : chain[i].current = r.old}
            origin == IF from = {} THEN r.old
                      ELSE chain[CHOOSE i \in from : \A j \in from : i <= j].origin
            at == {i \in DOMAIN chain : chain[i].origin = origin}
<1>13. Extend(chain, r) =
          IF at = {} THEN Append(chain, [origin |-> origin, current |-> r.new])
          ELSE [i \in DOMAIN chain |-> IF i \in at THEN [chain[i] EXCEPT !.current = r.new] ELSE chain[i]]
    BY Zenon DEF Extend
<1>14. CASE \A p \in 1 .. N : own[p] # id
    <2>1. from = {}
        BY <1>4, <1>8, <1>14
    <2>2. origin = r.old
        BY <2>1
    <2>3. at = {}
        BY <1>4, <1>9, <1>14, <2>2
    <2>4. PICK entry : entry = [origin |-> r.old, current |-> r.new]
        OBVIOUS
    <2>5. PICK longer : longer = Append(chain, entry)
        OBVIOUS
    <2>6. Extend(chain, r) = longer
        BY <1>13, <2>2, <2>3, <2>4, <2>5
    <2>7. /\ Len(longer) = N + 1 /\ longer = [p \in 1 .. N + 1 |-> longer[p]]
          /\ \A p \in 1 .. N : longer[p] = chain[p]
          /\ longer[N + 1] = entry
        <3>1. PICK S : S = {chain[p] : p \in 1 .. N}
            OBVIOUS
        <3>2. chain \in [1 .. N -> S]
            BY <1>4, <3>1
        <3>3. chain \in Seq(S \cup {entry})
            BY <1>4, <3>2
        <3>. QED
            BY <1>3, <1>4, <2>5, <3>3
    <2>8. Begins(times, told, n + 1, id)
        <3>1. \A g \in 1 .. n : IdOf(times, told[g]) # id
            BY <1>4, <1>14
        <3>. QED
            BY <1>1, <1>2, <3>1 DEF Begins
    <2>9. IsEntry(times, told, n + 1, entry, id)
        <3>1. n + 1 \in 1 .. n + 1
            OBVIOUS
        <3>. QED
            BY <1>1, <1>12, <2>4, <2>8, <3>1, Zenon DEF IsEntry
    <2>10. PICK owning : owning = [p \in 1 .. N + 1 |-> IF p = N + 1 THEN id ELSE own[p]]
        OBVIOUS
    <2>11. owning[N + 1] = id /\ \A p \in 1 .. N : owning[p] = own[p]
        BY <1>4, <2>10
    <2>12. \A p \in 1 .. N + 1 : p \in 1 .. N \/ p = N + 1
        BY <1>4
    <2>13. \A p \in 1 .. N + 1 : IsEntry(times, told, n + 1, longer[p], owning[p])
        BY <1>11, <1>14, <2>7, <2>9, <2>11, <2>12
    <2>14. \A p, q \in 1 .. N + 1 : owning[p] = owning[q] => p = q
        BY <1>4, <1>14, <2>11, <2>12
    <2>15. \A j \in 1 .. n + 1 : \E p \in 1 .. N + 1 : owning[p] = IdOf(times, told[j])
        <3>1. \A j \in 1 .. n + 1 : j \in 1 .. n \/ j = n + 1
            OBVIOUS
        <3>2. N + 1 \in 1 .. N + 1 /\ 1 .. N \subseteq 1 .. N + 1
            BY <1>4
        <3>. QED
            BY <1>1, <1>2, <1>4, <2>11, <3>1, <3>2
    <2>16. IsChain(times, told, n + 1, longer, owning)
        BY <1>4, <2>7, <2>13, <2>14, <2>15 DEF IsChain
    <2>. QED
        BY <1>1, <2>6, <2>16
<1>15. CASE \E p \in 1 .. N : own[p] = id
    <2>1. PICK p \in 1 .. N : own[p] = id
        BY <1>15
    <2>2. from = {p}
        BY <1>4, <1>8, <2>1
    <2>3. origin = chain[p].origin
        <3>1. (CHOOSE i \in {p} : \A j \in {p} : i <= j) = p
            BY <1>4
        <3>. QED
            BY <2>2, <3>1
    <2>4. at = {p}
        BY <1>4, <1>10, <2>1, <2>3
    <2>5. PICK entry : entry = [chain[p] EXCEPT !.current = r.new]
        OBVIOUS
    <2>6. PICK other : other = [i \in 1 .. N |-> IF i = p THEN entry ELSE chain[i]]
        OBVIOUS
    <2>7. Extend(chain, r) = other
        <3>1. at # {} /\ \A i \in DOMAIN chain : i \in at <=> i = p
            BY <1>4, <2>1, <2>4
        <3>. HIDE DEF at, origin, from
        <3>2. Extend(chain, r) =
                 [i \in DOMAIN chain |-> IF i \in at THEN [chain[i] EXCEPT !.current = r.new] ELSE chain[i]]
            BY <1>13, <3>1, Zenon
        <3>3. Extend(chain, r) =
                 [i \in 1 .. N |-> IF i = p THEN [chain[i] EXCEPT !.current = r.new] ELSE chain[i]]
            BY <1>4, <3>1, <3>2
        <3>. QED
            BY <2>5, <2>6, <3>3
    <2>8. IsEntry(times, told, n + 1, entry, id)
        <3>1. PICK f \in 1 .. n, l \in 1 .. n :
                 /\ Begins(times, told, f, id)
                 /\ chain[p] = [origin |-> told[f].old, current |-> told[l].new]
            BY <1>4, <2>1 DEF IsEntry
        <3>2. entry = [origin |-> told[f].old, current |-> told[n + 1].new]
            BY <1>1, <2>5, <3>1
        <3>3. f \in 1 .. n + 1 /\ n + 1 \in 1 .. n + 1
            OBVIOUS
        <3>. QED
            BY <1>12, <3>1, <3>2, <3>3, Zenon DEF IsEntry
    <2>9. Len(other) = N /\ other = [q \in 1 .. N |-> other[q]]
        BY <1>4, <2>6
    <2>10. \A q \in 1 .. N : IsEntry(times, told, n + 1, other[q], own[q])
        <3>1. \A q \in 1 .. N : q # p => own[q] # id
            BY <1>4, <2>1
        <3>. QED
            BY <1>11, <2>1, <2>6, <2>8, <3>1
    <2>11. \A j \in 1 .. n + 1 : \E q \in 1 .. N : own[q] = IdOf(times, told[j])
        <3>1. \A j \in 1 .. n + 1 : j \in 1 .. n \/ j = n + 1
            OBVIOUS
        <3>. QED
            BY <1>1, <1>2, <1>4, <2>1, <3>1
    <2>12. IsChain(times, told, n + 1, other, own)
        BY <1>4, <2>9, <2>10, <2>11 DEF IsChain
    <2>. QED
        BY <1>1, <2>7, <2>12
<1>. QED
    BY <1>14, <1>15

AreExtended(told, n, t) == t = [m \in 0 .. n |-> IF m = 0 THEN << >> ELSE Extend(t[m - 1], told[m])]

LEMMA Extending ==
    ASSUME NEW told, NEW n \in Nat
    PROVE  \E t : AreExtended(told, n, t)
<1>. DEFINE Reaches(k) == \E t : t = [m \in 0 .. k |-> IF m = 0 THEN << >> ELSE Extend(t[m - 1], told[m])]
            Short == {k \in Nat : ~ Reaches(k)}
<1>1. ASSUME NEW k \in Short
      PROVE  \E j \in Short : j < k
    <2>1. k # 0
        <3>. DEFINE t == [m \in 0 .. 0 |-> << >>]
        <3>1. t = [m \in 0 .. 0 |-> IF m = 0 THEN << >> ELSE Extend(t[m - 1], told[m])]
            OBVIOUS
        <3>2. Reaches(0)
            BY <3>1
        <3>. QED
            BY <3>2
    <2>2. SUFFICES ASSUME Reaches(k - 1)
                   PROVE  Reaches(k)
        <3>. HIDE DEF Reaches
        <3>. QED
            BY <2>1
    <2>3. k \in Nat /\ k # 0 /\ \A m \in 0 .. k : m # 0 => m - 1 \in 0 .. (k - 1)
        BY <2>1
    <2>4. PICK t : t = [m \in 0 .. (k - 1) |-> IF m = 0 THEN << >> ELSE Extend(t[m - 1], told[m])]
        BY <2>2
    <2>. DEFINE u == [m \in 0 .. k |-> IF m = 0 THEN << >> ELSE Extend(t[m - 1], told[m])]
    <2>5. \A m \in 0 .. (k - 1) : u[m] = t[m]
        <3>1. \A m \in 0 .. (k - 1) : m \in 0 .. k
            BY <2>3
        <3>2. \A m \in 0 .. (k - 1) : t[m] = IF m = 0 THEN << >> ELSE Extend(t[m - 1], told[m])
            BY <2>4, Zenon
        <3>. QED
            BY <3>1, <3>2, Zenon
    <2>6. ASSUME NEW m \in 0 .. k, m # 0
          PROVE  u[m - 1] = t[m - 1]
        <3>. HIDE DEF u
        <3>. QED
            BY <2>3, <2>5, <2>6
    <2>7. u = [m \in 0 .. k |-> IF m = 0 THEN << >> ELSE Extend(u[m - 1], told[m])]
        BY <2>6, Zenon
    <2>. HIDE DEF u
    <2>. QED
        BY <2>7, Zenon
<1>2. Short \in SUBSET Nat
    OBVIOUS
<1>3. Short = {}
    <2>. HIDE DEF Short
    <2>. QED
        BY <1>1, <1>2, NoneWithoutLesser
<1>. QED
    BY <1>3 DEF AreExtended

SettledOf(chain) ==
    LET settled == {c \in Range(chain) : c.origin # c.current}
    IN  [o \in {c.origin : c \in settled} |-> (CHOOSE c \in settled : c.origin = o).current]

(* What the whole chain comes to. *)
LEMMA ReverseIs ==
    ASSUME NEW times, NEW last, NEW k, NEW told, Chronicle(times, last, k, told)
    PROVE  \E chain, own :
              IsChain(times, told, Len(told), chain, own) /\ ReverseRenames(told) = SettledOf(chain)
<1>. DEFINE N == Len(told)
            t == CHOOSE u : AreExtended(told, N, u)
<1>1. ReverseRenames(told) = SettledOf(t[N])
    BY Zenon DEF ReverseRenames, AreExtended, SettledOf
<1>2. N \in Nat
    BY DEF Chronicle
<1>. HIDE DEF N
<1>3. AreExtended(told, N, t)
    BY <1>2, Extending, Zenon
<1>. HIDE DEF t
<1>4. \A m \in 0 .. N : t[m] = IF m = 0 THEN << >> ELSE Extend(t[m - 1], told[m])
    BY <1>3, Zenon DEF AreExtended
<1>. DEFINE Lacking == {n \in 0 .. N : ~ \E own : IsChain(times, told, n, t[n], own)}
<1>5. ASSUME NEW n \in Lacking PROVE \E m \in Lacking : m < n
    <2>1. n # 0
        <3>1. t[0] = << >>
            <4>1. 0 \in 0 .. N
                BY <1>2
            <4>. QED
                BY <1>4, <4>1, Zenon
        <3>2. IsChain(times, told, 0, << >>, << >>)
            BY DEF IsChain
        <3>3. ASSUME n = 0 PROVE FALSE
            <4>1. ~ \E own : IsChain(times, told, 0, t[0], own)
                BY <3>3
            <4>. QED
                BY <3>1, <3>2, <4>1, Zenon
        <3>. QED
            BY <3>3
    <2>2. PICK m : m = n - 1
        OBVIOUS
    <2>3. m \in Nat /\ m \in 0 .. N /\ m < n /\ n = m + 1 /\ m + 1 \in 1 .. N
        BY <1>2, <2>1, <2>2
    <2>4. t[m + 1] = Extend(t[m], told[m + 1])
        <3>1. n \in 0 .. N /\ n - 1 = m
            BY <2>2
        <3>2. t[n] = Extend(t[n - 1], told[n])
            BY <1>4, <2>1, <3>1, Zenon
        <3>. QED
            BY <2>3, <3>1, <3>2
    <2>5. ASSUME NEW own, IsChain(times, told, m, t[m], own)
          PROVE  FALSE
        <3>1. m + 1 \in 1 .. Len(told)
            BY <2>3 DEF N
        <3>2. \E owning : IsChain(times, told, m + 1, Extend(t[m], told[m + 1]), owning)
            BY <2>3, <2>5, <3>1, ExtendIs, Zenon
        <3>3. \E owning : IsChain(times, told, m + 1, t[m + 1], owning)
            BY <2>4, <3>2, Zenon
        <3>4. ~ \E own1 : IsChain(times, told, m + 1, t[m + 1], own1)
            <4>1. m + 1 \in Lacking
                BY <2>3
            <4>. QED
                BY <4>1, Zenon
        <3>. QED
            BY <3>3, <3>4
    <2>6. m \in Lacking
        BY <2>3, <2>5, Zenon
    <2>. QED
        BY <2>3, <2>6
<1>6. Lacking \in SUBSET Nat
    OBVIOUS
<1>7. Lacking = {}
    <2>. HIDE DEF Lacking
    <2>. QED
        BY <1>5, <1>6, NoneWithoutLesser
<1>8. PICK own : IsChain(times, told, N, t[N], own)
    <2>1. N \in 0 .. N
        BY <1>2
    <2>. QED
        BY <1>7, <2>1, Zenon
<1>9. IsChain(times, told, Len(told), t[N], own)
    BY <1>8 DEF N
<1>. QED
    BY <1>1, <1>9, Zenon

(* The way back: a column that goes by another name now is found by the one it   *)
(* had, and nothing is found by the name of a column that kept it.               *)
LEMMA WayBackIs ==
    ASSUME NEW times, NEW last, NEW k, NEW told, Chronicle(times, last, k, told),
           NEW n \in DOMAIN times[k], NEW m \in DOMAIN times[last], times[k][n].id = times[last][m].id
    PROVE  LET over == ReverseRenames(told)
           IN  IF n = m THEN n \notin DOMAIN over ELSE n \in DOMAIN over /\ over[n] = m
<1>1. PICK chain, own : IsChain(times, told, Len(told), chain, own) /\ ReverseRenames(told) = SettledOf(chain)
    BY ReverseIs, Zenon
<1>. DEFINE settled == {c \in Range(chain) : c.origin # c.current}
<1>2. ReverseRenames(told) =
         [o \in {c.origin : c \in settled} |-> (CHOOSE c \in settled : c.origin = o).current]
    BY <1>1, Zenon DEF SettledOf
<1>3. PICK N : N = Len(chain)
    OBVIOUS
<1>4. PICK L : L = Len(told)
    OBVIOUS
<1>5. /\ N \in Nat /\ DOMAIN chain = 1 .. N /\ L \in Nat
      /\ \A p \in 1 .. N : IsEntry(times, told, L, chain[p], own[p])
      /\ \A p, q \in 1 .. N : own[p] = own[q] => p = q
      /\ \A j \in 1 .. L : \E p \in 1 .. N : own[p] = IdOf(times, told[j])
    BY <1>1, <1>3, <1>4 DEF IsChain, Chronicle
<1>6. Range(chain) = {chain[p] : p \in 1 .. N}
    BY <1>5 DEF Range
<1>7. PICK id : id = times[k][n].id
    OBVIOUS
<1>8. /\ k \in 1 .. last /\ last \in Nat
    BY DEF Chronicle
(* An entry that begins with the name is the column's own. *)
<1>9. ASSUME NEW p \in 1 .. N, chain[p].origin = n
      PROVE  own[p] = id
    <2>1. PICK f \in 1 .. L, l \in 1 .. L :
             /\ Begins(times, told, f, own[p]) /\ Ends(times, told, L, l, own[p])
             /\ chain[p] = [origin |-> told[f].old, current |-> told[l].new]
        BY <1>5 DEF IsEntry
    <2>2. told[f].old = n /\ IdOf(times, told[f]) = own[p]
        BY <1>9, <2>1 DEF Begins
    <2>3. \A i \in 1 .. last : \A x \in DOMAIN times[i] :
             x \in {told[f].old, told[f].new} => times[i][x].id = IdOf(times, told[f])
        BY <1>4, ToldIs
    <2>. QED
        BY <1>7, <1>8, <2>2, <2>3
(* And it leads to the name it has now. *)
<1>10. ASSUME NEW p \in 1 .. N, own[p] = id
       PROVE  chain[p] = [origin |-> n, current |-> m]
    <2>1. PICK f \in 1 .. L, l \in 1 .. L :
             /\ Begins(times, told, f, own[p]) /\ Ends(times, told, L, l, own[p])
             /\ chain[p] = [origin |-> told[f].old, current |-> told[l].new]
        BY <1>5 DEF IsEntry
    <2>2. told[f].old = n
        <3>1. IdOf(times, told[f]) = times[k][n].id /\ \A g \in 1 .. f - 1 : IdOf(times, told[g]) # times[k][n].id
            BY <1>7, <1>10, <2>1 DEF Begins
        <3>. QED
            BY <1>4, <3>1, FirstAndLast
    <2>3. told[l].new = m
        <3>1. IdOf(times, told[l]) = times[k][n].id
              /\ \A g \in l + 1 .. L : IdOf(times, told[g]) # times[k][n].id
            BY <1>7, <1>10, <2>1 DEF Ends
        <3>. QED
            BY <1>4, <3>1, FirstAndLast
    <2>. QED
        BY <2>1, <2>2, <2>3
<1>11. CASE n = m
    <2>1. ASSUME NEW p \in 1 .. N, chain[p].origin = n, chain[p].origin # chain[p].current
          PROVE  FALSE
        BY <1>9, <1>10, <1>11, <2>1
    <2>2. n \notin {c.origin : c \in settled}
        BY <1>6, <2>1
    <2>. HIDE DEF settled
    <2>. QED
        BY <1>2, <1>11, <2>2
<1>12. CASE n # m
    <2>1. \E j \in 1 .. L : IdOf(times, told[j]) = id
        BY <1>4, <1>7, <1>12, FirstAndLast
    <2>2. PICK p \in 1 .. N : own[p] = id
        BY <1>5, <2>1
    <2>3. PICK entry : entry = chain[p]
        OBVIOUS
    <2>4. entry = [origin |-> n, current |-> m] /\ entry \in settled
        BY <1>6, <1>10, <1>12, <2>2, <2>3
    <2>5. ASSUME NEW c \in settled, c.origin = n
          PROVE  c = entry
        <3>1. PICK q \in 1 .. N : c = chain[q]
            BY <1>6
        <3>. QED
            BY <1>9, <1>10, <2>4, <2>5, <3>1
    <2>. HIDE DEF settled
    <2>6. n \in {c.origin : c \in settled} /\ entry.origin = n /\ entry.current = m
        BY <2>4
    <2>7. (CHOOSE c \in settled : c.origin = n) = entry
        BY <2>4, <2>5, <2>6
    <2>. QED
        BY <1>2, <1>12, <2>6, <2>7
<1>. QED
    BY <1>11, <1>12

-----------------------------------------------------------------------------
(* The order in which the renames are gone through. *)

(* In a strict order of 1 .. N, one more than how many come before is a place of *)
(* its own for each.                                                             *)
LEMMA PlacesAre ==
    ASSUME NEW N \in Nat, NEW before,
           \A i \in 1 .. N : <<i, i>> \notin before,
           \A i, j, h \in 1 .. N : <<i, j>> \in before /\ <<j, h>> \in before => <<i, h>> \in before,
           \A i, j \in 1 .. N : i # j => <<i, j>> \in before \/ <<j, i>> \in before,
           NEW place, place = [i \in 1 .. N |-> place[i]],
           \A i \in 1 .. N : place[i] = 1 + Cardinality({j \in 1 .. N : <<j, i>> \in before})
    PROVE  /\ \A i \in 1 .. N : place[i] \in 1 .. N
           /\ \A i, j \in 1 .. N : place[i] = place[j] => i = j
           /\ \A n \in 1 .. N : \E i \in 1 .. N : place[i] = n
           /\ \A i, j \in 1 .. N : place[i] < place[j] => <<i, j>> \in before
<1>. DEFINE Below(i) == {j \in 1 .. N : <<j, i>> \in before}
            size(i) == Cardinality(Below(i))
<1>1. IsFiniteSet(1 .. N) /\ Cardinality(1 .. N) = N
    BY FS_Interval
<1>2. \A i \in 1 .. N : place[i] = 1 + size(i)
    OBVIOUS
<1>3. ASSUME NEW i \in 1 .. N
      PROVE  IsFiniteSet(Below(i)) /\ size(i) \in 0 .. N - 1
    <2>1. Below(i) \in SUBSET (1 .. N) /\ i \notin Below(i)
        OBVIOUS
    <2>. HIDE DEF Below
    <2>2. IsFiniteSet(Below(i)) /\ size(i) <= N /\ (N = size(i) => 1 .. N = Below(i))
        BY <1>1, <2>1, FS_Subset
    <2>3. size(i) \in Nat
        BY <2>2, FS_CardinalityType
    <2>. HIDE DEF size
    <2>. QED
        BY <2>1, <2>2, <2>3
<1>4. ASSUME NEW i \in 1 .. N, NEW j \in 1 .. N, <<i, j>> \in before
      PROVE  size(i) < size(j)
    <2>1. Below(i) \in SUBSET Below(j) /\ i \in Below(j) /\ i \notin Below(i)
        BY <1>4
    <2>. HIDE DEF Below
    <2>2. IsFiniteSet(Below(j)) /\ size(i) \in Nat /\ size(j) \in Nat
        BY <1>3
    <2>3. size(i) <= size(j) /\ (size(j) = size(i) => Below(j) = Below(i))
        BY <2>1, <2>2, FS_Subset
    <2>. HIDE DEF size
    <2>. QED
        BY <2>1, <2>2, <2>3
<1>. HIDE DEF size
<1>5. /\ \A i \in 1 .. N : place[i] \in 1 .. N
      /\ \A i, j \in 1 .. N : place[i] = place[j] => i = j
      /\ \A i, j \in 1 .. N : place[i] < place[j] => <<i, j>> \in before
    <2>1. \A i \in 1 .. N : size(i) \in 0 .. N - 1
        BY <1>3
    <2>2. \A i, j \in 1 .. N : <<i, j>> \in before => size(i) < size(j)
        BY <1>4
    <2>3. PICK s : s = [i \in 1 .. N |-> size(i)]
        OBVIOUS
    <2>4. /\ \A i \in 1 .. N : s[i] \in 0 .. N - 1 /\ place[i] = 1 + s[i]
          /\ \A i, j \in 1 .. N : <<i, j>> \in before => s[i] < s[j]
        BY <1>2, <2>1, <2>2, <2>3
    <2>5. \A i, j \in 1 .. N : i # j => s[i] < s[j] \/ s[j] < s[i]
        BY <2>4
    <2>6. \A i, j \in 1 .. N : s[i] < s[j] => <<i, j>> \in before
        <3>1. \A i, j \in 1 .. N : s[i] < s[j] => i # j /\ ~ (s[j] < s[i])
            BY <2>4
        <3>. QED
            BY <2>4, <3>1
    <2>. QED
        BY <2>4, <2>5, <2>6
<1>6. place \in Injection(1 .. N, 1 .. N)
    <2>1. place \in [1 .. N -> 1 .. N]
        BY <1>5
    <2>. QED
        BY <1>5, <2>1 DEF Injection, IsInjective
<1>7. place \in Surjection(1 .. N, 1 .. N)
    BY <1>1, <1>6, FS_Injection
<1>. QED
    BY <1>5, <1>7 DEF Surjection

(* SetToSeq tells each element once. *)
LEMMA SetToSeqOnce ==
    ASSUME NEW S, IsFiniteSet(S)
    PROVE  \E N \in Nat :
              /\ DOMAIN SetToSeq(S) = 1 .. N
              /\ \A i \in 1 .. N : SetToSeq(S)[i] \in S
              /\ \A i, j \in 1 .. N : SetToSeq(S)[i] = SetToSeq(S)[j] => i = j
              /\ \A e \in S : \E i \in 1 .. N : SetToSeq(S)[i] = e
<1>1. Cardinality(S) \in Nat /\ ExistsBijection(1 .. Cardinality(S), S)
    BY FS_CardinalityType
<1>2. PICK n : n = Cardinality(S)
    OBVIOUS
<1>3. \E f \in [1 .. n -> S] : IsInjective(f)
    BY <1>1, <1>2 DEF ExistsBijection, Bijection, Injection
<1>4. PICK f : f = SetToSeq(S)
    OBVIOUS
<1>5. f \in [1 .. n -> S] /\ IsInjective(f)
    BY <1>2, <1>3, <1>4 DEF SetToSeq
<1>6. DOMAIN f = 1 .. n /\ (\A i \in 1 .. n : f[i] \in S) /\ \A i, j \in 1 .. n : f[i] = f[j] => i = j
    BY <1>5 DEF IsInjective
<1>7. \A e \in S : \E i \in 1 .. n : f[i] = e
    BY <1>2, <1>4, <1>6, SetToSeqIs
<1>. QED
    BY <1>1, <1>2, <1>4, <1>6, <1>7

(* Each rename comes once, row after row, when no two rows have one version. *)
LEMMA SortedIs ==
    ASSUME NEW rows, NEW size \in Nat, NEW renames, NEW newestFirst, IsFiniteSet(renames),
           \A i \in 1 .. size : rows[i].version \in Nat,
           \A i, j \in 1 .. size : i < j => rows[i].version < rows[j].version,
           \A r \in renames : r.row \in 1 .. size
    PROVE  LET told == Sorted(rows, renames, newestFirst)
           IN  /\ Len(told) \in Nat /\ DOMAIN told = 1 .. Len(told)
               /\ \A n \in 1 .. Len(told) : told[n] \in renames
               /\ \A r \in renames : \E n \in 1 .. Len(told) : told[n] = r
               /\ \A n, m \in 1 .. Len(told) : told[n] = told[m] => n = m
               /\ \A n, m \in 1 .. Len(told) : n < m => told[n].row <= told[m].row
<1>. DEFINE listed == SetToSeq(renames)
            Sooner(i, j) ==
                \/ Ahead(rows, newestFirst, listed[i].row, listed[j].row)
                \/ listed[i].row = listed[j].row /\ i < j
            place == [i \in DOMAIN listed |-> 1 + Cardinality({j \in DOMAIN listed : Sooner(j, i)})]
            told == [n \in DOMAIN listed |-> listed[CHOOSE i \in DOMAIN listed : place[i] = n]]
<1>1. Sorted(rows, renames, newestFirst) = told
    BY Zenon DEF Sorted
<1>2. PICK N \in Nat :
         /\ DOMAIN listed = 1 .. N
         /\ \A i \in 1 .. N : listed[i] \in renames
         /\ \A i, j \in 1 .. N : listed[i] = listed[j] => i = j
         /\ \A r \in renames : \E i \in 1 .. N : listed[i] = r
    BY SetToSeqOnce
<1>. HIDE DEF listed
<1>3. \A i \in 1 .. N : listed[i].row \in 1 .. size /\ listed[i].row \in Nat
    BY <1>2
<1>4. ASSUME NEW i \in 1 .. N, NEW j \in 1 .. N
      PROVE  Sooner(i, j) <=> listed[i].row < listed[j].row \/ (listed[i].row = listed[j].row /\ i < j)
    <2>1. PICK a, b : a = listed[i].row /\ b = listed[j].row
        OBVIOUS
    <2>2. a \in 1 .. size /\ b \in 1 .. size
        BY <1>3, <2>1
    <2>3. Ahead(rows, newestFirst, a, b) <=> a < b
        <3>1. a < b => rows[a].version < rows[b].version
            BY <2>2
        <3>2. b < a => rows[b].version < rows[a].version
            BY <2>2
        <3>3. rows[a].version \in Nat /\ rows[b].version \in Nat
            BY <2>2
        <3>4. a = b => ~ IF newestFirst THEN a > b ELSE a < b
            BY <2>2
        <3>5. a # b => a < b \/ b < a
            BY <2>2
        <3>6. a < b => rows[a].version < rows[b].version
            BY <3>1
        <3>7. CASE a = b
            BY <2>2, <3>3, <3>4, <3>7 DEF Ahead
        <3>8. CASE a < b
            BY <2>2, <3>1, <3>3, <3>8 DEF Ahead
        <3>9. CASE b < a
            BY <2>2, <3>2, <3>3, <3>9 DEF Ahead
        <3>. QED
            BY <3>5, <3>7, <3>8, <3>9
    <2>. QED
        BY <2>1, <2>3
<1>5. PICK before : before = {q \in (1 .. N) \X (1 .. N) : Sooner(q[1], q[2])}
    OBVIOUS
<1>6. \A i, j \in 1 .. N : <<i, j>> \in before <=> Sooner(i, j)
    BY <1>5
<1>7. place = [i \in 1 .. N |-> place[i]]
      /\ \A i \in 1 .. N : place[i] = 1 + Cardinality({j \in 1 .. N : <<j, i>> \in before})
    <2>. HIDE DEF Sooner
    <2>1. ASSUME NEW i \in 1 .. N
          PROVE  place[i] = 1 + Cardinality({j \in 1 .. N : <<j, i>> \in before})
        <3>1. {j \in 1 .. N : <<j, i>> \in before} = {j \in 1 .. N : Sooner(j, i)}
            BY <1>6
        <3>2. place[i] = 1 + Cardinality({j \in 1 .. N : Sooner(j, i)})
            BY <1>2
        <3>. QED
            BY <3>1, <3>2
    <2>. QED
        BY <1>2, <2>1
<1>8. \A i, j \in 1 .. N :
         <<i, j>> \in before <=> listed[i].row < listed[j].row \/ (listed[i].row = listed[j].row /\ i < j)
    <2>. HIDE DEF Sooner
    <2>. QED
        BY <1>4, <1>6
<1>. HIDE DEF place
<1>9. /\ \A i \in 1 .. N : <<i, i>> \notin before
      /\ \A i, j, h \in 1 .. N : <<i, j>> \in before /\ <<j, h>> \in before => <<i, h>> \in before
      /\ \A i, j \in 1 .. N : i # j => <<i, j>> \in before \/ <<j, i>> \in before
    <2>1. \A i \in 1 .. N : <<i, i>> \notin before
        BY <1>3, <1>8
    <2>2. ASSUME NEW i \in 1 .. N, NEW j \in 1 .. N, NEW h \in 1 .. N, <<i, j>> \in before, <<j, h>> \in before
          PROVE  <<i, h>> \in before
        <3>1. /\ listed[i].row < listed[j].row \/ (listed[i].row = listed[j].row /\ i < j)
              /\ listed[j].row < listed[h].row \/ (listed[j].row = listed[h].row /\ j < h)
            BY <1>8, <2>2
        <3>2. listed[i].row \in Nat /\ listed[j].row \in Nat /\ listed[h].row \in Nat
            BY <1>3
        <3>3. listed[i].row < listed[h].row \/ (listed[i].row = listed[h].row /\ i < h)
            BY <3>1, <3>2
        <3>. QED
            BY <1>8, <3>3
    <2>3. ASSUME NEW i \in 1 .. N, NEW j \in 1 .. N, i # j
          PROVE  <<i, j>> \in before \/ <<j, i>> \in before
        <3>1. listed[i].row \in Nat /\ listed[j].row \in Nat
            BY <1>3
        <3>. QED
            BY <1>8, <2>3, <3>1
    <2>. QED
        BY <2>1, <2>2, <2>3
<1>10. /\ \A i \in 1 .. N : place[i] \in 1 .. N
       /\ \A i, j \in 1 .. N : place[i] = place[j] => i = j
       /\ \A n \in 1 .. N : \E i \in 1 .. N : place[i] = n
       /\ \A i, j \in 1 .. N : place[i] < place[j] => <<i, j>> \in before
    BY <1>7, <1>9, PlacesAre, Zenon
<1>11. ASSUME NEW n \in 1 .. N
       PROVE  \E i \in 1 .. N : place[i] = n /\ told[n] = listed[i]
    <2>1. PICK i : i = CHOOSE h \in 1 .. N : place[h] = n
        OBVIOUS
    <2>2. i \in 1 .. N /\ place[i] = n
        BY <1>10, <2>1
    <2>3. told[n] = listed[i]
        BY <1>2, <2>1
    <2>. QED
        BY <2>2, <2>3
<1>12. DOMAIN told = 1 .. N /\ Len(told) = N
    BY <1>2
<1>. HIDE DEF told
<1>13. \A n \in 1 .. N : told[n] \in renames
    BY <1>2, <1>11
<1>14. ASSUME NEW r \in renames PROVE \E n \in 1 .. N : told[n] = r
    <2>1. PICK i \in 1 .. N : listed[i] = r
        BY <1>2
    <2>2. PICK h \in 1 .. N : place[h] = place[i] /\ told[place[i]] = listed[h]
        BY <1>10, <1>11
    <2>. QED
        BY <1>10, <2>1, <2>2
<1>15. ASSUME NEW n \in 1 .. N, NEW m \in 1 .. N, told[n] = told[m] PROVE n = m
    BY <1>2, <1>11, <1>15
<1>16. ASSUME NEW n \in 1 .. N, NEW m \in 1 .. N, n < m PROVE told[n].row <= told[m].row
    <2>1. PICK i \in 1 .. N : place[i] = n /\ told[n] = listed[i]
        BY <1>11
    <2>2. PICK j \in 1 .. N : place[j] = m /\ told[m] = listed[j]
        BY <1>11
    <2>3. <<i, j>> \in before
        BY <1>10, <1>16, <2>1, <2>2
    <2>. QED
        BY <1>3, <1>8, <2>1, <2>2, <2>3
<1>. QED
    BY <1>1, <1>12, <1>13, <1>14, <1>15, <1>16

(* What grows from each row to the next grows from each to every later one. *)
LEMMA Increasing ==
    ASSUME NEW size \in Nat, NEW v, \A i \in 1 .. size : v[i] \in Nat,
           \A i \in 2 .. size : v[i - 1] < v[i]
    PROVE  \A i, j \in 1 .. size : i < j => v[i] < v[j]
<1>. DEFINE Wrong == {j \in 1 .. size : \E i \in 1 .. size : i < j /\ ~ (v[i] < v[j])}
<1>1. ASSUME NEW j \in Wrong PROVE \E h \in Wrong : h < j
    <2>1. PICK i \in 1 .. size : i < j /\ ~ (v[i] < v[j])
        OBVIOUS
    <2>2. PICK h : h = j - 1
        OBVIOUS
    <2>3. h \in 1 .. size /\ h < j /\ j \in 2 .. size /\ (h = i \/ i < h)
        BY <2>1, <2>2
    <2>4. v[h] < v[j] /\ v[i] \in Nat /\ v[j] \in Nat /\ v[h] \in Nat
        BY <2>1, <2>2, <2>3
    <2>5. h # i /\ ~ (v[i] < v[h])
        BY <2>1, <2>4
    <2>. QED
        BY <2>1, <2>3, <2>5
<1>2. Wrong \in SUBSET Nat
    OBVIOUS
<1>3. Wrong = {}
    <2>. HIDE DEF Wrong
    <2>. QED
        BY <1>1, <1>2, NoneWithoutLesser
<1>. QED
    BY <1>3

LEMMA RenamesInAre ==
    ASSUME NEW rows, NEW t, NEW some, IsFiniteSet(some), \A i \in some : IsFiniteSet(rows[i].renames)
    PROVE  /\ IsFiniteSet(RenamesIn(rows, t, some))
           /\ \A e \in RenamesIn(rows, t, some) : \E i \in some : \E r \in rows[i].renames :
                 r.table = t /\ e = [row |-> i, old |-> r.old, new |-> r.new]
           /\ \A i \in some : \A r \in rows[i].renames : r.table = t =>
                 [row |-> i, old |-> r.old, new |-> r.new] \in RenamesIn(rows, t, some)
<1>. DEFINE of(i) == {r \in rows[i].renames : r.table = t}
            each(i) == {[row |-> i, old |-> r.old, new |-> r.new] : r \in of(i)}
<1>1. RenamesIn(rows, t, some) = UNION {each(i) : i \in some}
    BY DEF RenamesIn
<1>2. ASSUME NEW i \in some PROVE IsFiniteSet(each(i))
    <2>1. IsFiniteSet(of(i))
        BY FS_Subset
    <2>. HIDE DEF of
    <2>2. PICK f : f = [r \in of(i) |-> [row |-> i, old |-> r.old, new |-> r.new]]
        OBVIOUS
    <2>3. DOMAIN f = of(i) /\ {f[r] : r \in DOMAIN f} = each(i)
        BY <2>2
    <2>. HIDE DEF each
    <2>. QED
        BY <2>1, <2>3, ImageFinite
<1>3. IsFiniteSet({each(i) : i \in some})
    <2>. HIDE DEF each
    <2>1. PICK f : f = [i \in some |-> each(i)]
        OBVIOUS
    <2>2. DOMAIN f = some /\ {f[i] : i \in DOMAIN f} = {each(i) : i \in some}
        BY <2>1
    <2>. QED
        BY <2>2, ImageFinite
<1>4. IsFiniteSet(UNION {each(i) : i \in some})
    <2>. HIDE DEF each
    <2>1. \A T \in {each(i) : i \in some} : IsFiniteSet(T)
        BY <1>2
    <2>. QED
        BY <1>3, <2>1, FS_UNION
<1>. QED
    BY <1>1, <1>4

(* The columns of a table at each row, and then when the rollback found them. *)
Times(rows, size, t, found) == [i \in 1 .. size + 1 |-> IF i <= size THEN rows[i].live[t] ELSE found]

(* A history that tells every rename and claims none that failed. *)
Recounted(rows, size, t, found, times) ==
    /\ DOMAIN rows = 1 .. size
    /\ \A i \in 1 .. size : rows[i].version \in Nat /\ IsFiniteSet(rows[i].renames)
    /\ \A i \in 2 .. size :
          /\ rows[i - 1].version < rows[i].version
          /\ Tells(rows[i - 1].live[t], rows[i].live[t], {r \in rows[i].renames : r.table = t})
    /\ Tells(rows[size].live[t], found, {})
    /\ \A i \in 1 .. size : \A r \in rows[i].renames : r.table = t => r.new \in DOMAIN rows[i].live[t]
    /\ times = Times(rows, size, t, found)
    /\ \A i, j \in 1 .. size + 1 : \A n \in DOMAIN times[i] \cap DOMAIN times[j] :
          times[i][n].id = times[j][n].id
    /\ \A i \in 1 .. size + 1 : \A n, m \in DOMAIN times[i] : times[i][n].id = times[i][m].id => n = m
    /\ \A i, j \in 1 .. size + 1 : i <= j => Ids(times[i]) \subseteq Ids(times[j])

(* Such a history is a chronicle. *)
LEMMA ChronicleIs ==
    ASSUME NEW rows, NEW size \in Nat, NEW t, NEW found, NEW times, Recounted(rows, size, t, found, times),
           NEW k \in 1 .. size, NEW newestFirst
    PROVE  Chronicle(times, size + 1, k, RenamesSince(rows, t, rows[k].version, newestFirst))
<1>. USE DEF Recounted
<1>1. PICK some : some = {i \in DOMAIN rows : rows[i].version > rows[k].version}
    OBVIOUS
<1>2. PICK renames : renames = RenamesIn(rows, t, some)
    OBVIOUS
<1>3. PICK told : told = RenamesSince(rows, t, rows[k].version, newestFirst)
    OBVIOUS
<1>4. told = Sorted(rows, renames, newestFirst)
    BY <1>1, <1>2, <1>3, Zenon DEF RenamesSince
<1>5. \A i, j \in 1 .. size : i < j => rows[i].version < rows[j].version
    <2>1. PICK v : v = [i \in 1 .. size |-> rows[i].version]
        OBVIOUS
    <2>2. \A i \in 1 .. size : v[i] = rows[i].version /\ v[i] \in Nat
        BY <2>1
    <2>3. ASSUME NEW i \in 2 .. size PROVE v[i - 1] < v[i]
        <3>1. i - 1 \in 1 .. size /\ i \in 1 .. size
            OBVIOUS
        <3>. QED
            BY <2>2, <3>1
    <2>4. \A i, j \in 1 .. size : i < j => v[i] < v[j]
        BY <2>2, <2>3, Increasing
    <2>. QED
        BY <2>2, <2>4
<1>6. some = k + 1 .. size
    <2>1. ASSUME NEW i \in 1 .. size PROVE rows[i].version > rows[k].version <=> i > k
        <3>1. i < k => rows[i].version < rows[k].version
            BY <1>5
        <3>2. k < i => rows[k].version < rows[i].version
            BY <1>5
        <3>. QED
            BY <3>1, <3>2
    <2>. QED
        BY <1>1, <2>1
<1>7. /\ IsFiniteSet(renames)
      /\ \A e \in renames : \E i \in some : \E r \in rows[i].renames :
            r.table = t /\ e = [row |-> i, old |-> r.old, new |-> r.new]
      /\ \A i \in some : \A r \in rows[i].renames : r.table = t =>
            [row |-> i, old |-> r.old, new |-> r.new] \in renames
    <2>1. IsFiniteSet(some) /\ \A i \in some : IsFiniteSet(rows[i].renames)
        BY <1>6, FS_Interval
    <2>. QED
        BY <1>2, <2>1, RenamesInAre
<1>8. \A e \in renames : e.row \in 1 .. size
    BY <1>6, <1>7
<1>9. /\ Len(told) \in Nat /\ DOMAIN told = 1 .. Len(told)
      /\ \A n \in 1 .. Len(told) : told[n] \in renames
      /\ \A r \in renames : \E n \in 1 .. Len(told) : told[n] = r
      /\ \A n, m \in 1 .. Len(told) : told[n] = told[m] => n = m
      /\ \A n, m \in 1 .. Len(told) : n < m => told[n].row <= told[m].row
    <2>1. IsFiniteSet(renames) /\ \A i \in 1 .. size : rows[i].version \in Nat
        BY <1>7
    <2>. HIDE DEF Recounted
    <2>. QED
        BY <1>4, <1>5, <1>8, <2>1, SortedIs
<1>10. (\A i \in 1 .. size : times[i] = rows[i].live[t]) /\ times[size + 1] = found
    BY DEF Times
<1>11. ASSUME NEW j \in 1 .. Len(told)
       PROVE  /\ told[j].row \in k + 1 .. size + 1
              /\ Became(times[told[j].row - 1], times[told[j].row], told[j].old, told[j].new)
    <2>0. PICK i \in some : \E r \in rows[i].renames :
             r.table = t /\ told[j] = [row |-> i, old |-> r.old, new |-> r.new]
        BY <1>7, <1>9
    <2>1. PICK r \in rows[i].renames : r.table = t /\ told[j] = [row |-> i, old |-> r.old, new |-> r.new]
        BY <2>0
    <2>2. i \in 2 .. size /\ i \in 1 .. size /\ i - 1 \in 1 .. size
        BY <1>6
    <2>3. r.new \in DOMAIN rows[i].live[t]
        BY <2>1, <2>2
    <2>4. Became(rows[i - 1].live[t], rows[i].live[t], r.old, r.new)
        <3>1. r \in {q \in rows[i].renames : q.table = t}
            BY <2>1
        <3>2. Tells(rows[i - 1].live[t], rows[i].live[t], {q \in rows[i].renames : q.table = t})
            BY <2>2
        <3>. QED
            BY <2>3, <3>1, <3>2, Zenon DEF Tells
    <2>5. times[i - 1] = rows[i - 1].live[t] /\ times[i] = rows[i].live[t]
        BY <1>10, <2>2
    <2>. QED
        BY <1>6, <2>1, <2>4, <2>5
<1>12. ASSUME NEW i \in k + 1 .. size + 1, NEW n, NEW m, Became(times[i - 1], times[i], n, m), n # m
       PROVE  \E j \in 1 .. Len(told) : told[j].row = i /\ told[j].old = n /\ told[j].new = m
    <2>1. CASE i = size + 1
        <3>1. i - 1 = size /\ size \in 1 .. size
            BY <2>1
        <3>2. Became(rows[size].live[t], found, n, m)
            BY <1>10, <1>12, <2>1, <3>1
        <3>. QED
            BY <1>12, <3>2 DEF Tells, Became
    <2>2. CASE i # size + 1
        <3>1. i \in 2 .. size /\ i \in 1 .. size /\ i - 1 \in 1 .. size /\ i \in some
            BY <1>6, <2>2
        <3>2. Became(rows[i - 1].live[t], rows[i].live[t], n, m)
            BY <1>10, <1>12, <3>1
        <3>3. Tells(rows[i - 1].live[t], rows[i].live[t], {r \in rows[i].renames : r.table = t})
            BY <3>1
        <3>4. PICK r \in {q \in rows[i].renames : q.table = t} : r.old = n /\ r.new = m
            <4>1. n \in DOMAIN rows[i - 1].live[t] /\ m \in DOMAIN rows[i].live[t]
                BY <3>2 DEF Became
            <4>2. \A x \in DOMAIN rows[i - 1].live[t], y \in DOMAIN rows[i].live[t] :
                     Became(rows[i - 1].live[t], rows[i].live[t], x, y) /\ x # y =>
                         \E r \in {q \in rows[i].renames : q.table = t} : r.old = x /\ r.new = y
                BY <3>3, Zenon DEF Tells
            <4>. QED
                BY <1>12, <3>2, <4>1, <4>2
        <3>5. [row |-> i, old |-> n, new |-> m] \in renames
            BY <1>7, <3>1, <3>4
        <3>. QED
            BY <1>9, <3>5
    <2>. QED
        BY <2>1, <2>2
<1>13. ASSUME NEW j \in 1 .. Len(told), NEW h \in 1 .. Len(told),
              told[j].row = told[h].row /\ told[j].old = told[h].old /\ told[j].new = told[h].new
       PROVE  j = h
    <2>1. PICK i, r : told[j] = [row |-> i, old |-> r.old, new |-> r.new]
        BY <1>7, <1>9
    <2>2. PICK g, q : told[h] = [row |-> g, old |-> q.old, new |-> q.new]
        BY <1>7, <1>9
    <2>3. told[j] = told[h]
        BY <1>13, <2>1, <2>2
    <2>. QED
        BY <1>9, <2>3
<1>14. size + 1 \in Nat /\ k \in 1 .. size + 1
    OBVIOUS
<1>15. /\ \A j \in 1 .. Len(told) :
            /\ told[j].row \in k + 1 .. size + 1
            /\ Became(times[told[j].row - 1], times[told[j].row], told[j].old, told[j].new)
       /\ \A i \in k + 1 .. size + 1 : \A n, m :
            Became(times[i - 1], times[i], n, m) /\ n # m =>
                \E j \in 1 .. Len(told) : told[j].row = i /\ told[j].old = n /\ told[j].new = m
       /\ \A j, h \in 1 .. Len(told) :
            told[j].row = told[h].row /\ told[j].old = told[h].old /\ told[j].new = told[h].new => j = h
    <2>. HIDE DEF Recounted
    <2>. QED
        BY <1>11, <1>12, <1>13
<1>16. Chronicle(times, size + 1, k, told)
    BY <1>9, <1>14, <1>15, Zenon DEF Chronicle
<1>. QED
    BY <1>3, <1>16

(* What the renames and the additions of a plan say. *)
LEMMA RenamesAre ==
    ASSUME NEW c, NEW want, NEW live, NEW d \in ColumnChanges(c, want, live)
    PROVE  /\ d.column = c
           /\ d.kind = "rename" => /\ d.from = want.from /\ want.from \in DOMAIN live
                                   /\ d.breaking <=> c \in DOMAIN live
           /\ d.kind = "add" => c \notin DOMAIN live /\ want.from \notin DOMAIN live
<1>1. ASSUME NEW current, d \in Compared(c, want, current)
      PROVE  d.column = c /\ d.kind \notin {"rename", "add"}
    BY <1>1 DEF Compared, Retyped, Renullabled, Change
<1>2. CASE c \notin DOMAIN live /\ want.from \notin DOMAIN live
    <2>1. d = Change("add", c, want, NoName, want.required)
        BY <1>2 DEF ColumnChanges
    <2>. QED
        BY <1>2, <2>1 DEF Change
<1>3. CASE c \in DOMAIN live \/ want.from \in DOMAIN live
    <2>1. PICK current : current = IF c \in DOMAIN live THEN live[c] ELSE live[want.from]
        OBVIOUS
    <2>2. \/ want.from \in DOMAIN live /\ d = Change("rename", c, want, want.from, c \in DOMAIN live)
          \/ d \in Compared(c, want, current)
        BY <1>3, <2>1, Zenon DEF ColumnChanges
    <2>3. CASE d \in Compared(c, want, current)
        BY <1>1, <2>3
    <2>4. CASE want.from \in DOMAIN live /\ d = Change("rename", c, want, want.from, c \in DOMAIN live)
        BY <2>4 DEF Change
    <2>. QED
        BY <2>2, <2>3, <2>4
<1>. QED
    BY <1>2, <1>3

(* A column that is wanted from where it is, or where it is and from nowhere, is *)
(* the same column after.                                                        *)
LEMMA ColumnComesBack ==
    ASSUME NEW want, Columns(want), want # << >>, Renamable(want),
           NEW live, Live(live), NEW plan, plan = DiffTable(want, live),
           \A r, s \in OfKind(plan, "rename") : r.from = s.from => r = s,
           NEW after, IF plan.action = "none" THEN after = live
                      ELSE Accepts(live, plan) /\ ~ Breaking(plan) /\ after = Altered(live, plan),
           NEW n \in DOMAIN want, NEW m \in DOMAIN live,
           n # m => want[n].from = m /\ n \notin DOMAIN live
    PROVE  after[n].id = live[m].id
<1>. DEFINE all == Alteration(want, live)
<1>1. live # << >> /\ DOMAIN live # {}
    OBVIOUS
<1>2. plan = IF all = {} THEN NoChange ELSE [action |-> "alter", columns |-> all]
    BY <1>1, Zenon DEF DiffTable
<1>3. ASSUME NEW d \in all
      PROVE  \E c \in DOMAIN want :
                /\ d \in ColumnChanges(c, want[c], live) /\ d.column = c
                /\ d.kind = "rename" => /\ d.from = want[c].from /\ want[c].from \in DOMAIN live
                                        /\ d.breaking <=> c \in DOMAIN live
                /\ d.kind = "add" => c \notin DOMAIN live /\ want[c].from \notin DOMAIN live
    <2>1. PICK c \in DOMAIN want : d \in ColumnChanges(c, want[c], live)
        BY DEF Alteration
    <2>. QED
        BY <2>1, RenamesAre
<1>4. ASSUME n # m
      PROVE  \E r \in all : r.kind = "rename" /\ r.column = n /\ r.from = m
    <2>1. want[n].from = m /\ m \in DOMAIN live
        BY <1>4
    <2>2. PICK r : r = Change("rename", n, want[n], want[n].from, n \in DOMAIN live)
        OBVIOUS
    <2>3. r \in ColumnChanges(n, want[n], live)
        BY <2>1, <2>2, Zenon DEF ColumnChanges
    <2>4. r \in all
        BY <2>3 DEF Alteration
    <2>5. r.kind = "rename" /\ r.column = n /\ r.from = m
        BY <2>1, <2>2 DEF Change
    <2>. QED
        BY <2>4, <2>5
<1>. HIDE DEF all
<1>5. CASE all = {}
    <2>1. plan.action = "none"
        BY <1>2, <1>5 DEF NoChange
    <2>. QED
        BY <1>4, <1>5, <2>1
<1>6. CASE all # {}
    <2>1. plan.action = "alter" /\ plan.columns = all
        BY <1>2, <1>6
    <2>2. Accepts(live, plan) /\ ~ Breaking(plan) /\ after = Altered(live, plan) /\ WellPlanned(plan)
        BY <2>1, DiffWellPlanned
    <2>3. \A d \in all : ~ d.breaking
        BY <2>1, <2>2 DEF Breaking
    <2>4. n \notin Additions(plan)
        BY <1>3, <2>1 DEF Additions, OfKind
    <2>5. ASSUME n # m
          PROVE  n \in Given(plan) /\ Was(plan, n) = m
        <3>1. PICK r \in all : r.kind = "rename" /\ r.column = n /\ r.from = m
            BY <1>4, <2>5
        <3>2. r \in OfKind(plan, "rename") /\ m \in Taken(plan)
            BY <2>1, <3>1 DEF OfKind, Taken
        <3>3. NewName(plan, m) = n
            <4>1. PICK c \in OfKind(plan, "rename") : c.from = m /\ c.column = NewName(plan, m)
                BY <3>2, NewNameIs
            <4>. QED
                BY <3>1, <3>2, <4>1
        <3>4. n \in Given(plan)
            BY <3>2, <3>3 DEF Given
        <3>5. \A old \in Taken(plan) : NewName(plan, old) = n => old = m
            <4>. TAKE old \in Taken(plan)
            <4>. HAVE NewName(plan, old) = n
            <4>1. PICK c \in OfKind(plan, "rename") : c.from = old /\ c.column = n
                BY NewNameIs
            <4>2. c.from = r.from
                BY <2>2, <3>1, <3>2, <4>1 DEF WellPlanned, OfKind
            <4>. QED
                BY <3>1, <4>1, <4>2
        <3>6. (CHOOSE old \in Taken(plan) : NewName(plan, old) = n) = m
            BY <3>2, <3>3, <3>5
        <3>. QED
            BY <3>4, <3>6 DEF Was
    <2>6. ASSUME n = m
          PROVE  n \notin Given(plan) /\ n \notin Taken(plan)
        <3>1. ASSUME n \in Given(plan) PROVE FALSE
            <4>1. PICK old \in Taken(plan) : n = NewName(plan, old)
                BY <3>1 DEF Given
            <4>2. PICK c \in OfKind(plan, "rename") : c.from = old /\ c.column = n
                BY <4>1, NewNameIs
            <4>3. c \in all /\ c.kind = "rename"
                BY <2>1, <4>2 DEF OfKind
            <4>. QED
                BY <1>3, <2>3, <2>6, <4>2, <4>3
        <3>2. ASSUME n \in Taken(plan) PROVE FALSE
            <4>1. PICK c \in OfKind(plan, "rename") : c.from = n
                BY <3>2 DEF Taken
            <4>2. c \in all /\ c.kind = "rename"
                BY <2>1, <4>1 DEF OfKind
            <4>3. PICK b \in DOMAIN want : c.from = want[b].from
                BY <1>3, <4>2
            <4>. QED
                BY <4>1, <4>3 DEF Renamable
        <3>. QED
            BY <3>1, <3>2
    <2>7. n \in Keeping(live, plan) /\ Was(plan, n) = m
        <3>1. CASE n # m
            BY <2>5, <3>1 DEF Keeping
        <3>2. CASE n = m
            BY <2>6, <3>2 DEF Keeping, Was
        <3>. QED
            BY <3>1, <3>2
    <2>8. after[n] = Kept(live, plan, n)
        <3>1. Keeping(live, plan) \cap Additions(plan) = {}
            BY <2>1, <2>2, WasIs
        <3>. QED
            BY <2>2, <2>7, <3>1, AlteredIs
    <2>9. live[m] \in Idents
        BY DEF Live
    <2>. QED
        BY <2>1, <2>2, <2>7, <2>8, <2>9, KeptIs
<1>. QED
    BY <1>5, <1>6

(* The rows a rollback read. *)
LEMMA RowsAre ==
    ASSUME NEW x, NEW m, HistoriesOK(m), Led(x, m), NEW c \in Catalogs, NEW rows, rows = ReadOf(x, m, c),
           NEW size, size = x.read[c]
    PROVE  /\ size \in Nat /\ size <= Len(m[c]) /\ Len(m[c]) \in Nat
           /\ Len(rows) = size /\ DOMAIN rows = 1 .. size
           /\ \A i \in 1 .. size : rows[i] = m[c][i] /\ RowOK(rows[i])
           /\ Last(rows) = rows[size]
<1>1. PICK s : s = m[c]
    OBVIOUS
<1>2. s \in Seq({s[i] : i \in DOMAIN s}) /\ \A i \in DOMAIN s : RowOK(s[i])
    BY <1>1 DEF HistoriesOK
<1>3. size \in Nat /\ size <= Len(s)
    BY <1>1 DEF Led
<1>4. rows = SubSeq(s, 1, size)
    BY <1>1 DEF ReadOf
<1>5. /\ Len(rows) = size /\ DOMAIN rows = 1 .. size /\ Len(s) \in Nat /\ DOMAIN s = 1 .. Len(s)
      /\ \A i \in 1 .. size : rows[i] = s[i]
    BY <1>2, <1>3, <1>4
<1>6. \A i \in 1 .. size : i \in DOMAIN s
    BY <1>3, <1>5
<1>7. Last(rows) = rows[size]
    BY <1>5, Zenon DEF Last
<1>. QED
    BY <1>1, <1>2, <1>3, <1>5, <1>6, <1>7

(* A rollback that was applied: each column of the spec it restores is the one *)
(* that went by its name when a row of the version it restores was written.    *)
LEMMA ColumnFound ==
    ASSUME IInv, Levels, NEW p \in Operators, NEW x, x = run[p], RolledBack(x), NEW t \in Targets(x.spec),
           RenamesAreTold(t, x), ~ ClaimsAFailedRename(t, x), ~ NameIsReused(t, x),
           NEW rows, rows = Before(CatalogOf[t], x), NEW k \in DOMAIN rows, rows[k].version = x.target,
           NEW n \in DOMAIN rows[k].live[t], n \in DOMAIN Wanted(x.spec, t)
    PROVE  lake[t][n].id = rows[k].live[t][n].id
<1>1. /\ Shape(x) /\ Stage(x) /\ Level(x, lake) /\ Way(x, lake, meta)
      /\ LakeOK(lake) /\ HistoriesOK(meta) /\ Lasts(lake, meta) /\ t \in TableSet
    BY DEF IInv, Levels, Targets
<1>2. Executed(x) /\ x.rollback /\ ~ x.failed /\ ~ x.overtaken /\ ~ Contested(x)
    BY DEF RolledBack
<1>3. x.landed = Changes(x) /\ x.pc \notin {"idle", "dead", "diff"} /\ x.spec \in Specs
    BY <1>1, <1>2, ExecutedIsWhole
<1>4. Sound(x) /\ Led(x, meta) /\ FoundAs(x, lake, meta, t)
    BY <1>1, <1>2, <1>3 DEF Level, Way, Reached
<1>5. PICK c \in Catalogs : c = CatalogOf[t]
    BY <1>1, TablesAre
<1>6. PICK size : size = x.read[c]
    OBVIOUS
<1>7. rows = ReadOf(x, meta, c)
    BY <1>5 DEF Before, ReadOf
<1>8. /\ size \in Nat /\ size <= Len(meta[c]) /\ Len(meta[c]) \in Nat
      /\ Len(rows) = size /\ DOMAIN rows = 1 .. size
      /\ \A i \in 1 .. size : rows[i] = meta[c][i] /\ RowOK(rows[i])
      /\ Last(rows) = rows[size]
    BY <1>1, <1>4, <1>6, <1>7, RowsAre
<1>9. PICK found : found = x.found[t]
    OBVIOUS
<1>10. PICK plan : plan = x.plan[t]
    OBVIOUS
<1>11. PICK want : want = Overlaid(x, t)
    OBVIOUS
<1>12. /\ Live(found) /\ plan = DiffTable(want, found)
       /\ \A i \in 1 .. size : Ids(meta[c][i].live[t]) \subseteq Ids(found)
       /\ IF t \in x.landed THEN Accepts(found, plan) /\ ~ Breaking(plan) /\ lake[t] = Altered(found, plan)
          ELSE lake[t] = found
    <2>1. /\ Live(found) /\ PlannedFor(plan, want, found)
          /\ \A i \in 1 .. size : Ids(meta[c][i].live[t]) \subseteq Ids(found)
          /\ IF t \in x.landed
             THEN Accepts(found, plan) /\ ~ Breaking(plan) /\ lake[t] = Altered(found, plan)
             ELSE lake[t] = found
        BY <1>2, <1>4, <1>5, <1>6, <1>9, <1>10, <1>11 DEF FoundAs
    <2>2. Accepts(found, plan) \/ (plan.action = "none" /\ want # << >>)
        <3>1. want # << >>
            BY <1>3, <1>4, <1>11, OverlaidIs
        <3>2. t \notin x.landed => plan.action = "none"
            BY <1>1, <1>3, <1>10 DEF Changes
        <3>. QED
            BY <2>1, <3>1, <3>2
    <2>. QED
        BY <2>1, <2>2, PlannedAccepts
<1>13. ASSUME NEW i \in 1 .. size
       PROVE  /\ rows[i].version \in Nat /\ IsFiniteSet(rows[i].renames) /\ Live(rows[i].live[t])
              /\ Ids(rows[i].live[t]) \subseteq Ids(found)
              /\ \A j \in 1 .. i : Ids(rows[j].live[t]) \subseteq Ids(rows[i].live[t])
    <2>1. i \in 1 .. Len(meta[c]) /\ rows[i] = meta[c][i] /\ RowOK(rows[i])
        BY <1>8
    <2>2. /\ IsFiniteSet(meta[c][i].renames) /\ Live(meta[c][i].live[t])
          /\ \A j \in 1 .. i : Ids(meta[c][j].live[t]) \subseteq Ids(meta[c][i].live[t])
        BY <1>1, <1>5, <2>1 DEF Lasts
    <2>3. \A j \in 1 .. i : rows[j] = meta[c][j]
        BY <1>8
    <2>4. rows[i].version \in Nat
        BY <2>1, MigrationAssumption DEF RowOK
    <2>. QED
        BY <1>12, <2>1, <2>2, <2>3, <2>4
<1>14. PICK times : times = Times(rows, size, t, found)
    OBVIOUS
<1>15. (\A i \in 1 .. size : times[i] = rows[i].live[t]) /\ times[size + 1] = found
    BY <1>8, <1>14 DEF Times
<1>16. \A i \in 1 .. size + 1 : i \in 1 .. size \/ i = size + 1
    BY <1>8
<1>17. \A i, j \in 1 .. size + 1 : \A a \in DOMAIN times[i] \cap DOMAIN times[j] :
          times[i][a].id = times[j][a].id
    <2>1. PICK all : all = {rows[i].live[t] : i \in DOMAIN rows} \cup {found}
        OBVIOUS
    <2>2. \A early, late \in all : \A a \in DOMAIN early \cap DOMAIN late : early[a].id = late[a].id
        <3>1. PICK had : had = {Before(CatalogOf[t], x)[i].live[t] : i \in DOMAIN Before(CatalogOf[t], x)}
                               \cup {x.found[t]}
            OBVIOUS
        <3>2. ~ \E early, late \in had : \E a \in DOMAIN early \cap DOMAIN late : early[a].id # late[a].id
            BY <3>1, Zenon DEF NameIsReused
        <3>3. had = all
            BY <1>9, <2>1, <3>1
        <3>. QED
            BY <3>2, <3>3
    <2>3. ASSUME NEW i \in 1 .. size + 1 PROVE times[i] \in all
        <3>1. CASE i \in 1 .. size
            <4>1. rows[i].live[t] \in all
                BY <1>8, <2>1, <3>1
            <4>. QED
                BY <1>15, <3>1, <4>1
        <3>2. CASE i = size + 1
            BY <1>15, <2>1, <3>2
        <3>. QED
            BY <1>16, <3>1, <3>2
    <2>. QED
        BY <2>2, <2>3
<1>18. \A i \in 1 .. size + 1 : \A a, b \in DOMAIN times[i] : times[i][a].id = times[i][b].id => a = b
    BY <1>12, <1>13, <1>15, <1>16 DEF Live
<1>19. \A i, j \in 1 .. size + 1 : i <= j => Ids(times[i]) \subseteq Ids(times[j])
    <2>. TAKE i \in 1 .. size + 1, j \in 1 .. size + 1
    <2>. HAVE i <= j
    <2>1. CASE j = size + 1
        BY <1>13, <1>15, <1>16, <2>1
    <2>2. CASE j \in 1 .. size
        <3>1. i \in 1 .. j /\ i \in 1 .. size
            BY <1>8, <2>2
        <3>. QED
            BY <1>13, <1>15, <2>2, <3>1
    <2>. QED
        BY <1>16, <2>1, <2>2
<1>20. /\ \A i \in 2 .. size :
            /\ rows[i - 1].version < rows[i].version
            /\ Tells(rows[i - 1].live[t], rows[i].live[t], {r \in rows[i].renames : r.table = t})
       /\ Tells(rows[size].live[t], found, {})
    BY <1>8, <1>9 DEF RenamesAreTold
<1>21. \A i \in 1 .. size : \A r \in rows[i].renames : r.table = t => r.new \in DOMAIN rows[i].live[t]
    BY <1>8 DEF ClaimsAFailedRename
<1>22. PICK newestFirst \in BOOLEAN :
          x.overlay[t] = ReverseRenames(RenamesSince(rows, t, rows[k].version, newestFirst))
    BY <1>1, <1>4, <1>5, <1>7 DEF Led
<1>23. PICK told : told = RenamesSince(rows, t, rows[k].version, newestFirst)
    OBVIOUS
<1>24. k \in 1 .. size
    BY <1>8
<1>25. Chronicle(times, size + 1, k, told)
    <2>1. size \in Nat /\ DOMAIN rows = 1 .. size
        BY <1>8
    <2>2. \A i \in 1 .. size : rows[i].version \in Nat /\ IsFiniteSet(rows[i].renames)
        BY <1>13
    <2>3. Recounted(rows, size, t, found, times)
        BY <1>14, <1>17, <1>18, <1>19, <1>20, <1>21, <2>1, <2>2, Zenon DEF Recounted
    <2>4. Chronicle(times, size + 1, k, RenamesSince(rows, t, rows[k].version, newestFirst))
        BY <1>24, <2>1, <2>3, ChronicleIs
    <2>. QED
        BY <1>23, <2>4, Zenon
<1>26. times[k] = rows[k].live[t] /\ n \in DOMAIN times[k]
    BY <1>15, <1>24
<1>27. PICK m \in DOMAIN found : found[m].id = times[k][n].id
    BY <1>13, <1>24, <1>26 DEF Ids
<1>28. n # m => n \in DOMAIN x.overlay[t] /\ x.overlay[t][n] = m
    <2>1. m \in DOMAIN times[size + 1] /\ times[k][n].id = times[size + 1][m].id
        BY <1>15, <1>27
    <2>2. LET over == ReverseRenames(told)
          IN  IF n = m THEN n \notin DOMAIN over ELSE n \in DOMAIN over /\ over[n] = m
        BY <1>25, <1>26, <2>1, WayBackIs
    <2>. QED
        BY <1>22, <1>23, <2>2
<1>29. /\ Columns(want) /\ want # << >> /\ Renamable(want) /\ n \in DOMAIN want
       /\ n \in DOMAIN x.overlay[t] => want[n].from = x.overlay[t][n]
    BY <1>3, <1>4, <1>11, OverlaidIs
<1>30. n # m => n \notin DOMAIN found
    <2>1. k \in 1 .. size + 1 /\ size + 1 \in 1 .. size + 1
        BY <1>8, <1>24
    <2>2. n \in DOMAIN found => found[n].id = times[k][n].id
        BY <1>15, <1>17, <1>26, <2>1
    <2>3. \A a, b \in DOMAIN found : found[a].id = found[b].id => a = b
        BY <1>12 DEF Live
    <2>. QED
        BY <1>27, <2>2, <2>3
<1>31. \A r, s \in OfKind(plan, "rename") : r.from = s.from => r = s
    BY <1>1, <1>2, <1>10 DEF Contested
<1>32. IF plan.action = "none" THEN lake[t] = found
       ELSE Accepts(found, plan) /\ ~ Breaking(plan) /\ lake[t] = Altered(found, plan)
    BY <1>1, <1>3, <1>10, <1>12 DEF Changes
<1>33. lake[t][n].id = found[m].id
    BY <1>12, <1>28, <1>29, <1>30, <1>31, <1>32, ColumnComesBack
<1>. QED
    BY <1>26, <1>27, <1>33

(* For any specs, any interleaving and any failures: a rollback that was applied, and *)
(* not overtaken, finds each column again, whatever the number of renames it inverts. *)
THEOREM ColumnsAreFound == Spec => []RollbackFindsTheColumns
<1>1. Init => IInv /\ Levels
    BY InitInv, LevelsInit
<1>2. IInv /\ Levels /\ [Next]_vars => IInv' /\ Levels'
    BY NextInv, LevelsNext
<1>3. ASSUME IInv, Levels, NEW p \in Operators, RolledBack(run[p]), NEW t \in Targets(run[p].spec),
             RenamesAreTold(t, run[p]), ~ ClaimsAFailedRename(t, run[p]), ~ NameIsReused(t, run[p])
      PROVE  BringsBack(t, run[p])
    <2>1. PICK x : x = run[p]
        OBVIOUS
    <2>2. PICK rows : rows = Before(CatalogOf[t], x)
        OBVIOUS
    <2>3. /\ RolledBack(x) /\ t \in Targets(x.spec)
          /\ RenamesAreTold(t, x) /\ ~ ClaimsAFailedRename(t, x) /\ ~ NameIsReused(t, x)
        BY <1>3, <2>1
    <2>4. ASSUME NEW k \in DOMAIN rows, rows[k].version = x.target,
                 NEW n \in DOMAIN rows[k].live[t], n \in DOMAIN Wanted(x.spec, t)
          PROVE  lake[t][n].id = rows[k].live[t][n].id
        BY <1>3, <2>1, <2>2, <2>3, <2>4, ColumnFound
    <2>5. BringsBack(t, x)
        BY <2>2, <2>4 DEF BringsBack
    <2>. QED
        BY <2>1, <2>5
<1>4. IInv /\ Levels => RollbackFindsTheColumns
    <2>. SUFFICES ASSUME IInv, Levels PROVE RollbackFindsTheColumns
        OBVIOUS
    <2>. QED
        BY <1>3, Zenon DEF RollbackFindsTheColumns
<1>. QED
    BY <1>1, <1>2, <1>4, PTL DEF Spec
=============================================================================
