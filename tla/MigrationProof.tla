--------------------------- MODULE MigrationProof ---------------------------
(* Proofs about Migration. *)
EXTENDS Migration, FiniteSetTheorems, TLAPS

(* A nonempty set of numbers has a least one. *)
LEMMA LeastExists ==
    ASSUME NEW S \in SUBSET Nat, S # {}
    PROVE  \E x \in S : \A y \in S : x <= y
<1>1. IsWellFoundedOn(OpToRel(<, Nat), Nat)
    BY NatLessThanWellFounded
<1>2. \E x \in S : \A y \in S : ~ (<<y, x>> \in OpToRel(<, Nat))
    BY <1>1, WFMin
<1>3. \A y, x \in Nat : y < x => <<y, x>> \in OpToRel(<, Nat)
    <2>. TAKE y, x \in Nat
    <2>. HAVE y < x
    <2>1. <<y, x>> \in Nat \X Nat /\ <<y, x>>[1] < <<y, x>>[2]
        OBVIOUS
    <2>. QED
        BY <2>1, Zenon DEF OpToRel
<1>4. PICK x \in S : \A y \in S : ~ (<<y, x>> \in OpToRel(<, Nat))
    BY <1>2
<1>5. \A y \in S : x <= y
    <2>. TAKE y \in S
    <2>1. ~ (y < x)
        BY <1>3, <1>4
    <2>. QED
        BY <2>1
<1>. QED
    BY <1>5

(* A nonempty set of numbers up to a bound has a greatest one. *)
LEMMA GreatestExists ==
    ASSUME NEW n \in Nat, NEW S \in SUBSET (0..n), S # {}
    PROVE  \E x \in S : \A y \in S : y <= x
<1>. DEFINE T == {k \in Nat : n - k \in S}
<1>1. \A y \in S : y \in Nat /\ n - y \in Nat /\ n - (n - y) = y
    OBVIOUS
<1>2. T \in SUBSET Nat /\ T # {} /\ \A y \in S : n - y \in T
    BY <1>1
<1>3. PICK m \in T : \A k \in T : m <= k
    BY <1>2, LeastExists
<1>4. n - m \in S /\ \A y \in S : m <= n - y
    BY <1>2, <1>3
<1>. QED
    BY <1>4

LEMMA HighestIs ==
    ASSUME NEW n \in Nat, NEW versions \in SUBSET (1..n)
    PROVE  /\ Highest(versions) \in 0..n
           /\ \A v \in versions : v <= Highest(versions)
           /\ versions # {} => Highest(versions) \in versions
<1>1. CASE versions = {}
    BY <1>1 DEF Highest
<1>2. CASE versions # {}
    <2>1. versions \in SUBSET (0..n)
        OBVIOUS
    <2>2. \E v \in versions : \A w \in versions : w <= v
        BY <1>2, <2>1, GreatestExists
    <2>3. Highest(versions) = CHOOSE v \in versions : \A w \in versions : w <= v
        BY <1>2, Zenon DEF Highest
    <2>4. Highest(versions) \in versions /\ \A w \in versions : w <= Highest(versions)
        BY <2>2, <2>3, Zenon
    <2>5. \A v \in versions : v \in 0..n
        OBVIOUS
    <2>. QED
        BY <2>4, <2>5, Zenon
<1>. QED
    BY <1>1, <1>2

-----------------------------------------------------------------------------
(* The invariant, as a conjunction about each run x, the lake l and the histories m. *)

Fields == DOMAIN Idle

(* A change as diff_table makes it: finite, typed as the spec is, and with one way *)
(* to come by a column.                                                           *)
WellPlanned(change) ==
    /\ change.action \in {"none", "create", "alter"}
    /\ change.action = "none" => change.columns = {}
    /\ change.action = "create" => \A c \in change.columns : c.kind = "add"
    /\ IsFiniteSet(change.columns)
    /\ \A c \in change.columns : c.type \in STRING /\ c.required \in BOOLEAN
    /\ \A c, d \in change.columns : c.column = d.column /\ c.kind = "rename" =>
          d.kind # "add" /\ (d.kind = "rename" => d.from = c.from)

Shape(x) ==
    /\ DOMAIN x = Fields
    /\ x.pc \in PCs /\ x.status \in Statuses
    /\ x.at \in DOMAIN Tables
    /\ x.spec \in Specs /\ x.snap \in Specs
    /\ x.rollback \in BOOLEAN /\ x.failed \in BOOLEAN /\ x.unrecorded \in BOOLEAN
    /\ x.overtaken \in BOOLEAN /\ x.restored \in BOOLEAN /\ x.rewrites \in BOOLEAN
    /\ x.version \in 0 .. MaxRuns
    /\ x.base \in [Catalogs -> Nat]
    /\ DOMAIN x.plan = TableSet
    /\ x.plan = [t \in TableSet |-> x.plan[t]]
    /\ \A t \in TableSet : WellPlanned(x.plan[t])
    /\ Changes(x) \subseteq Targets(x.spec)
    /\ x.pending \subseteq Bound(x)

(* The tables the plan changes, up to position n. *)
UpTo(x, n) == {t \in Changes(x) : \E i \in 1 .. n : t = Tables[i]}

Unbegun(x) ==
    /\ x.tried = {} /\ x.landed = {} /\ x.changed = {} /\ x.wrote = {} /\ x.pending = {}
    /\ x.version = 0 /\ ~ x.failed /\ ~ x.restored

(* How far its tables are: all the planned ones, or those before the one that failed. *)
Whole(x) == ~ x.failed /\ x.landed = Changes(x) /\ x.tried = Changes(x)

Halted(x) ==
    /\ x.failed
    /\ Tables[x.at] \in Changes(x)
    /\ x.landed = UpTo(x, x.at - 1)
    /\ x.tried = UpTo(x, x.at)

Stage(x) ==
    /\ x.landed \subseteq x.changed /\ x.changed \subseteq x.tried
    /\ x.pc \in {"idle", "diff", "confirm", "dead"} => Unbegun(x)
    /\ x.pc = "execute" =>
          /\ ~ x.failed /\ ~ x.restored /\ x.wrote = {} /\ Tables[x.at] \in Changes(x)
          /\ x.landed = UpTo(x, x.at - 1) /\ x.tried = x.landed
    /\ x.pc = "execute" => \A t \in Changes(x) : CatalogOf[t] \in x.pending
    /\ x.pc \in {"execute", "record"} => ~ Refused(x)
    /\ x.pc = "record" => ~ x.restored /\ x.pending # {}
    /\ x.pc \in {"record", "restore", "done"} => x.version = 0 \/ Whole(x) \/ Halted(x)
    /\ x.pc \in {"execute", "record", "restore"} => x.version # 0
    /\ x.pc = "done" /\ x.version = 0 => Unbegun(x)
    /\ x.rollback /\ x.pc = "done" /\ x.landed # {} => x.restored
    /\ x.rollback /\ (x.pc = "restore" \/ x.restored) => x.changed # {} \/ Changes(x) = {}

(* What the histories m hold of a run: the rows it wrote, and older versions below. *)
Told(x, m) ==
    /\ x.version # 0 => \A c \in Bound(x) :
          /\ x.base[c] <= Len(m[c])
          /\ \A i \in 1 .. x.base[c] : m[c][i].version < x.version
    /\ \A written \in x.wrote :
          /\ written[1] \in Bound(x)
          /\ written[2] \in 1 .. Len(m[written[1]])
          /\ LET row == m[written[1]][written[2]]
             IN  /\ row.version = x.version /\ row.status = RowStatus(x)
                 /\ row.renames = RenamesOf(x, written[1])

(* What a rollback has planned of a table it was shown, while nobody overtook it. *)
Foreseen(x, l, t) ==
    t \notin x.missed =>
    /\ x.plan[t] = IF t \in Targets(x.spec) THEN DiffTable(Overlaid(x, t), l[t]) ELSE NoChange
    /\ \A c \in LeftBehind(Wanted(x.snap, t), Wanted(x.spec, t), Overlaid(x, t), l[t]) :
          <<t, c>> \in x.left

Seen(x, l) ==
    x.rollback /\ x.pc \in {"diff", "confirm"} /\ ~ x.overtaken =>
        \A i \in DOMAIN Tables : x.pc = "confirm" \/ i < x.at => Foreseen(x, l, Tables[i])

(* Live columns: typed, and numbered apart within their number. *)
Live(columns) ==
    /\ IsFiniteSet(DOMAIN columns)
    /\ \A c \in DOMAIN columns : columns[c] \in Idents /\ columns[c].id <= Cardinality(DOMAIN columns)
    /\ \A c, d \in DOMAIN columns : columns[c].id = columns[d].id => c = d

LakeOK(l) == DOMAIN l = TableSet /\ \A t \in TableSet : Live(l[t])

RowOK(row) ==
    row.version \in 1 .. MaxRuns /\ row.spec \in Specs /\ row.status \in {"applied", "partial", "failed"}

HistoriesOK(m) ==
    /\ DOMAIN m = Catalogs
    /\ \A c \in Catalogs : /\ m[c] \in Seq({m[c][i] : i \in DOMAIN m[c]})
                           /\ \A i \in DOMAIN m[c] : RowOK(m[c][i])

(* Each version recorded or chosen, and each run that has yet to choose one, was a run *)
(* that began.                                                                         *)
Unnumbered == {p \in Operators : run[p].pc \in {"diff", "confirm"}}

AllVersions == UNION {Versions(c) : c \in Catalogs}

Numbers == AllVersions \cup {run[p].version : p \in Operators} \cup {0}

Counted == \A v \in Numbers : v + Cardinality(Unnumbered) <= begun

IInv ==
    /\ files \in Specs
    /\ begun \in 0 .. MaxRuns /\ edits \in 0 .. MaxEdits /\ faults \in 0 .. MaxFaults
    /\ LakeOK(lake) /\ HistoriesOK(meta)
    /\ DOMAIN run = Operators
    /\ \A p \in Operators :
          Shape(run[p]) /\ Stage(run[p]) /\ Told(run[p], meta) /\ Seen(run[p], lake)
    /\ Counted

-----------------------------------------------------------------------------
(* Tables, changes and runs. *)

LEMMA TablesAre ==
    /\ DOMAIN Tables = 1 .. Len(Tables) /\ Len(Tables) \in Nat \ {0}
    /\ \A i \in DOMAIN Tables : Tables[i] \in TableSet
    /\ \A t \in TableSet : \E i \in DOMAIN Tables : t = Tables[i]
    /\ \A i, j \in DOMAIN Tables : Tables[i] = Tables[j] => i = j
    /\ \A t \in TableSet : CatalogOf[t] \in Catalogs
BY MigrationAssumption DEF TableSet, Catalogs

LEMMA IdleIs ==
    /\ Shape(Idle) /\ Stage(Idle)
    /\ Idle.pc = "idle" /\ Idle.version = 0 /\ Idle.wrote = {}
<1>1. FirstSpec \in Specs /\ MaxRuns \in Nat
    BY MigrationAssumption
<1>2. 1 \in DOMAIN Tables
    BY TablesAre
<1>3. \A t \in TableSet : WellPlanned(NoPlan[t]) /\ NoPlan[t].action = "none"
    BY FS_EmptySet DEF NoPlan, NoChange, WellPlanned
<1>4. /\ Idle.plan = NoPlan /\ Idle.pending = {} /\ Idle.base = NoRows
      /\ Idle.pc = "idle" /\ Idle.version = 0 /\ Idle.wrote = {}
    BY DEF Idle
<1>5. Changes(Idle) = {}
    BY <1>3, <1>4 DEF Changes
<1>6. NoRows \in [Catalogs -> Nat] /\ DOMAIN NoPlan = TableSet
      /\ NoPlan = [t \in TableSet |-> NoPlan[t]]
    BY DEF NoRows, NoPlan
<1>7. Shape(Idle)
    BY <1>1, <1>2, <1>3, <1>4, <1>5, <1>6 DEF Shape, Fields, Idle, PCs, Statuses
<1>8. Stage(Idle)
    BY DEF Stage, Unbegun, Idle
<1>. QED
    BY <1>4, <1>7, <1>8

(* What a change of a few fields leaves alone. *)
SameBut(x, y, fields) == DOMAIN y = Fields /\ \A f \in Fields \ fields : y[f] = x[f]

LEMMA FinishIs ==
    ASSUME NEW x, Shape(x), NEW status \in Statuses, NEW y, y = Finish(x, status)
    PROVE  /\ SameBut(x, y, {"pc", "status"})
           /\ y.status = status
           /\ y.pc = IF x.rollback /\ ~ (status \in {"refused", "failed"} /\ x.landed = {})
                     THEN "restore" ELSE "done"
BY DEF Shape, Finish, SameBut, Fields, Idle

LEMMA ShapeKept ==
    ASSUME NEW x, Shape(x), NEW y, SameBut(x, y, {"pc", "status", "overtaken", "left", "wrote",
               "restored", "unrecorded", "changed", "tried", "landed", "failed", "rewrites"}),
           y.pc \in PCs, y.status \in Statuses, y.restored \in BOOLEAN, y.unrecorded \in BOOLEAN,
           y.failed \in BOOLEAN, y.rewrites \in BOOLEAN, y.overtaken \in BOOLEAN
    PROVE  Shape(y)
<1>1. /\ y.at = x.at /\ y.spec = x.spec /\ y.snap = x.snap /\ y.rollback = x.rollback
      /\ y.version = x.version /\ y.base = x.base /\ y.plan = x.plan /\ y.pending = x.pending
      /\ DOMAIN y = Fields
    BY DEF SameBut, Fields, Idle
<1>2. Changes(y) = Changes(x) /\ Bound(y) = Bound(x)
    BY <1>1 DEF Changes, Bound
<1>. QED
    BY <1>1, <1>2 DEF Shape

LEMMA UpToAdds ==
    ASSUME NEW x, NEW n \in DOMAIN Tables
    PROVE  /\ UpTo(x, n) = UpTo(x, n - 1) \cup ({Tables[n]} \cap Changes(x))
           /\ Tables[n] \notin UpTo(x, n - 1)
BY TablesAre DEF UpTo

(* The changes of a run are those of the plan, whatever else of it is set. *)
LEMMA SamePlan ==
    ASSUME NEW x, NEW y, y.plan = x.plan, y.spec = x.spec
    PROVE  /\ Changes(y) = Changes(x) /\ Bound(y) = Bound(x) /\ (Refused(y) <=> Refused(x))
           /\ \A n : UpTo(y, n) = UpTo(x, n)
           /\ \A i : ChangesFrom(y, i) = ChangesFrom(x, i)
BY DEF Changes, Bound, Refused, UpTo, ChangesFrom

(* A run that begun ends with its files restored where a table moved, and only there. *)
LEMMA FinishStage ==
    ASSUME NEW x, Shape(x), NEW status \in {"applied", "up-to-date", "failed"},
           x.version # 0, Whole(x) \/ Halted(x), ~ x.restored,
           x.landed \subseteq x.changed, x.changed \subseteq x.tried,
           status # "failed" => ~ x.failed,
           NEW y, y = Finish(x, status)
    PROVE  Shape(y) /\ Stage(y)
<1>1. status \in Statuses
    BY DEF Statuses
<1>2. /\ SameBut(x, y, {"pc", "status"}) /\ y.status = status
      /\ y.pc = IF x.rollback /\ ~ (status \in {"refused", "failed"} /\ x.landed = {})
                THEN "restore" ELSE "done"
    BY <1>1, FinishIs
<1>3. /\ y.landed = x.landed /\ y.changed = x.changed /\ y.tried = x.tried /\ y.plan = x.plan
      /\ y.spec = x.spec /\ y.at = x.at /\ y.failed = x.failed /\ y.version = x.version
      /\ y.rollback = x.rollback /\ y.restored = x.restored
      /\ y.unrecorded = x.unrecorded /\ y.rewrites = x.rewrites /\ y.overtaken = x.overtaken
    BY <1>2 DEF SameBut, Fields, Idle
<1>4. y.pc \in {"restore", "done"}
    BY <1>2
<1>5. Changes(y) = Changes(x) /\ \A n : UpTo(y, n) = UpTo(x, n)
    BY <1>3, SamePlan
<1>6. Shape(y)
    <2>1. SameBut(x, y, {"pc", "status", "overtaken", "left", "wrote",
               "restored", "unrecorded", "changed", "tried", "landed", "failed", "rewrites"})
        BY <1>2 DEF SameBut, Fields, Idle
    <2>2. /\ y.pc \in PCs /\ y.status \in Statuses /\ y.restored \in BOOLEAN
          /\ y.unrecorded \in BOOLEAN /\ y.failed \in BOOLEAN /\ y.rewrites \in BOOLEAN
          /\ y.overtaken \in BOOLEAN
        BY <1>1, <1>2, <1>3, <1>4 DEF Shape, PCs
    <2>. QED
        BY <2>1, <2>2, ShapeKept
<1>7. Whole(y) \/ Halted(y)
    BY <1>3, <1>5 DEF Whole, Halted
<1>8. y.pc = "restore" => y.changed # {} \/ Changes(y) = {}
    <2>1. CASE x.landed # {}
        BY <1>3, <2>1
    <2>2. CASE status # "failed"
        BY <1>3, <1>5, <2>2 DEF Whole, Halted
    <2>. QED
        BY <1>2, <2>1, <2>2
<1>9. y.pc = "done" /\ y.rollback => y.landed = {}
    BY <1>2, <1>3
<1>. QED
    BY <1>3, <1>4, <1>6, <1>7, <1>8, <1>9 DEF Stage

LEMMA OnwardIs ==
    ASSUME NEW x, Shape(x), NEW i \in 1 .. Len(Tables) + 1, NEW y, y = Onward(x, i)
    PROVE  /\ SameBut(x, y, {"pc", "at"})
           /\ \/ ChangesFrom(x, i) = {} /\ y.pc = "record" /\ y.at = x.at
              \/ /\ y.pc = "execute" /\ y.at \in ChangesFrom(x, i)
                 /\ \A k \in ChangesFrom(x, i) : y.at <= k
<1>1. CASE ChangesFrom(x, i) = {}
    BY <1>1 DEF Onward, SameBut, Shape, Fields, Idle
<1>2. CASE ChangesFrom(x, i) # {}
    <2>1. ChangesFrom(x, i) \in SUBSET Nat
        BY DEF ChangesFrom
    <2>2. \E j \in ChangesFrom(x, i) : \A k \in ChangesFrom(x, i) : j <= k
        BY <1>2, <2>1, LeastExists
    <2>3. PICK n : n = CHOOSE j \in ChangesFrom(x, i) : \A k \in ChangesFrom(x, i) : j <= k
        OBVIOUS
    <2>4. n \in ChangesFrom(x, i) /\ \A k \in ChangesFrom(x, i) : n <= k
        BY <2>2, <2>3
    <2>5. y = [x EXCEPT !.pc = "execute", !.at = n]
        BY <1>2, <2>3 DEF Onward
    <2>. QED
        BY <2>4, <2>5 DEF SameBut, Shape, Fields, Idle
<1>. QED
    BY <1>1, <1>2

(* Going on from where every change so far has landed. *)
LEMMA OnwardStage ==
    ASSUME NEW x, Shape(x), NEW i \in 1 .. Len(Tables) + 1, NEW y, y = Onward(x, i),
           ~ x.failed, ~ x.restored, x.wrote = {}, x.version # 0, ~ Refused(x), x.pending # {},
           \A t \in Changes(x) : CatalogOf[t] \in x.pending,
           x.landed = UpTo(x, i - 1), x.tried = x.landed, x.changed = x.landed
    PROVE  Shape(y) /\ Stage(y)
<1>1. /\ SameBut(x, y, {"pc", "at"})
      /\ \/ ChangesFrom(x, i) = {} /\ y.pc = "record" /\ y.at = x.at
         \/ /\ y.pc = "execute" /\ y.at \in ChangesFrom(x, i)
            /\ \A k \in ChangesFrom(x, i) : y.at <= k
    BY OnwardIs
<1>2. /\ y.landed = x.landed /\ y.changed = x.changed /\ y.tried = x.tried /\ y.plan = x.plan
      /\ y.spec = x.spec /\ y.snap = x.snap /\ y.failed = x.failed /\ y.version = x.version
      /\ y.rollback = x.rollback /\ y.restored = x.restored /\ y.status = x.status
      /\ y.unrecorded = x.unrecorded /\ y.rewrites = x.rewrites /\ y.overtaken = x.overtaken
      /\ y.pending = x.pending /\ y.base = x.base /\ y.wrote = x.wrote /\ DOMAIN y = Fields
    BY <1>1 DEF SameBut, Fields, Idle
<1>3. /\ Changes(y) = Changes(x) /\ Bound(y) = Bound(x) /\ (Refused(y) <=> Refused(x))
      /\ \A n : UpTo(y, n) = UpTo(x, n)
    BY <1>2, SamePlan
<1>4. y.at \in DOMAIN Tables
    BY <1>1, TablesAre DEF Shape, ChangesFrom
<1>5. Shape(y)
    BY <1>1, <1>2, <1>3, <1>4 DEF Shape, PCs
<1>6. CASE y.pc = "record"
    <2>1. UpTo(x, i - 1) = Changes(x)
        <3>1. ChangesFrom(x, i) = {}
            BY <1>1, <1>6
        <3>2. ASSUME NEW t \in Changes(x) PROVE \E n \in 1 .. i - 1 : t = Tables[n]
            <4>1. PICK n \in DOMAIN Tables : t = Tables[n]
                BY TablesAre DEF Changes
            <4>2. ~ (n \in i .. Len(Tables))
                BY <3>1, <4>1 DEF ChangesFrom
            <4>. QED
                BY <4>1, <4>2, TablesAre
        <3>. QED
            BY <3>2 DEF UpTo
    <2>2. Whole(y)
        BY <1>2, <1>3, <2>1 DEF Whole
    <2>. QED
        BY <1>2, <1>3, <1>5, <1>6, <2>2 DEF Stage
<1>7. CASE y.pc = "execute"
    <2>1. y.at \in ChangesFrom(x, i) /\ \A k \in ChangesFrom(x, i) : y.at <= k
        BY <1>1, <1>7
    <2>2. Tables[y.at] \in Changes(x) /\ y.at \in i .. Len(Tables)
        BY <2>1 DEF ChangesFrom
    <2>3. UpTo(x, y.at - 1) = UpTo(x, i - 1)
        <3>1. ASSUME NEW n \in 1 .. y.at - 1, Tables[n] \in Changes(x) PROVE n \in 1 .. i - 1
            <4>1. n \notin ChangesFrom(x, i)
                BY <2>1, <2>2
            <4>. QED
                BY <2>2, <3>1, <4>1 DEF ChangesFrom
        <3>2. \A n \in 1 .. i - 1 : n \in 1 .. y.at - 1
            BY <2>2
        <3>. QED
            BY <3>1, <3>2 DEF UpTo
    <2>. QED
        BY <1>2, <1>3, <1>5, <1>7, <2>2, <2>3 DEF Stage
<1>. QED
    BY <1>1, <1>6, <1>7

(* A table that was tried; where it failed the run goes on to its record. *)
LEMMA AfterTableStage ==
    ASSUME NEW x, Shape(x), Stage(x), x.pc = "execute", NEW ok \in BOOLEAN,
           NEW now, now \in {x.changed, x.changed \cup {Tables[x.at]}},
           ok => now = x.changed \cup {Tables[x.at]},
           NEW y, y = AfterTable([x EXCEPT !.changed = now], ok)
    PROVE  /\ Shape(y) /\ Stage(y) /\ y.pc \in {"execute", "record"}
           /\ y.version = x.version /\ y.base = x.base /\ y.spec = x.spec /\ y.wrote = {}
<1>. DEFINE t == Tables[x.at]
            z == Tried([x EXCEPT !.changed = now], ok)
<1>1. /\ x.landed = UpTo(x, x.at - 1) /\ x.tried = x.landed /\ x.changed = x.landed
      /\ ~ x.failed /\ ~ x.restored /\ x.wrote = {} /\ t \in Changes(x) /\ x.version # 0
      /\ ~ Refused(x) /\ \A u \in Changes(x) : CatalogOf[u] \in x.pending
      /\ x.at \in DOMAIN Tables /\ DOMAIN x = Fields
    BY DEF Stage, Shape
<1>2. /\ SameBut(x, z, {"changed", "tried", "landed", "failed"})
      /\ z.changed = now /\ z.tried = x.tried \cup {t}
      /\ z.failed = (~ ok) /\ z.landed = IF ok THEN x.landed \cup {t} ELSE x.landed
    BY <1>1 DEF Tried, SameBut, Fields, Idle
<1>. HIDE DEF z
<1>3. /\ z.plan = x.plan /\ z.spec = x.spec /\ z.at = x.at /\ z.version = x.version
      /\ z.rollback = x.rollback /\ z.restored = x.restored /\ z.status = x.status /\ z.pc = x.pc
      /\ z.unrecorded = x.unrecorded /\ z.rewrites = x.rewrites /\ z.overtaken = x.overtaken
      /\ z.pending = x.pending /\ z.base = x.base /\ z.wrote = x.wrote /\ DOMAIN z = Fields
    BY <1>2 DEF SameBut, Fields, Idle
<1>4. /\ Changes(z) = Changes(x) /\ Bound(z) = Bound(x) /\ (Refused(z) <=> Refused(x))
      /\ \A n : UpTo(z, n) = UpTo(x, n)
    BY <1>3, SamePlan
<1>5. Shape(z)
    <2>1. SameBut(x, z, {"pc", "status", "overtaken", "left", "wrote",
               "restored", "unrecorded", "changed", "tried", "landed", "failed", "rewrites"})
        BY <1>2 DEF SameBut
    <2>2. /\ z.pc \in PCs /\ z.status \in Statuses /\ z.restored \in BOOLEAN
          /\ z.unrecorded \in BOOLEAN /\ z.failed \in BOOLEAN /\ z.rewrites \in BOOLEAN
          /\ z.overtaken \in BOOLEAN
        BY <1>2, <1>3 DEF Shape
    <2>. QED
        BY <2>1, <2>2, ShapeKept
<1>6. UpTo(x, x.at) = UpTo(x, x.at - 1) \cup {t}
    BY <1>1, UpToAdds
<1>7. CASE ok
    <2>1. y = Onward(z, x.at + 1)
        BY <1>1, <1>3, <1>7 DEF AfterTable, z, Tried, Fields, Idle
    <2>2. x.at + 1 \in 1 .. Len(Tables) + 1 /\ (x.at + 1) - 1 = x.at
        BY <1>1, TablesAre
    <2>3. z.landed = UpTo(z, x.at) /\ z.tried = z.landed /\ z.changed = z.landed /\ ~ z.failed
        BY <1>1, <1>2, <1>4, <1>6, <1>7
    <2>4. z.pending # {} /\ \A u \in Changes(z) : CatalogOf[u] \in z.pending
        BY <1>1, <1>3, <1>4
    <2>5. Shape(y) /\ Stage(y)
        BY <1>1, <1>3, <1>4, <1>5, <2>1, <2>2, <2>3, <2>4, OnwardStage
    <2>6. SameBut(z, y, {"pc", "at"}) /\ y.pc \in {"execute", "record"}
        BY <1>5, <2>1, <2>2, OnwardIs
    <2>. QED
        BY <1>1, <1>3, <2>5, <2>6 DEF SameBut, Fields, Idle
<1>8. CASE ~ ok
    <2>1. y = [z EXCEPT !.pc = "record"]
        BY <1>8 DEF AfterTable, z
    <2>2. /\ SameBut(z, y, {"pc", "status", "overtaken", "left", "wrote",
               "restored", "unrecorded", "changed", "tried", "landed", "failed", "rewrites"})
          /\ y.pc = "record" /\ y.landed = z.landed /\ y.changed = z.changed /\ y.tried = z.tried
          /\ y.failed = z.failed /\ y.plan = z.plan /\ y.spec = z.spec /\ y.at = z.at
          /\ y.version = z.version /\ y.restored = z.restored /\ y.pending = z.pending
          /\ y.rollback = z.rollback /\ y.base = z.base /\ y.wrote = z.wrote /\ y.status = z.status
          /\ y.unrecorded = z.unrecorded /\ y.rewrites = z.rewrites /\ y.overtaken = z.overtaken
        BY <1>3, <2>1 DEF SameBut, Fields, Idle
    <2>3. Shape(y)
        BY <1>5, <2>2, ShapeKept DEF Shape, PCs
    <2>4. /\ Changes(y) = Changes(x) /\ (Refused(y) <=> Refused(x))
          /\ \A n : UpTo(y, n) = UpTo(x, n)
        BY <1>3, <2>2, SamePlan
    <2>5. Halted(y)
        <3>1. y.at = x.at /\ y.failed /\ t \in Changes(y)
            BY <1>1, <1>2, <1>3, <1>8, <2>2, <2>4
        <3>2. y.landed = UpTo(x, x.at - 1) /\ y.tried = UpTo(x, x.at)
            BY <1>1, <1>2, <1>6, <1>8, <2>2
        <3>. QED
            BY <2>4, <3>1, <3>2 DEF Halted
    <2>6. y.landed \subseteq y.changed /\ y.changed \subseteq y.tried
        BY <1>1, <1>2, <1>8, <2>2
    <2>7. y.pending # {}
        BY <1>1, <1>3, <2>2
    <2>8. Stage(y)
        BY <1>1, <1>3, <2>2, <2>4, <2>5, <2>6, <2>7 DEF Stage
    <2>. QED
        BY <1>1, <1>3, <2>2, <2>3, <2>8
<1>. QED
    BY <1>7, <1>8

LEMMA NextCatalogIs ==
    ASSUME NEW x, Shape(x), x.pending # {}
    PROVE  NextCatalog(x) \in x.pending
<1>. DEFINE At == {i \in DOMAIN Tables : CatalogOf[Tables[i]] \in x.pending /\ Tables[i] \in Targets(x.spec)}
            First(i) == /\ CatalogOf[Tables[i]] \in x.pending /\ Tables[i] \in Targets(x.spec)
                        /\ \A j \in 1 .. i - 1 :
                             ~(CatalogOf[Tables[j]] \in x.pending /\ Tables[j] \in Targets(x.spec))
<1>1. At # {} /\ At \in SUBSET Nat
    <2>1. PICK c \in x.pending : TRUE
        OBVIOUS
    <2>2. PICK t \in Targets(x.spec) : c = CatalogOf[t]
        BY <2>1 DEF Shape, Bound
    <2>3. PICK i \in DOMAIN Tables : t = Tables[i]
        BY <2>2, TablesAre DEF Targets
    <2>. QED
        BY <2>1, <2>2, <2>3, TablesAre
<1>2. PICK n \in At : \A i \in At : n <= i
    BY <1>1, LeastExists
<1>3. First(n)
    <2>. SUFFICES ASSUME NEW j \in 1 .. n - 1, j \in At PROVE FALSE
        BY <1>2, TablesAre
    <2>. QED
        BY <1>2, TablesAre
<1>4. \E i \in DOMAIN Tables : First(i)
    BY <1>2, <1>3
<1>5. PICK first : first = CHOOSE i \in DOMAIN Tables : First(i)
    OBVIOUS
<1>6. first \in DOMAIN Tables /\ First(first)
    BY <1>4, <1>5
<1>7. NextCatalog(x) = CatalogOf[Tables[first]]
    BY <1>5, Zenon DEF NextCatalog
<1>. QED
    BY <1>6, <1>7

(* A catalog that was recorded, or whose record failed. *)
LEMMA RecordedStage ==
    ASSUME NEW x, Shape(x), Stage(x), x.pc = "record", NEW ok \in BOOLEAN, NEW wrote,
           NEW y, y = Recorded([x EXCEPT !.wrote = wrote], ok)
    PROVE  /\ Shape(y) /\ Stage(y) /\ y.pc \in {"record", "restore", "done"}
           /\ SameBut(x, y, {"pc", "status", "pending", "unrecorded", "wrote"})
           /\ y.wrote = wrote
<1>. DEFINE w == [x EXCEPT !.wrote = wrote]
            then == [w EXCEPT !.pending = @ \ {NextCatalog(w)}, !.unrecorded = @ \/ ~ ok]
<1>1. /\ DOMAIN x = Fields /\ x.pending \subseteq Bound(x) /\ x.unrecorded \in BOOLEAN
      /\ x.pending # {} /\ ~ x.restored /\ x.version # 0 /\ ~ Refused(x)
      /\ x.landed \subseteq x.changed /\ x.changed \subseteq x.tried
      /\ Whole(x) \/ Halted(x)
    BY DEF Shape, Stage
<1>2. /\ SameBut(x, then, {"pending", "unrecorded", "wrote"})
      /\ then.unrecorded \in BOOLEAN /\ then.pending \subseteq x.pending /\ then.wrote = wrote
    BY <1>1 DEF SameBut, Fields, Idle
<1>3. y = IF then.pending # {} THEN then
          ELSE Finish(then, IF then.failed \/ then.unrecorded THEN "failed" ELSE "applied")
    BY DEF Recorded
<1>. HIDE DEF w, then
<1>4. /\ then.landed = x.landed /\ then.changed = x.changed /\ then.tried = x.tried
      /\ then.plan = x.plan /\ then.spec = x.spec /\ then.snap = x.snap /\ then.at = x.at
      /\ then.failed = x.failed /\ then.version = x.version /\ then.rollback = x.rollback
      /\ then.restored = x.restored /\ then.status = x.status /\ then.pc = x.pc
      /\ then.rewrites = x.rewrites /\ then.overtaken = x.overtaken /\ then.base = x.base
      /\ DOMAIN then = Fields
    BY <1>2 DEF SameBut, Fields, Idle
<1>5. /\ Changes(then) = Changes(x) /\ Bound(then) = Bound(x) /\ (Refused(then) <=> Refused(x))
      /\ \A n : UpTo(then, n) = UpTo(x, n)
    BY <1>4, SamePlan
<1>6. Shape(then)
    BY <1>1, <1>2, <1>4, <1>5 DEF Shape
<1>7. Whole(then) \/ Halted(then)
    BY <1>1, <1>4, <1>5 DEF Whole, Halted
<1>8. CASE then.pending # {}
    <2>1. y = then
        BY <1>3, <1>8
    <2>2. Stage(then)
        BY <1>1, <1>4, <1>5, <1>7, <1>8 DEF Stage
    <2>. QED
        BY <1>2, <1>4, <1>6, <2>1, <2>2 DEF SameBut
<1>9. CASE then.pending = {}
    <2>1. PICK status \in {"applied", "failed"} :
             y = Finish(then, status) /\ (status # "failed" => ~ then.failed)
        BY <1>3, <1>9
    <2>2. Shape(y) /\ Stage(y)
        BY <1>1, <1>4, <1>6, <1>7, <2>1, FinishStage
    <2>3. SameBut(then, y, {"pc", "status"}) /\ y.pc \in {"restore", "done"}
        BY <1>6, <2>1, FinishIs DEF Statuses
    <2>. QED
        BY <1>2, <2>2, <2>3 DEF SameBut, Fields, Idle
<1>. QED
    BY <1>8, <1>9

-----------------------------------------------------------------------------
(* Histories. They only grow, so what they told of a run they go on telling. *)

LEMMA AppendIs ==
    ASSUME NEW s, s \in Seq({s[i] : i \in DOMAIN s}), NEW e, NEW t, t = Append(s, e)
    PROVE  /\ Len(s) \in Nat /\ Len(t) = Len(s) + 1
           /\ DOMAIN s = 1 .. Len(s) /\ DOMAIN t = 1 .. Len(s) + 1
           /\ \A i \in 1 .. Len(s) : t[i] = s[i]
           /\ t[Len(s) + 1] = e
           /\ t \in Seq({t[i] : i \in DOMAIN t})
<1>. DEFINE S == {s[i] : i \in DOMAIN s} \cup {e}
<1>1. s \in Seq(S)
    OBVIOUS
<1>2. /\ t \in Seq(S) /\ Len(t) = Len(s) + 1 /\ Len(s) \in Nat
      /\ DOMAIN s = 1 .. Len(s) /\ DOMAIN t = 1 .. Len(t)
      /\ \A i \in 1 .. Len(s) : t[i] = s[i]
      /\ t[Len(s) + 1] = e
    BY <1>1
<1>3. t \in Seq({t[i] : i \in DOMAIN t})
    BY <1>2
<1>. QED
    BY <1>2, <1>3

(* m becomes n: a catalog's history has the same rows, and perhaps one more. *)
Appended(m, n) ==
    /\ DOMAIN n = Catalogs
    /\ \A c \in Catalogs : /\ Len(m[c]) \in Nat /\ Len(n[c]) \in Nat /\ Len(m[c]) <= Len(n[c])
                           /\ \A i \in 1 .. Len(m[c]) : n[c][i] = m[c][i]

LEMMA ToldKept ==
    ASSUME NEW x, NEW y, NEW m, NEW n, Shape(x), Told(x, m), Appended(m, n),
           y.wrote = x.wrote, y.version = x.version, y.base = x.base, y.spec = x.spec,
           x.wrote # {} => /\ y.failed = x.failed /\ y.landed = x.landed
                           /\ y.tried = x.tried /\ y.plan = x.plan
    PROVE  Told(y, n)
<1>1. Bound(y) = Bound(x) /\ Bound(x) \subseteq Catalogs
    BY DEF Bound, Catalogs, Targets
<1>2. ASSUME x.version # 0, NEW c \in Bound(x)
      PROVE  y.base[c] <= Len(n[c]) /\ \A i \in 1 .. y.base[c] : n[c][i].version < y.version
    <2>1. x.base[c] \in Nat /\ x.base[c] <= Len(m[c])
          /\ \A i \in 1 .. x.base[c] : m[c][i].version < x.version
        BY <1>1, <1>2 DEF Told, Shape
    <2>2. /\ Len(m[c]) \in Nat /\ Len(n[c]) \in Nat /\ Len(m[c]) <= Len(n[c])
          /\ \A i \in 1 .. Len(m[c]) : n[c][i] = m[c][i]
        BY <1>1, <1>2 DEF Appended
    <2>3. \A i \in 1 .. x.base[c] : i \in 1 .. Len(m[c])
        BY <2>1, <2>2
    <2>. QED
        BY <2>1, <2>2, <2>3
<1>3. ASSUME NEW written \in x.wrote
      PROVE  /\ written[1] \in Bound(y)
             /\ written[2] \in 1 .. Len(n[written[1]])
             /\ LET row == n[written[1]][written[2]]
                IN  /\ row.version = y.version /\ row.status = RowStatus(y)
                    /\ row.renames = RenamesOf(y, written[1])
    <2>1. /\ written[1] \in Bound(x) /\ written[2] \in 1 .. Len(m[written[1]])
          /\ LET row == m[written[1]][written[2]]
             IN  /\ row.version = x.version /\ row.status = RowStatus(x)
                 /\ row.renames = RenamesOf(x, written[1])
        BY <1>3 DEF Told
    <2>2. RowStatus(y) = RowStatus(x) /\ \A c : RenamesOf(y, c) = RenamesOf(x, c)
        BY <1>3 DEF RowStatus, RenamesOf
    <2>3. written[2] \in 1 .. Len(n[written[1]])
          /\ n[written[1]][written[2]] = m[written[1]][written[2]]
        BY <1>1, <2>1 DEF Appended
    <2>. QED
        BY <1>1, <2>1, <2>2, <2>3
<1>. QED
    BY <1>1, <1>2, <1>3 DEF Told

-----------------------------------------------------------------------------
(* What a plan is made of. *)

LEMMA ImageFinite ==
    ASSUME NEW f, IsFiniteSet(DOMAIN f)
    PROVE  IsFiniteSet({f[c] : c \in DOMAIN f})
<1>. DEFINE S == DOMAIN f
            T == {f[c] : c \in S}
            g == [c \in S |-> f[c]]
<1>1. g \in Surjection(S, T)
    BY DEF Surjection
<1>. QED
    BY <1>1, FS_Surjection

(* SetToSeq numbers a finite set. *)
LEMMA SetToSeqIs ==
    ASSUME NEW S, IsFiniteSet(S)
    PROVE  /\ DOMAIN SetToSeq(S) = 1 .. Cardinality(S) /\ Cardinality(S) \in Nat
           /\ \A e \in S : \E i \in DOMAIN SetToSeq(S) : SetToSeq(S)[i] = e
<1>1. Cardinality(S) \in Nat /\ ExistsBijection(1 .. Cardinality(S), S)
    BY FS_CardinalityType
<1>2. PICK n : n = Cardinality(S)
    OBVIOUS
<1>3. \E f \in [1 .. n -> S] : IsInjective(f)
    BY <1>1, <1>2 DEF ExistsBijection, Bijection, Injection
<1>4. PICK f : f = SetToSeq(S)
    OBVIOUS
<1>5. f \in [1 .. n -> S] /\ IsInjective(f)
    BY <1>2, <1>3, <1>4 DEF SetToSeq
<1>6. f \in Injection(1 .. n, S)
    BY <1>5 DEF Injection
<1>7. IsFiniteSet(1 .. n) /\ Cardinality(1 .. n) = n
    BY <1>1, <1>2, FS_Interval
<1>8. f \in Surjection(1 .. n, S)
    BY <1>2, <1>6, <1>7, FS_Injection
<1>. QED
    BY <1>1, <1>2, <1>4, <1>5, <1>8 DEF Surjection

(* Columns as a spec wants them. *)
Columns(desired) ==
    /\ IsFiniteSet(DOMAIN desired)
    /\ desired = [c \in DOMAIN desired |-> desired[c]]
    /\ \A c \in DOMAIN desired : desired[c].type \in STRING /\ desired[c].required \in BOOLEAN

LEMMA WantedTyped ==
    ASSUME NEW spec \in Specs, NEW t \in TableSet, NEW overlay
    PROVE  Columns(Wanted(spec, t)) /\ Columns(ApplyRenames(Wanted(spec, t), overlay))
<1>. DEFINE D == Declarations(Ontology[spec])
            here == {d \in D : d.table = t}
            W == Wanted(spec, t)
<1>1. IsFiniteSet(D) /\ \A d \in D : d.type \in STRING /\ d.required \in BOOLEAN
    BY MigrationAssumption
<1>2. W = Desired(Ontology[spec], t)
    BY DEF Wanted, DesiredTables
<1>3. IsFiniteSet({d.column : d \in here})
    <2>1. IsFiniteSet(here)
        BY <1>1, FS_Subset
    <2>. DEFINE f == [d \in here |-> d.column]
    <2>2. IsFiniteSet({f[d] : d \in DOMAIN f})
        BY <2>1, ImageFinite
    <2>3. {f[d] : d \in DOMAIN f} = {d.column : d \in here}
        OBVIOUS
    <2>. QED
        BY <2>2, <2>3
<1>4. DOMAIN W = {d.column : d \in here} /\ W = [c \in DOMAIN W |-> W[c]]
    BY <1>2 DEF Desired
<1>5. ASSUME NEW c \in DOMAIN W
      PROVE  /\ W[c].type \in STRING /\ W[c].required \in BOOLEAN
             /\ DOMAIN W[c] = {"type", "required", "from"}
    <2>. DEFINE wanting == Wanting(Ontology[spec], t, c)
    <2>1. wanting # {} /\ \A d \in wanting : d \in D
        BY <1>4 DEF Wanting
    <2>2. (CHOOSE d \in wanting : TRUE) \in wanting
        BY <2>1
    <2>3. /\ W[c].type = (CHOOSE d \in wanting : TRUE).type
          /\ W[c].required = (\A d \in wanting : d.required)
          /\ DOMAIN W[c] = {"type", "required", "from"}
        <3>. DEFINE type == (CHOOSE d \in wanting : TRUE).type
                    required == \A d \in wanting : d.required
        <3>1. PICK from : W[c] = [type |-> type, required |-> required, from |-> from]
            BY <1>2, <1>4, <1>5, Zenon DEF Desired
        <3>. HIDE DEF type, required
        <3>2. /\ W[c].type = type /\ W[c].required = required
              /\ DOMAIN W[c] = {"type", "required", "from"}
            BY <3>1
        <3>. QED
            BY <3>2, Zenon DEF type, required
    <2>. HIDE DEF wanting, D, W
    <2>4. (\A d \in wanting : d.required) \in BOOLEAN
        BY Zenon
    <2>5. W[c].required \in BOOLEAN
        BY <2>3, <2>4, Zenon
    <2>6. W[c].type \in STRING
        BY <1>1, <2>1, <2>2, <2>3
    <2>. QED
        BY <2>3, <2>5, <2>6
<1>. HIDE DEF W, here, D
<1>6. Columns(W)
    BY <1>3, <1>4, <1>5 DEF Columns
<1>7. Columns(ApplyRenames(W, overlay))
    <2>1. DOMAIN ApplyRenames(W, overlay) = DOMAIN W
          /\ ApplyRenames(W, overlay) = [c \in DOMAIN ApplyRenames(W, overlay) |-> ApplyRenames(W, overlay)[c]]
        BY DEF ApplyRenames
    <2>2. ASSUME NEW c \in DOMAIN W
          PROVE  /\ ApplyRenames(W, overlay)[c].type = W[c].type
                 /\ ApplyRenames(W, overlay)[c].required = W[c].required
        BY <1>5, <2>2 DEF ApplyRenames
    <2>. QED
        BY <1>3, <1>4, <1>5, <2>1, <2>2 DEF Columns
<1>. QED
    BY <1>6, <1>7 DEF W

LEMMA ColumnChangesAre ==
    ASSUME NEW c, NEW want, want.type \in STRING, want.required \in BOOLEAN, NEW live
    PROVE  /\ IsFiniteSet(ColumnChanges(c, want, live))
           /\ \A d \in ColumnChanges(c, want, live) :
                 /\ d.column = c /\ d.type = want.type /\ d.required = want.required
                 /\ d.kind \in {"add", "rename", "promote", "retype", "loosen", "tighten"}
           /\ \A d, e \in ColumnChanges(c, want, live) :
                 d.kind = "rename" => e.kind # "add" /\ (e.kind = "rename" => e.from = d.from)
<1>1. ASSUME NEW S, NEW a, NEW b, NEW d, S \subseteq {a, b, d} PROVE IsFiniteSet(S)
    <2>1. IsFiniteSet({} \cup {a}) /\ IsFiniteSet(({} \cup {a}) \cup {b})
          /\ IsFiniteSet((({} \cup {a}) \cup {b}) \cup {d})
        BY FS_EmptySet, FS_AddElement
    <2>2. S \in SUBSET ((({} \cup {a}) \cup {b}) \cup {d})
        BY <1>1
    <2>. QED
        BY <2>1, <2>2, FS_Subset
<1>. DEFINE here == c \in DOMAIN live
            old == want.from \in DOMAIN live
            current == IF here THEN live[c] ELSE live[want.from]
<1>2. Compared(c, want, current) \subseteq {Retyped(c, want, current), Renullabled(c, want, current)}
    BY DEF Compared
<1>3. \/ ColumnChanges(c, want, live) = {Change("add", c, want, NoName, want.required)}
      \/ ColumnChanges(c, want, live) \subseteq
            {Change("rename", c, want, want.from, here)} \cup Compared(c, want, current)
    BY DEF ColumnChanges
<1>4. \A kind, from, breaking :
         /\ Change(kind, c, want, from, breaking).column = c
         /\ Change(kind, c, want, from, breaking).kind = kind
         /\ Change(kind, c, want, from, breaking).type = want.type
         /\ Change(kind, c, want, from, breaking).required = want.required
    BY DEF Change
<1>5. /\ \E k1, f1, b1 : /\ Retyped(c, want, current) = Change(k1, c, want, f1, b1)
                         /\ k1 \in {"promote", "retype"}
      /\ \E k2, f2, b2 : /\ Renullabled(c, want, current) = Change(k2, c, want, f2, b2)
                         /\ k2 \in {"loosen", "tighten"}
    BY DEF Retyped, Renullabled
<1>6. IsFiniteSet(ColumnChanges(c, want, live))
    <2>1. \/ ColumnChanges(c, want, live) \subseteq
                {Change("add", c, want, NoName, want.required), Retyped(c, want, current),
                 Renullabled(c, want, current)}
          \/ ColumnChanges(c, want, live) \subseteq
                {Change("rename", c, want, want.from, here), Retyped(c, want, current),
                 Renullabled(c, want, current)}
        BY <1>2, <1>3
    <2>. HIDE DEF here, current
    <2>. QED
        BY <1>1, <2>1
<1>. HIDE DEF here, current, old
<1>7. \A d \in ColumnChanges(c, want, live) :
         \E kind, from, breaking :
            /\ d = Change(kind, c, want, from, breaking)
            /\ kind \in {"add", "rename", "promote", "retype", "loosen", "tighten"}
    BY <1>2, <1>3, <1>5
<1>8. /\ Change("add", c, want, NoName, want.required).kind = "add"
      /\ Change("rename", c, want, want.from, here).from = want.from
      /\ \A d \in Compared(c, want, current) : d.kind \notin {"add", "rename"}
    BY <1>2, <1>4, <1>5 DEF Change
<1>9. \A d, e \in ColumnChanges(c, want, live) :
         d.kind = "rename" => e.kind # "add" /\ (e.kind = "rename" => e.from = d.from)
    BY <1>3, <1>4, <1>8
<1>. QED
    BY <1>4, <1>6, <1>7, <1>9

LEMMA DiffWellPlanned ==
    ASSUME NEW desired, Columns(desired), NEW live
    PROVE  WellPlanned(DiffTable(desired, live))
<1>1. NoChange.action = "none" /\ NoChange.columns = {} /\ IsFiniteSet({})
    BY FS_EmptySet DEF NoChange
<1>2. WellPlanned(NoChange)
    BY <1>1 DEF WellPlanned
<1>3. WellPlanned([action |-> "create", columns |-> Creation(desired)])
    <2>. DEFINE f == [c \in DOMAIN desired |-> Change("add", c, desired[c], NoName, FALSE)]
    <2>1. IsFiniteSet({f[c] : c \in DOMAIN f})
        BY ImageFinite DEF Columns
    <2>2. Creation(desired) = {f[c] : c \in DOMAIN f}
        BY DEF Creation
    <2>3. \A d \in Creation(desired) :
             d.type \in STRING /\ d.required \in BOOLEAN /\ d.kind = "add"
        BY DEF Creation, Change, Columns
    <2>. HIDE DEF f
    <2>4. IsFiniteSet(Creation(desired))
        BY <2>1, <2>2
    <2>. QED
        BY <2>3, <2>4 DEF WellPlanned
<1>4. WellPlanned([action |-> "alter", columns |-> Alteration(desired, live)])
    <2>. DEFINE f == [c \in DOMAIN desired |-> ColumnChanges(c, desired[c], live)]
    <2>1. IsFiniteSet({f[c] : c \in DOMAIN f})
        BY ImageFinite DEF Columns
    <2>2. Alteration(desired, live) = UNION {f[c] : c \in DOMAIN f}
        BY DEF Alteration
    <2>3. \A c \in DOMAIN desired :
             /\ IsFiniteSet(ColumnChanges(c, desired[c], live))
             /\ \A d \in ColumnChanges(c, desired[c], live) :
                   d.type \in STRING /\ d.required \in BOOLEAN /\ d.column = c
             /\ \A d, e \in ColumnChanges(c, desired[c], live) :
                   d.kind = "rename" => e.kind # "add" /\ (e.kind = "rename" => e.from = d.from)
        <3>. TAKE c \in DOMAIN desired
        <3>1. PICK want : want = desired[c]
            OBVIOUS
        <3>2. want.type \in STRING /\ want.required \in BOOLEAN
            BY <3>1 DEF Columns
        <3>. QED
            BY <3>1, <3>2, ColumnChangesAre
    <2>4. \A S \in {f[c] : c \in DOMAIN f} : IsFiniteSet(S)
        BY <2>3
    <2>5. IsFiniteSet(UNION {f[c] : c \in DOMAIN f})
        BY <2>1, <2>4, FS_UNION
    <2>6. \A d \in Alteration(desired, live) : d.type \in STRING /\ d.required \in BOOLEAN
        BY <2>3 DEF Alteration
    <2>8. \A d, e \in Alteration(desired, live) : d.column = e.column /\ d.kind = "rename" =>
             e.kind # "add" /\ (e.kind = "rename" => e.from = d.from)
        BY <2>3 DEF Alteration
    <2>. HIDE DEF f
    <2>7. IsFiniteSet(Alteration(desired, live))
        BY <2>2, <2>5
    <2>. QED
        BY <2>6, <2>7, <2>8 DEF WellPlanned
<1>. QED
    BY <1>2, <1>3, <1>4 DEF DiffTable

-----------------------------------------------------------------------------
(* What a landed change leaves. *)

(* The names under which live columns go on. *)
Keeping(live, change) == (DOMAIN live \ Taken(change)) \cup Given(change)

LEMMA NewNameIs ==
    ASSUME NEW change, NEW old \in Taken(change)
    PROVE  \E c \in OfKind(change, "rename") : c.from = old /\ c.column = NewName(change, old)
<1>. DEFINE last == CHOOSE c \in OfKind(change, "rename") : c.from = old
<1>1. last \in OfKind(change, "rename") /\ last.from = old
    BY DEF Taken
<1>2. NewName(change, old) = last.column
    BY Zenon DEF NewName
<1>. QED
    BY <1>1, <1>2

LEMMA NamesFinite ==
    ASSUME NEW change, IsFiniteSet(change.columns)
    PROVE  /\ IsFiniteSet(Taken(change)) /\ IsFiniteSet(Given(change))
           /\ IsFiniteSet(Additions(change))
<1>. DEFINE R == OfKind(change, "rename")
            A == OfKind(change, "add")
            f == [c \in R |-> c.from]
            g == [c \in A |-> c.column]
            h == [old \in Taken(change) |-> NewName(change, old)]
<1>1. IsFiniteSet(R) /\ IsFiniteSet(A)
    BY FS_Subset DEF OfKind
<1>2. IsFiniteSet({f[c] : c \in DOMAIN f}) /\ IsFiniteSet({g[c] : c \in DOMAIN g})
    BY <1>1, ImageFinite
<1>3. IsFiniteSet(Taken(change)) /\ IsFiniteSet(Additions(change))
    BY <1>2 DEF Taken, Additions
<1>4. IsFiniteSet({h[old] : old \in DOMAIN h})
    BY <1>3, ImageFinite
<1>. QED
    BY <1>3, <1>4 DEF Given

(* Each live column goes on under one name, which is no added one. *)
LEMMA WasIs ==
    ASSUME NEW live, NEW change, WellPlanned(change), change.action \in {"create", "alter"},
           Accepts(live, change)
    PROVE  /\ \A n \in Keeping(live, change) : Was(change, n) \in DOMAIN live
           /\ \A n, m \in Keeping(live, change) : Was(change, n) = Was(change, m) => n = m
           /\ \A c \in DOMAIN live : \E n \in Keeping(live, change) : Was(change, n) = c
           /\ Keeping(live, change) \cap Additions(change) = {}
<1>. DEFINE R == OfKind(change, "rename")
            T == Taken(change)
            G == Given(change)
<1>1. \A c, d \in change.columns : c.column = d.column /\ c.kind = "rename" =>
         d.kind # "add" /\ (d.kind = "rename" => d.from = c.from)
    BY DEF WellPlanned
<1>2. T \subseteq DOMAIN live /\ (G \cup Additions(change)) \cap (DOMAIN live \ T) = {}
    <2>1. CASE change.action = "create"
        <3>1. live = << >> /\ T = {}
            BY <2>1 DEF WellPlanned, Accepts, Taken, OfKind
        <3>. QED
            BY <3>1
    <2>2. CASE change.action # "create"
        BY <2>2 DEF Accepts
    <2>. QED
        BY <2>1, <2>2
<1>3. \A old \in T : \E c \in R : c.from = old /\ c.column = NewName(change, old)
    BY NewNameIs
<1>4. \A old, other \in T : NewName(change, old) = NewName(change, other) => old = other
    BY <1>1, <1>3 DEF OfKind
<1>5. G \cap Additions(change) = {}
    BY <1>1, <1>3 DEF Given, Additions, OfKind
<1>6. \A n \in G : Was(change, n) \in T /\ NewName(change, Was(change, n)) = n
    <2>. TAKE n \in G
    <2>. DEFINE was == CHOOSE old \in T : NewName(change, old) = n
    <2>1. was \in T /\ NewName(change, was) = n
        BY DEF Given
    <2>2. Was(change, n) = was
        BY Zenon DEF Was
    <2>. QED
        BY <2>1, <2>2
<1>7. \A n : n \notin G => Was(change, n) = n
    BY Zenon DEF Was
<1>8. \A n \in Keeping(live, change) : n \in G \/ n \in DOMAIN live \ T
    BY DEF Keeping
<1>. HIDE DEF R, T, G
<1>9. \A n \in Keeping(live, change) : Was(change, n) \in DOMAIN live
    BY <1>2, <1>6, <1>7, <1>8
<1>10. \A n, m \in Keeping(live, change) : Was(change, n) = Was(change, m) => n = m
    BY <1>6, <1>7, <1>8
<1>11. ASSUME NEW c \in DOMAIN live
       PROVE  \E n \in Keeping(live, change) : Was(change, n) = c
    <2>1. CASE c \in T
        <3>1. NewName(change, c) \in G
            BY <2>1 DEF T, G, Given
        <3>2. Was(change, NewName(change, c)) = c
            BY <1>4, <1>6, <2>1, <3>1
        <3>. QED
            BY <3>1, <3>2 DEF Keeping, G
    <2>2. CASE c \notin T
        <3>1. c \notin G
            BY <1>2, <2>2
        <3>. QED
            BY <1>7, <2>2, <3>1 DEF Keeping, T
    <2>. QED
        BY <2>1, <2>2
<1>12. Keeping(live, change) \cap Additions(change) = {}
    BY <1>2, <1>5, <1>8
<1>. QED
    BY <1>9, <1>10, <1>11, <1>12

(* A column that goes on keeps its id, is widened at most and never made required. *)
LEMMA KeptIs ==
    ASSUME NEW live, NEW change, WellPlanned(change), change.action \in {"create", "alter"},
           Accepts(live, change), NEW name \in Keeping(live, change),
           NEW field \in Idents, field = live[Was(change, name)]
    PROVE  /\ Kept(live, change, name) \in Idents
           /\ Kept(live, change, name).id = field.id
           /\ Alterable(field.type, Kept(live, change, name).type)
           /\ Kept(live, change, name).required => field.required
<1>. DEFINE old == Was(change, name)
            promoted == {c \in OfKind(change, "promote") : Path(change, c.column) = old}
            relaxed == \E c \in OfKind(change, "loosen") : Path(change, c.column) = old
            type == IF promoted = {} THEN field.type ELSE (CHOOSE c \in promoted : TRUE).type
<1>1. \A c \in promoted : c.type \in STRING /\ Alterable(field.type, c.type)
    <2>1. \A c \in OfKind(change, "promote") : c.type \in STRING
        BY DEF WellPlanned, OfKind
    <2>2. CASE change.action = "create"
        BY <2>2 DEF WellPlanned, OfKind
    <2>3. CASE change.action = "alter"
        <3>1. \A c \in OfKind(change, "promote") : Alterable(live[Path(change, c.column)].type, c.type)
            BY <2>3 DEF Accepts
        <3>. QED
            BY <2>1, <3>1
    <2>. QED
        BY <2>2, <2>3
<1>2. Alterable(field.type, field.type)
    BY DEF Alterable
<1>3. promoted # {} => (CHOOSE c \in promoted : TRUE) \in promoted
    OBVIOUS
<1>4. field.id \in Nat \ {0} /\ field.type \in STRING /\ field.required \in BOOLEAN
    BY DEF Idents
<1>5. Kept(live, change, name) = [id |-> field.id, type |-> type, required |-> field.required /\ ~ relaxed]
    BY Zenon DEF Kept, promoted, relaxed, type, old
<1>. HIDE DEF promoted, relaxed, old
<1>6. type \in STRING /\ Alterable(field.type, type)
    BY <1>1, <1>2, <1>3, <1>4
<1>. HIDE DEF type
<1>7. PICK required : required = (field.required /\ ~ relaxed)
    OBVIOUS
<1>8. required \in BOOLEAN /\ (required => field.required)
    BY <1>7
<1>9. Kept(live, change, name) = [id |-> field.id, type |-> type, required |-> required]
    BY <1>5, <1>7, Zenon
<1>. QED
    BY <1>4, <1>6, <1>8, <1>9 DEF Idents

(* An added column takes the id that its place among the added ones gives it. *)
LEMMA AddedIs ==
    ASSUME NEW live, IsFiniteSet(DOMAIN live), NEW change, WellPlanned(change),
           NEW name \in Additions(change)
    PROVE  /\ Added(live, change, name) \in Idents
           /\ \E i \in 1 .. Cardinality(Additions(change)) :
                 /\ Added(live, change, name).id = Cardinality(DOMAIN live) + i
                 /\ SetToSeq(Additions(change))[i] = name
<1>. DEFINE order == SetToSeq(Additions(change))
            add == CHOOSE c \in OfKind(change, "add") : c.column = name
<1>1. add \in OfKind(change, "add")
    BY DEF Additions
<1>2. add.type \in STRING /\ add.required \in BOOLEAN
    BY <1>1 DEF WellPlanned, OfKind
<1>3. DOMAIN order = 1 .. Cardinality(Additions(change))
      /\ \E i \in DOMAIN order : order[i] = name
      /\ Cardinality(Additions(change)) \in Nat
    <2>1. IsFiniteSet(Additions(change))
        BY NamesFinite DEF WellPlanned
    <2>. QED
        BY <2>1, SetToSeqIs
<1>. HIDE DEF order
<1>4. PICK n : n = CHOOSE i \in DOMAIN order : order[i] = name
    OBVIOUS
<1>5. n \in DOMAIN order /\ order[n] = name /\ n \in Nat \ {0}
    BY <1>3, <1>4
<1>6. Cardinality(DOMAIN live) \in Nat
    BY FS_CardinalityType
<1>. HIDE DEF add
<1>7. PICK required : required = (change.action = "create" /\ add.required)
    OBVIOUS
<1>8. required \in BOOLEAN
    BY <1>7
<1>9. Added(live, change, name) =
         [id |-> Cardinality(DOMAIN live) + n, type |-> add.type, required |-> required]
    BY <1>4, <1>7, Zenon DEF Added, order, add
<1>10. Added(live, change, name) \in Idents
    BY <1>2, <1>5, <1>6, <1>8, <1>9 DEF Idents
<1>11. Added(live, change, name).id = Cardinality(DOMAIN live) + n
    BY <1>9
<1>. QED
    BY <1>3, <1>5, <1>10, <1>11 DEF order

(* Which of the two a column of the altered table is. *)
LEMMA AlteredIs ==
    ASSUME NEW live, NEW change, Keeping(live, change) \cap Additions(change) = {}
    PROVE  /\ DOMAIN Altered(live, change) = Keeping(live, change) \cup Additions(change)
           /\ \A n \in Keeping(live, change) : Altered(live, change)[n] = Kept(live, change, n)
           /\ \A n \in Additions(change) : Altered(live, change)[n] = Added(live, change, n)
BY DEF Altered, Keeping

LEMMA AlteredLive ==
    ASSUME NEW live, Live(live), NEW change, WellPlanned(change),
           change.action \in {"create", "alter"}, Accepts(live, change)
    PROVE  Live(Altered(live, change))
<1>. DEFINE K == Keeping(live, change)
            A == Additions(change)
            L == DOMAIN live
            after == Altered(live, change)
<1>1. /\ \A n \in K : Was(change, n) \in L
      /\ \A n, m \in K : Was(change, n) = Was(change, m) => n = m
      /\ \A c \in L : \E n \in K : Was(change, n) = c
      /\ K \cap A = {}
    BY WasIs
<1>2. /\ IsFiniteSet(L)
      /\ \A c \in L : live[c] \in Idents /\ live[c].id <= Cardinality(L)
      /\ \A c, d \in L : live[c].id = live[d].id => c = d
    BY DEF Live
<1>3. IsFiniteSet(K) /\ IsFiniteSet(A)
    <2>1. IsFiniteSet(Given(change)) /\ IsFiniteSet(A)
        BY NamesFinite DEF WellPlanned
    <2>2. IsFiniteSet(L \ Taken(change))
        BY <1>2, FS_Difference
    <2>. QED
        BY <2>1, <2>2, FS_Union DEF Keeping
<1>4. /\ DOMAIN after = K \cup A
      /\ \A n \in K : after[n] = Kept(live, change, n)
      /\ \A n \in A : after[n] = Added(live, change, n)
    BY <1>1, AlteredIs
<1>5. /\ Cardinality(L) \in Nat /\ Cardinality(A) \in Nat
      /\ IsFiniteSet(DOMAIN after)
      /\ Cardinality(DOMAIN after) \in Nat
      /\ Cardinality(L) + Cardinality(A) <= Cardinality(DOMAIN after)
    <2>. DEFINE f == [n \in K |-> Was(change, n)]
    <2>1. f \in Surjection(K, L)
        BY <1>1 DEF Surjection
    <2>2. Cardinality(L) <= Cardinality(K)
        BY <1>3, <2>1, FS_Surjection
    <2>3. IsFiniteSet(K \cup A) /\ Cardinality(K \cup A) = Cardinality(K) + Cardinality(A) - Cardinality({})
        BY <1>1, <1>3, FS_Union
    <2>4. Cardinality({}) = 0 /\ Cardinality(K) \in Nat /\ Cardinality(A) \in Nat /\ Cardinality(L) \in Nat
          /\ Cardinality(K \cup A) \in Nat
        BY <1>2, <1>3, <2>3, FS_EmptySet, FS_CardinalityType
    <2>. HIDE DEF K, A, L, after
    <2>. QED
        BY <1>4, <2>2, <2>3, <2>4
<1>6. \A n \in K : /\ after[n] \in Idents
                   /\ after[n].id = live[Was(change, n)].id
                   /\ after[n].id <= Cardinality(L)
    <2>. TAKE n \in K
    <2>1. PICK field : field = live[Was(change, n)]
        OBVIOUS
    <2>2. field \in Idents /\ field.id <= Cardinality(L)
        BY <1>1, <1>2, <2>1
    <2>3. Kept(live, change, n) \in Idents /\ Kept(live, change, n).id = field.id
        BY <2>1, <2>2, KeptIs
    <2>. QED
        BY <1>4, <2>1, <2>2, <2>3
<1>7. \A n \in A : /\ after[n] \in Idents
                   /\ \E i \in 1 .. Cardinality(A) :
                         after[n].id = Cardinality(L) + i /\ SetToSeq(A)[i] = n
    BY <1>2, <1>4, AddedIs
<1>. HIDE DEF K, A, L, after
<1>8. \A n \in DOMAIN after : after[n] \in Idents /\ after[n].id <= Cardinality(DOMAIN after)
    <2>. TAKE n \in DOMAIN after
    <2>1. CASE n \in K
        <3>1. after[n].id \in Nat
            BY <1>6, <2>1 DEF Idents
        <3>. QED
            BY <1>5, <1>6, <2>1, <3>1
    <2>2. CASE n \in A
        BY <1>5, <1>7, <2>2
    <2>. QED
        BY <1>4, <2>1, <2>2
<1>9. ASSUME NEW n \in DOMAIN after, NEW m \in DOMAIN after, after[n].id = after[m].id
      PROVE  n = m
    <2>1. CASE n \in K /\ m \in K
        BY <1>1, <1>2, <1>6, <1>9, <2>1
    <2>2. CASE n \in A /\ m \in A
        <3>1. PICK i \in 1 .. Cardinality(A) : after[n].id = Cardinality(L) + i /\ SetToSeq(A)[i] = n
            BY <1>7, <2>2
        <3>2. PICK j \in 1 .. Cardinality(A) : after[m].id = Cardinality(L) + j /\ SetToSeq(A)[j] = m
            BY <1>7, <2>2
        <3>3. Cardinality(L) + i = Cardinality(L) + j
            BY <1>9, <3>1, <3>2
        <3>4. \A a, b, l \in Nat : l + a = l + b => a = b
            OBVIOUS
        <3>5. i \in Nat /\ j \in Nat
            BY <1>5
        <3>. QED
            BY <1>5, <3>1, <3>2, <3>3, <3>4, <3>5
    <2>3. \A a \in A, k \in K : after[a].id # after[k].id
        <3>. TAKE a \in A, k \in K
        <3>1. PICK i \in 1 .. Cardinality(A) : after[a].id = Cardinality(L) + i
            BY <1>7
        <3>2. after[k].id \in Nat /\ after[k].id <= Cardinality(L)
            BY <1>6 DEF Idents
        <3>. QED
            BY <1>5, <3>1, <3>2
    <2>. QED
        BY <1>4, <1>9, <2>1, <2>2, <2>3
<1>. QED
    BY <1>5, <1>8, <1>9 DEF Live, after

LEMMA AlteredLosesNothing ==
    ASSUME NEW live, Live(live), NEW change, WellPlanned(change),
           change.action \in {"create", "alter"}, Accepts(live, change),
           NEW c \in DOMAIN live
    PROVE  \E d \in DOMAIN Altered(live, change) :
              /\ Altered(live, change)[d].id = live[c].id
              /\ Alterable(live[c].type, Altered(live, change)[d].type)
              /\ Altered(live, change)[d].required => live[c].required
<1>1. PICK n \in Keeping(live, change) : Was(change, n) = c
    BY WasIs
<1>2. PICK field : field = live[c]
    OBVIOUS
<1>3. field \in Idents
    BY <1>2 DEF Live
<1>4. /\ Kept(live, change, n).id = field.id
      /\ Alterable(field.type, Kept(live, change, n).type)
      /\ Kept(live, change, n).required => field.required
    BY <1>1, <1>2, <1>3, KeptIs
<1>5. n \in DOMAIN Altered(live, change) /\ Altered(live, change)[n] = Kept(live, change, n)
    <2>1. Keeping(live, change) \cap Additions(change) = {}
        BY WasIs
    <2>. QED
        BY <1>1, <2>1, AlteredIs
<1>. QED
    BY <1>2, <1>4, <1>5

-----------------------------------------------------------------------------
(* What a rollback strands. *)

LEMMA StrandedAreNamed ==
    ASSUME NEW recorded, NEW restored, NEW overlay, NEW live,
           NEW overlaid, overlaid = ApplyRenames(restored, overlay),
           NEW plan, plan = DiffTable(overlaid, live),
           restored # << >>, restored = [c \in DOMAIN restored |-> restored[c]],
           NEW after, after = IF plan.action = "none" THEN live ELSE Altered(live, plan),
           NEW c \in DOMAIN after, c \in DOMAIN recorded, c \notin DOMAIN restored
    PROVE  c \in LeftBehind(recorded, restored, overlaid, live)
<1>1. DOMAIN overlaid = DOMAIN restored
    BY DEF ApplyRenames
<1>2. DOMAIN restored # {} /\ overlaid # << >>
    BY <1>1
<1>3. plan.action # "none" =>
         /\ \/ plan = [action |-> "create", columns |-> Creation(overlaid)] /\ live = << >>
            \/ plan = [action |-> "alter", columns |-> Alteration(overlaid, live)]
         /\ \A d \in plan.columns : d.column \in DOMAIN overlaid
    <2>1. CASE plan = [action |-> "create", columns |-> Creation(overlaid)]
        BY <1>2, <2>1 DEF Creation, Change, DiffTable, NoChange
    <2>2. CASE plan = [action |-> "alter", columns |-> Alteration(overlaid, live)]
        <3>1. \A d \in DOMAIN overlaid : \A e \in ColumnChanges(d, overlaid[d], live) : e.column = d
            BY DEF ColumnChanges, Compared, Retyped, Renullabled, Change
        <3>. QED
            BY <2>2, <3>1 DEF Alteration
    <2>3. CASE plan = NoChange
        BY <2>3 DEF NoChange
    <2>4. \/ plan = NoChange
          \/ plan = [action |-> "create", columns |-> Creation(overlaid)] /\ live = << >>
          \/ plan = [action |-> "alter", columns |-> Alteration(overlaid, live)]
        BY <1>2 DEF DiffTable
    <2>. QED
        BY <2>1, <2>2, <2>3, <2>4
<1>4. c \in DOMAIN live
    <2>1. CASE plan.action = "none"
        BY <2>1
    <2>2. CASE plan.action # "none"
        <3>1. DOMAIN after = (DOMAIN live \ Taken(plan)) \cup Given(plan) \cup Additions(plan)
            BY <2>2 DEF Altered
        <3>2. Given(plan) \subseteq DOMAIN overlaid /\ Additions(plan) \subseteq DOMAIN overlaid
            BY <1>3, <2>2, NewNameIs DEF Given, Additions, OfKind
        <3>. QED
            BY <1>1, <3>1, <3>2
    <2>. QED
        BY <2>1, <2>2
<1>5. live # << >> /\ recorded # << >>
    BY <1>4
<1>6. c \notin {overlaid[d].from : d \in DOMAIN overlaid}
    <2>. SUFFICES ASSUME NEW d \in DOMAIN overlaid, overlaid[d].from = c PROVE FALSE
        OBVIOUS
    <2>. DEFINE e == Change("rename", d, overlaid[d], overlaid[d].from, d \in DOMAIN live)
    <2>0. e \in ColumnChanges(d, overlaid[d], live)
        BY <1>4 DEF ColumnChanges
    <2>1. e \in ColumnChanges(d, overlaid[d], live) /\ e.kind = "rename" /\ e.from = c
        BY <2>0 DEF Change
    <2>. HIDE DEF e
    <2>2. e \in Alteration(overlaid, live)
        BY <2>1 DEF Alteration
    <2>3. plan = [action |-> "alter", columns |-> Alteration(overlaid, live)]
        BY <1>2, <1>5, <2>2 DEF DiffTable
    <2>4. c \in Taken(plan)
        BY <2>1, <2>2, <2>3 DEF Taken, OfKind
    <2>5. DOMAIN after = (DOMAIN live \ Taken(plan)) \cup Given(plan) \cup Additions(plan)
        BY <2>3 DEF Altered
    <2>6. Given(plan) \subseteq DOMAIN overlaid /\ Additions(plan) \subseteq DOMAIN overlaid
        BY <1>3, <2>3, NewNameIs DEF Given, Additions, OfKind
    <2>. QED
        BY <1>1, <2>4, <2>5, <2>6
<1>. QED
    BY <1>1, <1>4, <1>5, <1>6 DEF LeftBehind, Unmanaged

-----------------------------------------------------------------------------
(* A step of one operator, and what it is to the others. *)

Good(x, m, l) == Shape(x) /\ Stage(x) /\ Told(x, m) /\ Seen(x, l)

Overtake(x) == IF Ended(x) THEN Idle ELSE [x EXCEPT !.overtaken = TRUE]

LEMMA IdleGood == ASSUME NEW m, NEW l PROVE Good(Idle, m, l)
BY IdleIs DEF Good, Told, Seen

LEMMA OthersGood ==
    ASSUME NEW x, NEW m, NEW n, NEW l, NEW k, Good(x, m, l), Appended(m, n),
           NEW y, (y = Lasting(x) /\ k = l) \/ y = Overtake(x)
    PROVE  /\ Good(y, n, k)
           /\ y.pc \in {"diff", "confirm"} <=> x.pc \in {"diff", "confirm"}
           /\ y.version \in {0, x.version}
<1>1. CASE Ended(x)
    <2>1. y = Idle
        BY <1>1 DEF Lasting, Overtake
    <2>. QED
        BY <1>1, <2>1, IdleGood, IdleIs DEF Ended
<1>2. CASE ~ Ended(x) /\ y = Lasting(x) /\ k = l
    <2>1. y = x
        BY <1>2 DEF Lasting
    <2>2. Told(y, n)
        BY <2>1, ToldKept DEF Good
    <2>. QED
        BY <1>2, <2>1, <2>2 DEF Good
<1>3. CASE ~ Ended(x) /\ y = Overtake(x)
    <2>1. y = [x EXCEPT !.overtaken = TRUE] /\ Shape(x) /\ Stage(x)
        BY <1>3 DEF Overtake, Good
    <2>2. /\ SameBut(x, y, {"overtaken"}) /\ y.overtaken = TRUE
        BY <2>1 DEF Shape, SameBut, Fields, Idle
    <2>3. /\ y.landed = x.landed /\ y.changed = x.changed /\ y.tried = x.tried /\ y.plan = x.plan
          /\ y.spec = x.spec /\ y.at = x.at /\ y.failed = x.failed /\ y.version = x.version
          /\ y.rollback = x.rollback /\ y.restored = x.restored /\ y.pc = x.pc
          /\ y.unrecorded = x.unrecorded /\ y.rewrites = x.rewrites /\ y.status = x.status
          /\ y.pending = x.pending /\ y.base = x.base /\ y.wrote = x.wrote
        BY <2>2 DEF SameBut, Fields, Idle
    <2>4. Shape(y)
        <3>1. SameBut(x, y, {"pc", "status", "overtaken", "left", "wrote",
                   "restored", "unrecorded", "changed", "tried", "landed", "failed", "rewrites"})
            BY <2>2 DEF SameBut
        <3>2. /\ y.pc \in PCs /\ y.status \in Statuses /\ y.restored \in BOOLEAN
              /\ y.unrecorded \in BOOLEAN /\ y.failed \in BOOLEAN /\ y.rewrites \in BOOLEAN
              /\ y.overtaken \in BOOLEAN
            BY <2>1, <2>2, <2>3 DEF Shape
        <3>. QED
            BY <2>1, <3>1, <3>2, ShapeKept
    <2>5. /\ Changes(y) = Changes(x) /\ (Refused(y) <=> Refused(x))
          /\ \A i : UpTo(y, i) = UpTo(x, i)
        BY <2>3, SamePlan
    <2>6. (Whole(y) <=> Whole(x)) /\ (Halted(y) <=> Halted(x)) /\ (Unbegun(y) <=> Unbegun(x))
        BY <2>3, <2>5 DEF Whole, Halted, Unbegun
    <2>7. Stage(y)
        <3>1. x.pc \in {"diff", "confirm", "execute", "record", "restore"}
            BY <1>3, <2>1 DEF Shape, PCs, Ended
        <3>2. CASE x.pc \in {"diff", "confirm"}
            <4>1. Unbegun(x) /\ Unbegun(y)
                BY <2>1, <2>6, <3>2 DEF Stage
            <4>. QED
                BY <2>3, <3>2, <4>1 DEF Stage, Unbegun
        <3>3. CASE x.pc = "execute"
            <4>1. /\ x.landed \subseteq x.changed /\ x.changed \subseteq x.tried
                  /\ ~ x.failed /\ ~ x.restored /\ x.wrote = {} /\ Tables[x.at] \in Changes(x)
                  /\ x.landed = UpTo(x, x.at - 1) /\ x.tried = x.landed
                  /\ \A t \in Changes(x) : CatalogOf[t] \in x.pending
                  /\ ~ Refused(x) /\ x.version # 0
                BY <2>1, <3>3 DEF Stage
            <4>2. UpTo(y, y.at - 1) = UpTo(x, x.at - 1)
                BY <2>3, <2>5
            <4>. QED
                BY <2>3, <2>5, <3>3, <4>1, <4>2 DEF Stage
        <3>4. CASE x.pc \in {"record", "restore"}
            <4>1. /\ x.landed \subseteq x.changed /\ x.changed \subseteq x.tried
                  /\ x.pc = "record" => ~ x.restored /\ x.pending # {} /\ ~ Refused(x)
                  /\ x.version # 0
                  /\ Whole(x) \/ Halted(x)
                  /\ x.rollback /\ (x.pc = "restore" \/ x.restored) => x.changed # {} \/ Changes(x) = {}
                BY <2>1, <3>4 DEF Stage
            <4>2. Whole(y) \/ Halted(y)
                BY <2>6, <4>1
            <4>. QED
                BY <2>3, <2>5, <3>4, <4>1, <4>2 DEF Stage
        <3>. QED
            BY <3>1, <3>2, <3>3, <3>4
    <2>8. Told(y, n)
        BY <2>1, <2>3, ToldKept DEF Good
    <2>9. Seen(y, k)
        BY <2>2 DEF Seen
    <2>. QED
        BY <2>3, <2>4, <2>7, <2>8, <2>9 DEF Good
<1>. QED
    BY <1>1, <1>2, <1>3

LEMMA SameHistories == ASSUME NEW m, HistoriesOK(m) PROVE Appended(m, m)
<1>1. \A c \in Catalogs : m[c] \in Seq({m[c][i] : i \in DOMAIN m[c]})
    BY DEF HistoriesOK
<1>2. \A c \in Catalogs : Len(m[c]) \in Nat
    BY <1>1
<1>. QED
    BY <1>2 DEF HistoriesOK, Appended

(* The variables no run holds. *)
Ground ==
    /\ files \in Specs
    /\ begun \in 0 .. MaxRuns /\ edits \in 0 .. MaxEdits /\ faults \in 0 .. MaxFaults
    /\ LakeOK(lake) /\ HistoriesOK(meta)

Numbered(x) == x.pc \notin {"diff", "confirm"}

(* Every step of an operator is of this form. *)
Moves(p, y) ==
    \/ run' = [q \in Operators |-> IF q = p THEN y ELSE Lasting(run[q])] /\ lake' = lake
    \/ run' = [q \in Operators |-> IF q = p THEN y ELSE Overtake(run[q])]

LEMMA MovesKeep ==
    ASSUME IInv, NEW p \in Operators, NEW y, Moves(p, y), Good(y, meta', lake'),
           Appended(meta, meta'), Ground', Counted'
    PROVE  IInv'
<1>1. DOMAIN run' = Operators
    BY DEF Moves
<1>2. run'[p] = y
    BY DEF Moves
<1>3. ASSUME NEW q \in Operators, q # p PROVE Good(run'[q], meta', lake')
    <2>1. Good(run[q], meta, lake)
        BY DEF IInv, Good
    <2>2. (run'[q] = Lasting(run[q]) /\ lake' = lake) \/ run'[q] = Overtake(run[q])
        BY <1>3 DEF Moves
    <2>. QED
        BY <2>1, <2>2, OthersGood
<1>4. \A q \in Operators : Good(run'[q], meta', lake')
    BY <1>2, <1>3
<1>. QED
    BY <1>1, <1>4 DEF IInv, Good, Ground

LEMMA MovesCount ==
    ASSUME IInv, NEW p \in Operators, NEW y, Moves(p, y)
    PROVE  /\ Unnumbered \ {p} = Unnumbered' \ {p}
           /\ p \in Unnumbered' <=> ~ Numbered(y)
           /\ p \in Unnumbered <=> ~ Numbered(run[p])
           /\ \A v \in Numbers' : v \in Numbers \/ v \in AllVersions' \/ v = y.version
           /\ IsFiniteSet(Unnumbered) /\ Cardinality(Unnumbered) \in Nat
           /\ Numbers \subseteq Nat /\ begun \in Nat
<1>1. run'[p] = y
    BY DEF Moves
<1>2. ASSUME NEW q \in Operators, q # p
      PROVE  /\ run'[q].pc \in {"diff", "confirm"} <=> run[q].pc \in {"diff", "confirm"}
             /\ run'[q].version \in {0, run[q].version}
    <2>1. Good(run[q], meta, lake) /\ Appended(meta, meta)
        BY SameHistories DEF IInv, Good
    <2>2. run'[q] = Lasting(run[q]) \/ run'[q] = Overtake(run[q])
        BY <1>2 DEF Moves
    <2>. QED
        BY <2>1, <2>2, OthersGood
<1>3. Unnumbered \ {p} = Unnumbered' \ {p}
    BY <1>2 DEF Unnumbered
<1>4. (p \in Unnumbered' <=> ~ Numbered(y)) /\ (p \in Unnumbered <=> ~ Numbered(run[p]))
    BY <1>1 DEF Unnumbered, Numbered
<1>5. \A v \in Numbers' : v \in Numbers \/ v \in AllVersions' \/ v = y.version
    BY <1>1, <1>2 DEF Numbers
<1>6. IsFiniteSet(Unnumbered)
    BY MigrationAssumption, FS_Subset DEF Unnumbered
<1>7. Numbers \subseteq Nat /\ begun \in Nat
    <2>1. MaxRuns \in Nat /\ begun \in 0 .. MaxRuns
        BY MigrationAssumption DEF IInv
    <2>2. \A q \in Operators : run[q].version \in Nat
        <3>1. \A q \in Operators : Shape(run[q])
            BY DEF IInv
        <3>2. \A q \in Operators : run[q].version \in 0 .. MaxRuns
            BY <3>1, Zenon DEF Shape
        <3>. QED
            BY <2>1, <3>2
    <2>3. \A c \in Catalogs : \A i \in DOMAIN meta[c] : meta[c][i].version \in Nat
        <3>1. HistoriesOK(meta)
            BY DEF IInv
        <3>2. \A c \in Catalogs : \A i \in DOMAIN meta[c] : meta[c][i].version \in 1 .. MaxRuns
            BY <3>1, Zenon DEF HistoriesOK, RowOK
        <3>. QED
            BY <2>1, <3>2
    <2>. QED
        BY <2>1, <2>2, <2>3 DEF Numbers, AllVersions, Versions
<1>. QED
    BY <1>3, <1>4, <1>5, <1>6, <1>7, FS_CardinalityType

(* A run that goes on or ends, with the number it has. *)
LEMMA CountKept ==
    ASSUME IInv, NEW p \in Operators, NEW y, Moves(p, y), Numbered(y) \/ ~ Numbered(run[p]),
           AllVersions' \subseteq Numbers, y.version \in Numbers, begun' \in Nat, begun' >= begun
    PROVE  Counted'
<1>1. /\ Unnumbered' \in SUBSET Unnumbered
      /\ IsFiniteSet(Unnumbered) /\ Cardinality(Unnumbered) \in Nat
      /\ Numbers' \subseteq Numbers /\ Numbers \subseteq Nat /\ begun \in Nat
    BY MovesCount
<1>2. Cardinality(Unnumbered') <= Cardinality(Unnumbered) /\ Cardinality(Unnumbered') \in Nat
    BY <1>1, FS_Subset, FS_CardinalityType
<1>3. \A v \in Numbers : v + Cardinality(Unnumbered) <= begun
    BY DEF IInv, Counted
<1>. QED
    BY <1>1, <1>2, <1>3 DEF Counted

(* A run that begins has no number yet. *)
LEMMA CountStarted ==
    ASSUME IInv, NEW p \in Operators, NEW y, Moves(p, y), AllVersions' \subseteq Numbers,
           y.version \in Numbers, begun' = begun + 1
    PROVE  Counted'
<1>1. /\ Unnumbered' \in SUBSET (Unnumbered \cup {p})
      /\ IsFiniteSet(Unnumbered) /\ Cardinality(Unnumbered) \in Nat
      /\ Numbers' \subseteq Numbers /\ Numbers \subseteq Nat /\ begun \in Nat
    BY MovesCount
<1>2. IsFiniteSet(Unnumbered \cup {p})
      /\ Cardinality(Unnumbered \cup {p}) <= Cardinality(Unnumbered) + 1
    <2>1. IsFiniteSet(Unnumbered)
        BY <1>1
    <2>2. /\ IsFiniteSet(Unnumbered \cup {p})
          /\ \/ Cardinality(Unnumbered \cup {p}) = Cardinality(Unnumbered)
             \/ Cardinality(Unnumbered \cup {p}) = Cardinality(Unnumbered) + 1
        BY <2>1, FS_AddElement, Zenon
    <2>. QED
        BY <1>1, <2>2
<1>3. Cardinality(Unnumbered') <= Cardinality(Unnumbered) + 1 /\ Cardinality(Unnumbered') \in Nat
    BY <1>1, <1>2, FS_Subset, FS_CardinalityType
<1>4. \A v \in Numbers : v + Cardinality(Unnumbered) <= begun
    BY DEF IInv, Counted
<1>. QED
    BY <1>1, <1>3, <1>4 DEF Counted

(* A run that takes its number, one past one that was there. *)
LEMMA CountNumbered ==
    ASSUME IInv, NEW p \in Operators, NEW y, Moves(p, y), Numbered(y), ~ Numbered(run[p]),
           AllVersions' \subseteq Numbers, NEW n \in Numbers, y.version = n + 1, UNCHANGED begun
    PROVE  Counted'
<1>1. /\ Unnumbered' = Unnumbered \ {p} /\ p \in Unnumbered
      /\ IsFiniteSet(Unnumbered) /\ Cardinality(Unnumbered) \in Nat
      /\ \A v \in Numbers' : v \in Numbers \/ v = n + 1
      /\ Numbers \subseteq Nat /\ begun \in Nat
    BY MovesCount
<1>2. Cardinality(Unnumbered') = Cardinality(Unnumbered) - 1
    BY <1>1, FS_RemoveElement
<1>3. n + Cardinality(Unnumbered) <= begun /\ n \in Nat
      /\ \A v \in Numbers : v \in Nat /\ v + Cardinality(Unnumbered) <= begun
    BY <1>1 DEF IInv, Counted
<1>4. ASSUME NEW v \in Numbers' PROVE v + Cardinality(Unnumbered') <= begun
    <2>1. v \in Numbers \/ v = n + 1
        BY <1>1
    <2>2. CASE v \in Numbers
        BY <1>1, <1>2, <1>3, <2>2
    <2>3. CASE v = n + 1
        BY <1>1, <1>2, <1>3, <2>3
    <2>. QED
        BY <2>1, <2>2, <2>3
<1>. QED
    BY <1>4 DEF Counted

LEMMA GroundIs == ASSUME IInv PROVE Ground /\ Appended(meta, meta)
BY SameHistories DEF IInv, Ground

(* A step of one run that leaves the tables and the histories alone. *)
LEMMA StepsKeep ==
    ASSUME IInv, NEW p \in Operators, NEW y, Steps(p, y), UNCHANGED <<lake, meta, begun, edits>>,
           files' \in Specs, faults' \in 0 .. MaxFaults,
           Good(y, meta, lake), y.version \in {0, run[p].version},
           Numbered(y) \/ ~ Numbered(run[p])
    PROVE  IInv'
<1>1. Moves(p, y)
    BY DEF Moves, Steps
<1>2. Good(y, meta', lake')
    OBVIOUS
<1>3. Appended(meta, meta') /\ Ground'
    <2>1. Ground /\ Appended(meta, meta)
        BY GroundIs
    <2>2. meta' = meta /\ lake' = lake
        OBVIOUS
    <2>3. HistoriesOK(meta') /\ LakeOK(lake')
        BY <2>1, <2>2 DEF Ground
    <2>4. begun' \in 0 .. MaxRuns /\ edits' \in 0 .. MaxEdits
        BY <2>1 DEF Ground
    <2>. QED
        BY <2>1, <2>2, <2>3, <2>4 DEF Ground
<1>4. Counted'
    <2>1. AllVersions' = AllVersions
        BY DEF AllVersions, Versions
    <2>2. AllVersions' \subseteq Numbers /\ y.version \in Numbers
        BY <2>1 DEF Numbers
    <2>3. begun' = begun /\ begun' \in Nat /\ begun' >= begun
        BY MigrationAssumption DEF IInv
    <2>. QED
        BY <1>1, <2>2, <2>3, CountKept
<1>. QED
    BY <1>1, <1>2, <1>3, <1>4, MovesKeep

(* A run before its plan. *)
LEMMA FreshGood ==
    ASSUME NEW y, SameBut(Idle, y, {"pc", "rollback", "spec", "snap", "target", "overlay", "read"}),
           y.pc \in {"diff", "dead"}, y.rollback \in BOOLEAN, y.spec \in Specs, y.snap \in Specs,
           NEW m, NEW l
    PROVE  Good(y, m, l) /\ y.version = 0
<1>1. /\ y.at = 1 /\ y.plan = NoPlan /\ y.pending = {} /\ y.base = NoRows /\ y.version = 0
      /\ y.tried = {} /\ y.landed = {} /\ y.changed = {} /\ y.wrote = {} /\ y.status = "none"
      /\ y.failed = FALSE /\ y.unrecorded = FALSE /\ y.overtaken = FALSE /\ y.restored = FALSE
      /\ y.rewrites = FALSE /\ DOMAIN y = Fields
    BY DEF SameBut, Fields, Idle
<1>2. /\ \A t \in TableSet : WellPlanned(NoPlan[t]) /\ NoPlan[t].action = "none"
      /\ DOMAIN NoPlan = TableSet /\ NoPlan = [t \in TableSet |-> NoPlan[t]]
      /\ NoRows \in [Catalogs -> Nat]
    BY FS_EmptySet DEF NoPlan, NoChange, WellPlanned, NoRows
<1>3. Changes(y) = {}
    BY <1>1, <1>2 DEF Changes
<1>4. MaxRuns \in Nat /\ 1 \in DOMAIN Tables
    BY TablesAre, MigrationAssumption
<1>5. Shape(y)
    <2>1. /\ DOMAIN y.plan = TableSet /\ y.plan = [t \in TableSet |-> y.plan[t]]
          /\ \A t \in TableSet : WellPlanned(y.plan[t])
          /\ y.base \in [Catalogs -> Nat]
        BY <1>1, <1>2
    <2>2. Changes(y) \subseteq Targets(y.spec) /\ y.pending \subseteq Bound(y)
        BY <1>1, <1>3
    <2>3. y.pc \in PCs /\ y.status \in Statuses
        BY <1>1 DEF PCs, Statuses
    <2>4. y.at \in DOMAIN Tables /\ y.version \in 0 .. MaxRuns
        BY <1>1, <1>4
    <2>5. /\ y.failed \in BOOLEAN /\ y.unrecorded \in BOOLEAN /\ y.overtaken \in BOOLEAN
          /\ y.restored \in BOOLEAN /\ y.rewrites \in BOOLEAN
        BY <1>1, Zenon
    <2>. QED
        BY <1>1, <2>1, <2>2, <2>3, <2>4, <2>5 DEF Shape
<1>6. Stage(y)
    BY <1>1 DEF Stage, Unbegun
<1>7. Told(y, m)
    BY <1>1 DEF Told
<1>8. Seen(y, l)
    BY <1>1, TablesAre DEF Seen
<1>. QED
    BY <1>1, <1>5, <1>6, <1>7, <1>8 DEF Good

LEMMA DeclineStep == ASSUME IInv, NEW p \in Operators, Decline(p) PROVE IInv'
<1>1. Good(Idle, meta, lake) /\ Idle.version = 0 /\ Numbered(Idle)
    BY IdleGood, IdleIs DEF Numbered
<1>2. files' \in Specs /\ faults' \in 0 .. MaxFaults
    BY DEF Decline, IInv
<1>. QED
    BY <1>1, <1>2, StepsKeep DEF Decline

LEMMA DieStep == ASSUME IInv, NEW p \in Operators, Die(p) PROVE IInv'
<1>1. PICK y : y = [Idle EXCEPT !.pc = "dead"]
    OBVIOUS
<1>2. /\ SameBut(Idle, y, {"pc", "rollback", "spec", "snap", "target", "overlay", "read"})
      /\ y.pc = "dead" /\ y.rollback \in BOOLEAN /\ y.spec \in Specs /\ y.snap \in Specs
    BY <1>1, MigrationAssumption DEF SameBut, Fields, Idle
<1>3. Good(y, meta, lake) /\ y.version = 0 /\ Numbered(y)
    BY <1>2, FreshGood DEF Numbered
<1>4. files' \in Specs /\ faults' \in 0 .. MaxFaults
    BY MigrationAssumption DEF Die, IInv
<1>5. Steps(p, y)
    BY <1>1 DEF Die
<1>. QED
    BY <1>3, <1>4, <1>5, StepsKeep DEF Die

LEMMA RestoreStep == ASSUME IInv, NEW p \in Operators, Restore(p) PROVE IInv'
<1>1. PICK x : x = run[p]
    OBVIOUS
<1>2. PICK y : y = [x EXCEPT !.pc = "done", !.restored = TRUE]
    OBVIOUS
<1>3. /\ Shape(x) /\ Stage(x) /\ Told(x, meta) /\ x.pc = "restore"
    BY <1>1 DEF IInv, Restore
<1>4. /\ SameBut(x, y, {"pc", "restored"}) /\ y.pc = "done" /\ y.restored = TRUE
    BY <1>2, <1>3 DEF Shape, SameBut, Fields, Idle
<1>5. /\ y.landed = x.landed /\ y.changed = x.changed /\ y.tried = x.tried /\ y.plan = x.plan
      /\ y.spec = x.spec /\ y.at = x.at /\ y.failed = x.failed /\ y.version = x.version
      /\ y.rollback = x.rollback /\ y.overtaken = x.overtaken
      /\ y.unrecorded = x.unrecorded /\ y.rewrites = x.rewrites /\ y.status = x.status
      /\ y.pending = x.pending /\ y.base = x.base /\ y.wrote = x.wrote
    BY <1>4 DEF SameBut, Fields, Idle
<1>6. Shape(y)
    <2>1. SameBut(x, y, {"pc", "status", "overtaken", "left", "wrote",
               "restored", "unrecorded", "changed", "tried", "landed", "failed", "rewrites"})
        BY <1>4 DEF SameBut
    <2>2. /\ y.pc \in PCs /\ y.status \in Statuses /\ y.restored \in BOOLEAN
          /\ y.unrecorded \in BOOLEAN /\ y.failed \in BOOLEAN /\ y.rewrites \in BOOLEAN
          /\ y.overtaken \in BOOLEAN
        BY <1>3, <1>4, <1>5 DEF Shape, PCs
    <2>. QED
        BY <1>3, <2>1, <2>2, ShapeKept
<1>7. Stage(y)
    <2>1. /\ x.landed \subseteq x.changed /\ x.changed \subseteq x.tried
          /\ x.version # 0 /\ (Whole(x) \/ Halted(x))
          /\ x.rollback => x.changed # {} \/ Changes(x) = {}
        BY <1>3 DEF Stage
    <2>2. Changes(y) = Changes(x) /\ \A i : UpTo(y, i) = UpTo(x, i)
        BY <1>5, SamePlan
    <2>3. Whole(y) \/ Halted(y)
        BY <1>5, <2>1, <2>2 DEF Whole, Halted
    <2>. QED
        BY <1>4, <1>5, <2>1, <2>2, <2>3 DEF Stage
<1>8. Told(y, meta)
    BY <1>3, <1>5, GroundIs, ToldKept
<1>9. Good(y, meta, lake) /\ Numbered(y)
    BY <1>4, <1>6, <1>7, <1>8 DEF Good, Seen, Numbered
<1>10. files' \in Specs /\ faults' \in 0 .. MaxFaults /\ UNCHANGED <<lake, meta, begun, edits>>
    <2>1. x.spec \in Specs /\ files \in Specs /\ faults \in 0 .. MaxFaults
        BY <1>3 DEF Shape, IInv
    <2>. QED
        BY <1>1, <2>1 DEF Restore
<1>11. Steps(p, y)
    BY <1>1, <1>2 DEF Restore
<1>12. y.version \in {0, run[p].version}
    BY <1>1, <1>5
<1>. QED
    BY <1>9, <1>10, <1>11, <1>12, StepsKeep

LEMMA TableFailsStep == ASSUME IInv, NEW p \in Operators, TableFails(p) PROVE IInv'
<1>1. PICK x : x = run[p]
    OBVIOUS
<1>2. PICK y : y = AfterTable(x, FALSE)
    OBVIOUS
<1>3. Shape(x) /\ Stage(x) /\ Told(x, meta) /\ x.pc = "execute"
    BY <1>1 DEF IInv, TableFails, Executing
<1>4. y = AfterTable([x EXCEPT !.changed = x.changed], FALSE)
    <2>1. DOMAIN x = Fields
        BY <1>3 DEF Shape
    <2>. QED
        BY <1>2, <2>1 DEF AfterTable, Tried, Fields, Idle
<1>5. /\ Shape(y) /\ Stage(y) /\ y.pc \in {"execute", "record"}
      /\ y.version = x.version /\ y.base = x.base /\ y.spec = x.spec /\ y.wrote = {}
    <2>1. PICK ok \in BOOLEAN : ok = FALSE
        OBVIOUS
    <2>2. PICK now : now = x.changed
        OBVIOUS
    <2>3. /\ now \in {x.changed, x.changed \cup {Tables[x.at]}}
          /\ ok => now = x.changed \cup {Tables[x.at]}
          /\ y = AfterTable([x EXCEPT !.changed = now], ok)
        BY <1>4, <2>1, <2>2, Zenon
    <2>. QED
        BY <1>3, <2>3, AfterTableStage
<1>6. x.wrote = {}
    BY <1>3 DEF Stage
<1>7. Told(y, meta)
    BY <1>3, <1>5, <1>6, GroundIs, ToldKept
<1>8. Good(y, meta, lake) /\ Numbered(y)
    BY <1>5, <1>7 DEF Good, Seen, Numbered
<1>9. files' \in Specs /\ UNCHANGED <<lake, meta, begun, edits>>
    BY DEF IInv, TableFails
<1>10. faults' \in 0 .. MaxFaults
    <2>1. faults \in 0 .. MaxFaults /\ MaxFaults \in Nat
        BY MigrationAssumption DEF IInv
    <2>. DEFINE refusal == ~ Accepts(lake[Tables[run[p].at]], NextChange(p))
    <2>2. /\ refusal \/ faults < MaxFaults
          /\ faults' = IF refusal THEN faults ELSE faults + 1
        BY Zenon DEF TableFails
    <2>. HIDE DEF refusal
    <2>. QED
        BY <2>1, <2>2
<1>11. Steps(p, y) /\ y.version \in {0, run[p].version}
    BY <1>1, <1>2, <1>5 DEF TableFails
<1>. QED
    BY <1>8, <1>9, <1>10, <1>11, StepsKeep

LEMMA TableLandsStep ==
    ASSUME IInv, NEW p \in Operators, NEW answered \in BOOLEAN, TableLands(p, answered)
    PROVE  IInv'
<1>1. PICK x : x = run[p]
    OBVIOUS
<1>2. PICK t : t = Tables[x.at]
    OBVIOUS
<1>3. PICK y : y = AfterTable([x EXCEPT !.changed = x.changed \cup {t}], answered)
    OBVIOUS
<1>4. Shape(x) /\ Stage(x) /\ Told(x, meta) /\ x.pc = "execute"
    BY <1>1 DEF IInv, TableLands, Executing
<1>5. /\ Shape(y) /\ Stage(y) /\ y.pc \in {"execute", "record"}
      /\ y.version = x.version /\ y.base = x.base /\ y.spec = x.spec /\ y.wrote = {}
    <2>1. PICK now : now = x.changed \cup {t}
        OBVIOUS
    <2>2. /\ now \in {x.changed, x.changed \cup {Tables[x.at]}}
          /\ now = x.changed \cup {Tables[x.at]}
          /\ y = AfterTable([x EXCEPT !.changed = now], answered)
        BY <1>2, <1>3, <2>1, Zenon
    <2>. QED
        BY <1>4, <2>2, AfterTableStage
<1>6. x.wrote = {} /\ t \in Changes(x)
    BY <1>2, <1>4 DEF Stage
<1>7. Told(y, meta)
    BY <1>4, <1>5, <1>6, GroundIs, ToldKept
<1>8. Good(y, meta', lake') /\ Numbered(y)
    <2>1. meta' = meta
        BY DEF TableLands
    <2>. QED
        BY <1>5, <1>7, <2>1 DEF Good, Seen, Numbered
<1>9. Moves(p, y)
    BY <1>1, <1>2, <1>3 DEF TableLands, Moves, Overtake
<1>10. LakeOK(lake')
    <2>1. PICK change : change = x.plan[t]
        OBVIOUS
    <2>2. t \in TableSet /\ WellPlanned(change) /\ change.action \in {"create", "alter"}
        BY <1>4, <1>6, <2>1 DEF Shape, Changes, WellPlanned
    <2>3. Accepts(lake[t], change) /\ lake' = [lake EXCEPT ![t] = Altered(lake[t], change)]
        BY <1>1, <1>2, <2>1 DEF TableLands, NextChange
    <2>4. PICK live : live = lake[t]
        OBVIOUS
    <2>5. LakeOK(lake)
        BY DEF IInv
    <2>6. Live(live)
        BY <2>2, <2>4, <2>5 DEF LakeOK
    <2>7. Live(Altered(live, change))
        BY <2>2, <2>3, <2>4, <2>6, AlteredLive
    <2>8. DOMAIN lake' = TableSet /\ lake'[t] = Altered(live, change)
          /\ \A u \in TableSet : u # t => lake'[u] = lake[u]
        BY <2>2, <2>3, <2>4, <2>5 DEF LakeOK
    <2>. QED
        BY <2>5, <2>7, <2>8 DEF LakeOK
<1>11. Appended(meta, meta') /\ Ground'
    <2>1. Ground /\ Appended(meta, meta) /\ meta' = meta
        BY GroundIs DEF TableLands
    <2>2. HistoriesOK(meta') /\ Appended(meta, meta')
        BY <2>1 DEF Ground
    <2>3. files' \in Specs /\ begun' \in 0 .. MaxRuns /\ edits' \in 0 .. MaxEdits
        BY <2>1 DEF Ground, TableLands
    <2>4. faults' \in 0 .. MaxFaults
        <3>1. faults \in 0 .. MaxFaults /\ MaxFaults \in Nat
            BY MigrationAssumption DEF IInv
        <3>2. /\ ~ answered => faults < MaxFaults
              /\ faults' = IF answered THEN faults ELSE faults + 1
            BY Zenon DEF TableLands
        <3>. QED
            BY <3>1, <3>2
    <2>. QED
        BY <1>10, <2>2, <2>3, <2>4 DEF Ground
<1>12. Counted'
    <2>1. AllVersions' = AllVersions
        BY DEF AllVersions, Versions, TableLands
    <2>2. AllVersions' \subseteq Numbers /\ y.version \in Numbers
        BY <1>1, <1>5, <2>1 DEF Numbers
    <2>3. begun' = begun /\ begun' \in Nat /\ begun' >= begun
        BY MigrationAssumption DEF IInv, TableLands
    <2>. QED
        BY <1>8, <1>9, <2>2, <2>3, CountKept
<1>. QED
    BY <1>8, <1>9, <1>11, <1>12, MovesKeep

LEMMA RecordFailsStep == ASSUME IInv, NEW p \in Operators, RecordFails(p) PROVE IInv'
<1>1. PICK x : x = run[p]
    OBVIOUS
<1>2. PICK y : y = Recorded(x, FALSE)
    OBVIOUS
<1>3. Shape(x) /\ Stage(x) /\ Told(x, meta) /\ x.pc = "record"
    BY <1>1 DEF IInv, RecordFails
<1>4. y = Recorded([x EXCEPT !.wrote = x.wrote], FALSE)
    <2>1. PICK w : w = [x EXCEPT !.wrote = x.wrote]
        OBVIOUS
    <2>2. DOMAIN x = Fields
        BY <1>3 DEF Shape
    <2>3. w.pending = x.pending /\ w.spec = x.spec /\ w.unrecorded = x.unrecorded
        BY <2>1, <2>2 DEF Fields, Idle
    <2>4. NextCatalog(w) = NextCatalog(x)
        BY <2>3, Zenon DEF NextCatalog
    <2>5. PICK c : c = NextCatalog(x)
        OBVIOUS
    <2>6. [w EXCEPT !.pending = @ \ {c}, !.unrecorded = @ \/ ~ FALSE]
            = [x EXCEPT !.pending = @ \ {c}, !.unrecorded = @ \/ ~ FALSE]
        BY <2>1, <2>2, <2>3 DEF Fields, Idle
    <2>. QED
        BY <1>2, <2>1, <2>4, <2>5, <2>6, Zenon DEF Recorded
<1>5. /\ Shape(y) /\ Stage(y) /\ y.pc \in {"record", "restore", "done"}
      /\ SameBut(x, y, {"pc", "status", "pending", "unrecorded", "wrote"})
      /\ y.wrote = x.wrote
    <2>1. PICK ok \in BOOLEAN : ok = FALSE
        OBVIOUS
    <2>2. PICK wrote : wrote = x.wrote
        OBVIOUS
    <2>3. y = Recorded([x EXCEPT !.wrote = wrote], ok)
        BY <1>4, <2>1, <2>2, Zenon
    <2>4. /\ Shape(y) /\ Stage(y) /\ y.pc \in {"record", "restore", "done"}
          /\ SameBut(x, y, {"pc", "status", "pending", "unrecorded", "wrote"})
          /\ y.wrote = wrote
        BY <1>3, <2>3, RecordedStage
    <2>. QED
        BY <2>2, <2>4
<1>6. /\ y.landed = x.landed /\ y.tried = x.tried /\ y.plan = x.plan /\ y.spec = x.spec
      /\ y.failed = x.failed /\ y.version = x.version /\ y.base = x.base
    BY <1>5 DEF SameBut, Fields, Idle
<1>7. Told(y, meta)
    BY <1>3, <1>5, <1>6, GroundIs, ToldKept
<1>8. Good(y, meta, lake) /\ Numbered(y)
    BY <1>5, <1>7 DEF Good, Seen, Numbered
<1>9. files' \in Specs /\ UNCHANGED <<lake, meta, begun, edits>>
    BY DEF IInv, RecordFails
<1>10. faults' \in 0 .. MaxFaults
    BY MigrationAssumption DEF IInv, RecordFails
<1>11. Steps(p, y) /\ y.version \in {0, run[p].version}
    BY <1>1, <1>2, <1>6 DEF RecordFails
<1>. QED
    BY <1>8, <1>9, <1>10, <1>11, StepsKeep

(* A row that is appended to one history. *)
LEMMA Lengthened ==
    ASSUME NEW c \in Catalogs, NEW row
    PROVE  HistoriesOK(meta) /\ meta' = [meta EXCEPT ![c] = Append(@, row)] =>
           /\ DOMAIN meta' = Catalogs
           /\ \A d \in Catalogs : d # c => meta'[d] = meta[d]
           /\ Len(meta[c]) \in Nat /\ Len(meta'[c]) = Len(meta[c]) + 1
           /\ DOMAIN meta[c] = 1 .. Len(meta[c]) /\ DOMAIN meta'[c] = 1 .. Len(meta[c]) + 1
           /\ \A i \in 1 .. Len(meta[c]) : meta'[c][i] = meta[c][i]
           /\ meta'[c][Len(meta[c]) + 1] = row
           /\ meta'[c] \in Seq({meta'[c][i] : i \in DOMAIN meta'[c]})
           /\ Appended(meta, meta')
<1>0. SUFFICES ASSUME HistoriesOK(meta), meta' = [meta EXCEPT ![c] = Append(@, row)]
      PROVE  /\ DOMAIN meta' = Catalogs
             /\ \A d \in Catalogs : d # c => meta'[d] = meta[d]
             /\ Len(meta[c]) \in Nat /\ Len(meta'[c]) = Len(meta[c]) + 1
             /\ DOMAIN meta[c] = 1 .. Len(meta[c]) /\ DOMAIN meta'[c] = 1 .. Len(meta[c]) + 1
             /\ \A i \in 1 .. Len(meta[c]) : meta'[c][i] = meta[c][i]
             /\ meta'[c][Len(meta[c]) + 1] = row
             /\ meta'[c] \in Seq({meta'[c][i] : i \in DOMAIN meta'[c]})
             /\ Appended(meta, meta')
    OBVIOUS
<1>1. PICK s : s = meta[c]
    OBVIOUS
<1>2. PICK t : t = Append(s, row)
    OBVIOUS
<1>3. s \in Seq({s[i] : i \in DOMAIN s}) /\ DOMAIN meta = Catalogs
    BY <1>0, <1>1 DEF HistoriesOK
<1>4. /\ Len(s) \in Nat /\ Len(t) = Len(s) + 1
      /\ DOMAIN s = 1 .. Len(s) /\ DOMAIN t = 1 .. Len(s) + 1
      /\ \A i \in 1 .. Len(s) : t[i] = s[i]
      /\ t[Len(s) + 1] = row
      /\ t \in Seq({t[i] : i \in DOMAIN t})
    BY <1>2, <1>3, AppendIs
<1>5. meta' = [meta EXCEPT ![c] = t]
    BY <1>0, <1>1, <1>2
<1>6. meta'[c] = t /\ DOMAIN meta' = Catalogs /\ \A d \in Catalogs : d # c => meta'[d] = meta[d]
    BY <1>3, <1>5
<1>7. ASSUME NEW d \in Catalogs
      PROVE  /\ Len(meta[d]) \in Nat /\ Len(meta'[d]) \in Nat /\ Len(meta[d]) <= Len(meta'[d])
             /\ \A i \in 1 .. Len(meta[d]) : meta'[d][i] = meta[d][i]
    <2>1. CASE d = c
        BY <1>1, <1>4, <1>6, <2>1
    <2>2. CASE d # c
        <3>1. PICK u : u = meta[d]
            OBVIOUS
        <3>2. u \in Seq({u[i] : i \in DOMAIN u})
            BY <1>0, <3>1 DEF HistoriesOK
        <3>3. Len(u) \in Nat
            BY <3>2
        <3>. QED
            BY <1>6, <2>2, <3>1, <3>3
    <2>. QED
        BY <2>1, <2>2
<1>8. Appended(meta, meta')
    BY <1>6, <1>7 DEF Appended
<1>9. meta[c] = s
    BY <1>1
<1>. QED
    BY <1>4, <1>6, <1>8, <1>9

LEMMA RecordLandsStep ==
    ASSUME IInv, NEW p \in Operators, NEW answered \in BOOLEAN, RecordLands(p, answered)
    PROVE  IInv'
<1>1. PICK x : x = run[p]
    OBVIOUS
<1>2. PICK c : c = NextCatalog(x)
    OBVIOUS
<1>3. PICK row : row = Row(x, c)
    OBVIOUS
<1>4. PICK wrote : wrote = x.wrote \cup {<<c, Len(meta[c]) + 1>>}
    OBVIOUS
<1>5. PICK y : y = Recorded([x EXCEPT !.wrote = wrote], answered)
    OBVIOUS
<1>6. Shape(x) /\ Stage(x) /\ Told(x, meta) /\ x.pc = "record"
    BY <1>1 DEF IInv, RecordLands
<1>7. x.pending # {} /\ x.version # 0
    BY <1>6 DEF Stage
<1>8. c \in Bound(x) /\ c \in Catalogs
    <2>1. c \in x.pending
        BY <1>2, <1>6, <1>7, NextCatalogIs
    <2>2. x.pending \subseteq Bound(x) /\ Bound(x) \subseteq Catalogs
        BY <1>6 DEF Shape, Bound, Catalogs, Targets
    <2>. QED
        BY <2>1, <2>2
<1>9. /\ Shape(y) /\ Stage(y) /\ y.pc \in {"record", "restore", "done"}
      /\ SameBut(x, y, {"pc", "status", "pending", "unrecorded", "wrote"})
      /\ y.wrote = wrote
    <2>1. PICK ok \in BOOLEAN : ok = answered
        OBVIOUS
    <2>2. y = Recorded([x EXCEPT !.wrote = wrote], ok)
        BY <1>5, <2>1
    <2>. QED
        BY <1>6, <2>2, RecordedStage
<1>10. /\ y.landed = x.landed /\ y.tried = x.tried /\ y.plan = x.plan /\ y.spec = x.spec
       /\ y.failed = x.failed /\ y.version = x.version /\ y.base = x.base
    BY <1>9 DEF SameBut, Fields, Idle
<1>11. meta' = [meta EXCEPT ![c] = Append(@, row)]
    BY <1>1, <1>2, <1>3 DEF RecordLands
<1>12. /\ row.version = x.version /\ row.status = RowStatus(x) /\ row.renames = RenamesOf(x, c)
       /\ RowOK(row)
    <2>1. /\ row.version = x.version /\ row.status = RowStatus(x) /\ row.renames = RenamesOf(x, c)
          /\ row.spec = x.snap
        BY <1>3 DEF Row
    <2>2. x.version \in 1 .. MaxRuns /\ x.snap \in Specs
        BY <1>6, <1>7, MigrationAssumption DEF Shape
    <2>3. RowStatus(x) \in {"applied", "partial", "failed"}
        BY DEF RowStatus
    <2>. QED
        BY <2>1, <2>2, <2>3 DEF RowOK
<1>13. /\ DOMAIN meta' = Catalogs
       /\ \A d \in Catalogs : d # c => meta'[d] = meta[d]
       /\ Len(meta[c]) \in Nat /\ Len(meta'[c]) = Len(meta[c]) + 1
       /\ DOMAIN meta[c] = 1 .. Len(meta[c]) /\ DOMAIN meta'[c] = 1 .. Len(meta[c]) + 1
       /\ \A i \in 1 .. Len(meta[c]) : meta'[c][i] = meta[c][i]
       /\ meta'[c][Len(meta[c]) + 1] = row
       /\ meta'[c] \in Seq({meta'[c][i] : i \in DOMAIN meta'[c]})
    BY <1>8, <1>11, Lengthened DEF IInv
<1>14. \A d \in Catalogs : Len(meta[d]) \in Nat
    BY GroundIs DEF Appended
<1>15. Appended(meta, meta')
    BY <1>8, <1>11, Lengthened DEF IInv
<1>16. HistoriesOK(meta')
    <2>1. HistoriesOK(meta)
        BY DEF IInv
    <2>2. ASSUME NEW d \in Catalogs
          PROVE  /\ meta'[d] \in Seq({meta'[d][i] : i \in DOMAIN meta'[d]})
                 /\ \A i \in DOMAIN meta'[d] : RowOK(meta'[d][i])
        <3>1. CASE d # c
            <4>1. PICK s : s = meta[d]
                OBVIOUS
            <4>2. s \in Seq({s[i] : i \in DOMAIN s}) /\ \A i \in DOMAIN s : RowOK(s[i])
                BY <2>1, <2>2, <4>1 DEF HistoriesOK
            <4>3. meta'[d] = s
                BY <1>13, <3>1, <4>1
            <4>. QED
                BY <4>2, <4>3
        <3>2. CASE d = c
            <4>1. \A i \in DOMAIN meta[c] : RowOK(meta[c][i])
                BY <1>8, <2>1 DEF HistoriesOK
            <4>2. \A i \in 1 .. Len(meta[c]) : RowOK(meta'[c][i])
                BY <1>13, <4>1
            <4>3. \A i \in DOMAIN meta'[c] : i \in 1 .. Len(meta[c]) \/ i = Len(meta[c]) + 1
                BY <1>13
            <4>4. \A i \in DOMAIN meta'[c] : RowOK(meta'[c][i])
                BY <1>12, <1>13, <4>2, <4>3
            <4>. QED
                BY <1>13, <3>2, <4>4
        <3>. QED
            BY <3>1, <3>2
    <2>. QED
        BY <1>13, <2>2 DEF HistoriesOK
<1>17. Told(y, meta')
    <2>1. Told(x, meta')
        BY <1>6, <1>15, ToldKept
    <2>2. Bound(y) = Bound(x) /\ RowStatus(y) = RowStatus(x) /\ RenamesOf(y, c) = RenamesOf(x, c)
          /\ \A d : RenamesOf(y, d) = RenamesOf(x, d)
        BY <1>10 DEF Bound, RowStatus, RenamesOf
    <2>3. ASSUME NEW written \in y.wrote
          PROVE  /\ written[1] \in Bound(x)
                 /\ written[2] \in 1 .. Len(meta'[written[1]])
                 /\ meta'[written[1]][written[2]].version = x.version
                 /\ meta'[written[1]][written[2]].status = RowStatus(x)
                 /\ meta'[written[1]][written[2]].renames = RenamesOf(x, written[1])
        <3>1. CASE written \in x.wrote
            BY <2>1, <3>1 DEF Told
        <3>2. CASE written = <<c, Len(meta[c]) + 1>>
            <4>1. written[1] = c /\ written[2] = Len(meta[c]) + 1
                BY <3>2
            <4>2. written[2] \in 1 .. Len(meta'[c])
                BY <1>13, <4>1
            <4>. QED
                BY <1>8, <1>12, <1>13, <4>1, <4>2
        <3>. QED
            BY <1>4, <1>9, <3>1, <3>2
    <2>4. x.version # 0 => \A d \in Bound(x) :
             /\ x.base[d] <= Len(meta'[d])
             /\ \A i \in 1 .. x.base[d] : meta'[d][i].version < x.version
        BY <2>1 DEF Told
    <2>. QED
        BY <1>10, <2>2, <2>3, <2>4 DEF Told
<1>18. Good(y, meta', lake') /\ Numbered(y)
    BY <1>9, <1>17 DEF Good, Seen, Numbered
<1>19. Moves(p, y)
    BY <1>1, <1>2, <1>4, <1>5 DEF Moves, Steps, RecordLands
<1>20. Ground'
    <2>1. Ground
        BY GroundIs
    <2>2. files' \in Specs /\ begun' \in 0 .. MaxRuns /\ edits' \in 0 .. MaxEdits /\ LakeOK(lake')
        BY <2>1 DEF Ground, RecordLands
    <2>3. faults' \in 0 .. MaxFaults
        <3>1. faults \in 0 .. MaxFaults /\ MaxFaults \in Nat
            BY MigrationAssumption DEF IInv
        <3>2. /\ ~ answered => faults < MaxFaults
              /\ faults' = IF answered THEN faults ELSE faults + 1
            BY Zenon DEF RecordLands
        <3>. QED
            BY <3>1, <3>2
    <2>. QED
        BY <1>16, <2>2, <2>3 DEF Ground
<1>21. Counted'
    <2>1. x.version \in Numbers /\ AllVersions \subseteq Numbers
        BY <1>1 DEF Numbers
    <2>2. ASSUME NEW v \in AllVersions' PROVE v \in Numbers
        <3>1. PICK d \in Catalogs : v \in Versions(d)'
            BY DEF AllVersions
        <3>2. PICK i \in DOMAIN meta'[d] : v = meta'[d][i].version
            BY <3>1 DEF Versions
        <3>3. CASE d = c /\ i = Len(meta[c]) + 1
            BY <1>12, <1>13, <2>1, <3>2, <3>3
        <3>4. CASE ~ (d = c /\ i = Len(meta[c]) + 1)
            <4>1. i \in DOMAIN meta[d] /\ meta'[d][i] = meta[d][i]
                <5>1. CASE d # c
                    BY <1>13, <3>2, <5>1
                <5>2. CASE d = c
                    <6>1. i \in 1 .. Len(meta[c]) + 1 /\ i # Len(meta[c]) + 1
                        BY <1>13, <3>2, <3>4, <5>2
                    <6>2. i \in 1 .. Len(meta[c])
                        BY <1>13, <6>1
                    <6>. QED
                        BY <1>13, <5>2, <6>2
                <5>. QED
                    BY <5>1, <5>2
            <4>2. v \in AllVersions
                BY <3>2, <4>1 DEF AllVersions, Versions
            <4>. QED
                BY <2>1, <4>2
        <3>. QED
            BY <3>3, <3>4
    <2>3. begun' = begun /\ begun' \in Nat /\ begun' >= begun
        BY MigrationAssumption DEF IInv, RecordLands
    <2>. QED
        BY <1>10, <1>18, <1>19, <2>1, <2>2, <2>3, CountKept
<1>. QED
    BY <1>15, <1>18, <1>19, <1>20, <1>21, MovesKeep

LEMMA EditStep == ASSUME IInv, Edit PROVE IInv'
<1>1. Ground /\ Appended(meta, meta) /\ meta' = meta /\ lake' = lake /\ begun' = begun
    BY GroundIs DEF Edit
<1>2. Ground'
    <2>1. HistoriesOK(meta') /\ LakeOK(lake') /\ begun' \in 0 .. MaxRuns /\ faults' \in 0 .. MaxFaults
        BY <1>1 DEF Ground, Edit
    <2>2. files' \in Specs /\ edits' \in 0 .. MaxEdits
        BY <1>1, MigrationAssumption DEF Ground, Edit
    <2>. QED
        BY <2>1, <2>2 DEF Ground
<1>3. CASE Operators = {}
    <2>1. DOMAIN run' = {} /\ Unnumbered' = Unnumbered
        BY <1>3 DEF Edit, Unnumbered
    <2>2. Numbers' = Numbers
        BY <1>1, <1>3 DEF Numbers, AllVersions, Versions
    <2>3. Counted'
        BY <1>1, <2>1, <2>2 DEF IInv, Counted
    <2>. QED
        BY <1>2, <1>3, <2>1, <2>3 DEF IInv, Ground
<1>4. ASSUME NEW p \in Operators PROVE IInv'
    <2>1. PICK y : y = Lasting(run[p])
        OBVIOUS
    <2>2. Moves(p, y)
        BY <1>1, <2>1 DEF Moves, Edit
    <2>3. Good(run[p], meta, lake)
        BY DEF IInv, Good
    <2>4. /\ Good(y, meta', lake')
          /\ y.pc \in {"diff", "confirm"} <=> run[p].pc \in {"diff", "confirm"}
          /\ y.version \in {0, run[p].version}
        BY <1>1, <2>1, <2>3, OthersGood
    <2>5. Counted'
        <3>1. AllVersions' \subseteq Numbers /\ y.version \in Numbers
            BY <1>1, <2>4 DEF Numbers, AllVersions, Versions
        <3>2. begun' \in Nat /\ begun' >= begun
            BY <1>1, MigrationAssumption DEF Ground
        <3>3. Numbered(y) \/ ~ Numbered(run[p])
            BY <2>4 DEF Numbered
        <3>. QED
            BY <2>2, <3>1, <3>2, <3>3, CountKept
    <2>. QED
        BY <1>1, <1>2, <2>2, <2>4, <2>5, MovesKeep
<1>. QED
    BY <1>3, <1>4

LEMMA StartKeeps ==
    ASSUME IInv, NEW p \in Operators, MayBegin(p),
           NEW x, Start(p, x), SameBut(Idle, x, {"rollback", "spec", "snap", "target", "overlay", "read"}),
           x.rollback \in BOOLEAN, x.spec \in Specs, x.snap \in Specs, faults' \in 0 .. MaxFaults
    PROVE  IInv'
<1>1. PICK y : y = IF Sound(x) THEN [x EXCEPT !.pc = "diff"] ELSE Idle
    OBVIOUS
<1>2. Good(y, meta, lake) /\ y.version = 0
    <2>1. CASE y = Idle
        BY <2>1, IdleGood, IdleIs
    <2>2. CASE y = [x EXCEPT !.pc = "diff"]
        <3>1. /\ SameBut(Idle, y, {"pc", "rollback", "spec", "snap", "target", "overlay", "read"})
              /\ y.pc = "diff" /\ y.rollback = x.rollback /\ y.spec = x.spec /\ y.snap = x.snap
            BY <2>2 DEF SameBut, Fields, Idle
        <3>. QED
            BY <3>1, FreshGood
    <2>. QED
        BY <1>1, <2>1, <2>2, Zenon
<1>3. Steps(p, y) /\ begun' = begun + 1 /\ UNCHANGED <<lake, meta, files, edits>>
    BY <1>1, Zenon DEF Start
<1>4. Moves(p, y)
    BY <1>3 DEF Moves, Steps
<1>5. Appended(meta, meta') /\ Ground'
    <2>1. Ground /\ Appended(meta, meta)
        BY GroundIs
    <2>2. HistoriesOK(meta') /\ LakeOK(lake') /\ Appended(meta, meta')
          /\ files' \in Specs /\ edits' \in 0 .. MaxEdits /\ faults' \in 0 .. MaxFaults
        BY <1>3, <2>1 DEF Ground
    <2>3. begun' \in 0 .. MaxRuns
        BY <1>3, <2>1, MigrationAssumption DEF Ground, MayBegin
    <2>. QED
        BY <2>2, <2>3 DEF Ground
<1>6. Counted'
    <2>1. AllVersions' = AllVersions
        BY <1>3 DEF AllVersions, Versions
    <2>2. AllVersions' \subseteq Numbers /\ y.version \in Numbers
        BY <1>2, <2>1 DEF Numbers
    <2>. QED
        BY <1>3, <1>4, <2>2, CountStarted
<1>7. Good(y, meta', lake')
    BY <1>2, <1>3
<1>. QED
    BY <1>4, <1>5, <1>6, <1>7, MovesKeep

(* A step in which probes may fail. *)
LEMMA MissingIs ==
    ASSUME IInv, NEW those, Missing(those)
    PROVE  faults' \in 0 .. MaxFaults
BY MigrationAssumption DEF Missing, IInv

(* A run as it starts. *)
Fresh(x) ==
    /\ SameBut(Idle, x, {"rollback", "spec", "snap", "target", "overlay", "read"})
    /\ x.rollback \in BOOLEAN /\ x.spec \in Specs /\ x.snap \in Specs

(* A rollback has read to its end every history it was shown, and goes back by their renames. *)
Returns(x) ==
    x.rollback => \E shown \in SUBSET Catalogs, newestFirst \in BOOLEAN :
        /\ x.read = [c \in Catalogs |-> Len(Rows(c, shown))]
        /\ x.overlay = [t \in TableSet |-> Back(t, shown, x.target, newestFirst)]

LEMMA ApplyIs ==
    ASSUME IInv, NEW p \in Operators, Apply(p)
    PROVE  /\ MayBegin(p) /\ UNCHANGED <<lake, meta, files, edits>> /\ faults' \in 0 .. MaxFaults
           /\ \E x : Start(p, x) /\ Fresh(x) /\ Returns(x)
<1>1. PICK x : x = [Idle EXCEPT !.spec = files]
    OBVIOUS
<1>2. files \in Specs
    BY DEF IInv
<1>3. /\ SameBut(Idle, x, {"rollback", "spec", "snap", "target", "overlay", "read"})
      /\ x.rollback \in BOOLEAN /\ x.spec \in Specs /\ x.snap \in Specs
    BY <1>1, <1>2, MigrationAssumption DEF SameBut, Fields, Idle
<1>4. MayBegin(p) /\ Start(p, x)
    BY <1>1 DEF Apply
<1>5. Returns(x)
    BY <1>1 DEF Returns, Idle
<1>6. UNCHANGED <<lake, meta, files, edits>> /\ faults' \in 0 .. MaxFaults
    BY DEF Apply, Start, IInv
<1>. QED
    BY <1>3, <1>4, <1>5, <1>6 DEF Fresh

LEMMA ApplyStep == ASSUME IInv, NEW p \in Operators, Apply(p) PROVE IInv'
BY ApplyIs, StartKeeps DEF Fresh

(* The row of a version a catalog holds is one of its rows, of a spec. *)
LEMMA HeldIs ==
    ASSUME HistoriesOK(meta), NEW c \in Catalogs, NEW version \in Versions(c),
           NEW newestFirst \in BOOLEAN
    PROVE  Held(c, version, newestFirst).spec \in Specs
<1>1. PICK rows : rows = meta[c]
    OBVIOUS
<1>. DEFINE of == {i \in DOMAIN rows : rows[i].version = version}
            First(i) == \A j \in of : IF newestFirst THEN i <= j ELSE i >= j
<1>2. rows \in Seq({rows[i] : i \in DOMAIN rows}) /\ \A i \in DOMAIN rows : rows[i].spec \in Specs
    BY <1>1 DEF HistoriesOK, RowOK
<1>3. of # {} /\ Len(rows) \in Nat /\ of \in SUBSET (0 .. Len(rows)) /\ of \in SUBSET Nat
    <2>1. Len(rows) \in Nat /\ DOMAIN rows = 1 .. Len(rows)
        BY <1>2
    <2>. QED
        BY <1>1, <2>1 DEF Versions
<1>4. \E i \in of : First(i)
    <2>1. CASE newestFirst
        <3>1. \E i \in of : \A j \in of : i <= j
            BY <1>3, LeastExists
        <3>. QED
            BY <2>1, <3>1
    <2>2. CASE ~ newestFirst
        <3>1. \E i \in of : \A j \in of : j <= i
            BY <1>3, GreatestExists
        <3>2. \A i, j \in of : j <= i => i >= j
            BY <1>3
        <3>. QED
            BY <2>2, <3>1, <3>2
    <2>. QED
        BY <2>1, <2>2
<1>5. PICK first : first = CHOOSE i \in of : First(i)
    OBVIOUS
<1>6. first \in of
    BY <1>4, <1>5, Zenon
<1>7. Held(c, version, newestFirst) = rows[first]
    BY <1>1, <1>5, Zenon DEF Held
<1>. QED
    BY <1>2, <1>6, <1>7

LEMMA RollbackIs ==
    ASSUME IInv, NEW p \in Operators, Rollback(p)
    PROVE  /\ MayBegin(p) /\ UNCHANGED <<lake, meta, files, edits>> /\ faults' \in 0 .. MaxFaults
           /\ \E x : Start(p, x) /\ Fresh(x) /\ Returns(x)
<1>1. HistoriesOK(meta) /\ MaxRuns \in Nat
    BY MigrationAssumption DEF IInv
<1>2. PICK unseen \in SUBSET Recording, newestFirst \in BOOLEAN :
         /\ Missing(unseen)
         /\ LET shown == Catalogs \ unseen
                top == Highest(VersionsIn(shown))
            IN  \E version \in VersionsIn(shown) :
                  LET target == Held(CHOOSE c \in Holders(version, shown) : TRUE, version, newestFirst).spec
                      recorded == Held(CHOOSE c \in Holders(top, shown) : TRUE, top, newestFirst).spec
                  IN  Start(p, [Idle EXCEPT !.rollback = TRUE, !.spec = target, !.snap = recorded,
                                   !.target = version,
                                   !.read = [c \in Catalogs |-> Len(Rows(c, shown))],
                                   !.overlay = [t \in TableSet |-> Back(t, shown, version, newestFirst)]])
    BY Zenon DEF Rollback
<1>3. PICK shown \in SUBSET Catalogs : shown = Catalogs \ unseen
    OBVIOUS
<1>4. PICK top : top = Highest(VersionsIn(shown))
    OBVIOUS
<1>5. PICK version \in VersionsIn(shown) :
         LET target == Held(CHOOSE c \in Holders(version, shown) : TRUE, version, newestFirst).spec
             recorded == Held(CHOOSE c \in Holders(top, shown) : TRUE, top, newestFirst).spec
         IN  Start(p, [Idle EXCEPT !.rollback = TRUE, !.spec = target, !.snap = recorded,
                                   !.target = version,
                                   !.read = [c \in Catalogs |-> Len(Rows(c, shown))],
                                   !.overlay = [t \in TableSet |-> Back(t, shown, version, newestFirst)]])
    BY <1>2, <1>3, <1>4, Zenon
<1>6. ASSUME NEW v \in VersionsIn(shown)
      PROVE  Held(CHOOSE c \in Holders(v, shown) : TRUE, v, newestFirst).spec \in Specs
    <2>1. PICK c : c = CHOOSE d \in Holders(v, shown) : TRUE
        OBVIOUS
    <2>2. Holders(v, shown) # {}
        BY <1>6 DEF Holders, VersionsIn
    <2>3. c \in Holders(v, shown)
        BY <2>1, <2>2
    <2>4. c \in Catalogs /\ v \in Versions(c)
        BY <2>3 DEF Holders
    <2>. QED
        BY <1>1, <2>1, <2>4, HeldIs
<1>7. top \in VersionsIn(shown)
    <2>1. VersionsIn(shown) \in SUBSET (1 .. MaxRuns)
        <3>1. \A c \in Catalogs : \A i \in DOMAIN meta[c] : meta[c][i].version \in 1 .. MaxRuns
            BY <1>1, Zenon DEF HistoriesOK, RowOK
        <3>. QED
            BY <3>1 DEF VersionsIn, Versions
    <2>. QED
        BY <1>1, <1>4, <1>5, <2>1, HighestIs
<1>8. PICK target : target = Held(CHOOSE c \in Holders(version, shown) : TRUE, version, newestFirst).spec
    OBVIOUS
<1>9. PICK recorded : recorded = Held(CHOOSE c \in Holders(top, shown) : TRUE, top, newestFirst).spec
    OBVIOUS
<1>10. PICK read : read = [c \in Catalogs |-> Len(Rows(c, shown))]
    OBVIOUS
<1>11. PICK overlay : overlay = [t \in TableSet |-> Back(t, shown, version, newestFirst)]
    OBVIOUS
<1>12. target \in Specs /\ recorded \in Specs
    BY <1>6, <1>7, <1>8, <1>9, Zenon
<1>13. PICK x : x = [Idle EXCEPT !.rollback = TRUE, !.spec = target, !.snap = recorded,
                                 !.target = version, !.read = read, !.overlay = overlay]
    OBVIOUS
<1>14. Start(p, x)
    BY <1>5, <1>8, <1>9, <1>10, <1>11, <1>13, Zenon
<1>15. /\ SameBut(Idle, x, {"rollback", "spec", "snap", "target", "overlay", "read"})
       /\ x.rollback \in BOOLEAN /\ x.spec \in Specs /\ x.snap \in Specs
    BY <1>12, <1>13 DEF SameBut, Fields, Idle
<1>16. MayBegin(p)
    BY DEF Rollback
<1>17. Returns(x)
    <2>1. x.read = read /\ x.overlay = overlay /\ x.target = version
        BY <1>13 DEF Idle
    <2>. QED
        BY <1>10, <1>11, <2>1, Zenon DEF Returns
<1>18. UNCHANGED <<lake, meta, files, edits>>
    BY <1>14 DEF Start
<1>19. faults' \in 0 .. MaxFaults
    BY <1>2, MissingIs
<1>. QED
    BY <1>14, <1>15, <1>16, <1>17, <1>18, <1>19 DEF Fresh

LEMMA RollbackStep == ASSUME IInv, NEW p \in Operators, Rollback(p) PROVE IInv'
BY RollbackIs, StartKeeps DEF Fresh

(* The plan of one more table. *)
Finding(x, t, want, live) == IF t \in Targets(x.spec) THEN DiffTable(want, live) ELSE NoChange

Leaving(x, t, want, live) ==
    IF x.rollback THEN {<<t, c>> : c \in LeftBehind(Wanted(x.snap, t), Wanted(x.spec, t), want, live)}
    ELSE {}

Diffed(x, y, t, found, left) ==
    /\ SameBut(x, y, {"plan", "found", "missed", "left", "at", "pc", "rewrites"})
    /\ y.plan = [x.plan EXCEPT ![t] = found] /\ y.left = x.left \cup left /\ y.rewrites \in BOOLEAN
    /\ \/ x.at < Len(Tables) /\ y.at = x.at + 1 /\ y.pc = "diff"
       \/ ~ (x.at < Len(Tables)) /\ y.at = 1 /\ y.pc = "confirm"

(* A table that was asked for is shown as it is, or not at all. *)
Shown(t, missed) == IF t \in missed THEN << >> ELSE lake[t]

\* What DiffNext does with the run it takes: it goes on with a table it shows or misses.
GoesOn(p, x, t, want) ==
    \E y, missed :
        /\ Steps(p, y) /\ missed \subseteq {t}
        /\ Diffed(x, y, t, Finding(x, t, want, Shown(t, missed)), Leaving(x, t, want, Shown(t, missed)))
        /\ y.found = [x.found EXCEPT ![t] = IF x.rollback THEN lake[t] ELSE @]
        /\ y.missed = x.missed \cup missed

LEMMA DiffNextIs ==
    ASSUME IInv, NEW p \in Operators, DiffNext(p), NEW x, x = run[p], NEW t, t = Tables[x.at],
           NEW want, want = Overlaid(x, t)
    PROVE  /\ UNCHANGED <<lake, meta, files, begun, edits>> /\ faults' \in 0 .. MaxFaults
           /\ GoesOn(p, x, t, want)
<1>. DEFINE Planned(z, u, f, s, m) ==
                [z EXCEPT !.plan[u] = f, !.found[u] = IF z.rollback THEN lake[u] ELSE @,
                          !.missed = @ \cup m, !.left = @ \cup s]
            Went(z, n, r) == IF z.at < Len(Tables) THEN [n EXCEPT !.at = @ + 1]
                             ELSE [n EXCEPT !.pc = "confirm", !.at = 1, !.rewrites = r]
<1>1. PICK missed \in SUBSET {u \in Probed(run[p]) \cap {Tables[run[p].at]} : lake[u] # << >>} :
         /\ Missing(missed)
         /\ LET z == run[p]
                u == Tables[z.at]
                w == Overlaid(z, u)
                l == Shown(u, missed)
            IN  Steps(p, Went(z, Planned(z, u, Finding(z, u, w, l), Leaving(z, u, w, l), missed),
                              z.rollback /\ files # z.spec))
    BY Zenon DEF DiffNext, Finding, Leaving, Shown
<1>2. missed \subseteq {t}
    BY <1>1
<1>3. PICK found : found = Finding(x, t, want, Shown(t, missed))
    OBVIOUS
<1>4. PICK left : left = Leaving(x, t, want, Shown(t, missed))
    OBVIOUS
<1>5. PICK rewrites : rewrites = (x.rollback /\ files # x.spec)
    OBVIOUS
<1>6. PICK planned : planned = Planned(x, t, found, left, missed)
    OBVIOUS
<1>7. PICK y : y = Went(x, planned, rewrites)
    OBVIOUS
<1>8. Steps(p, y)
    <2>. HIDE DEF Planned, Went
    <2>. QED
        BY <1>1, <1>3, <1>4, <1>5, <1>6, <1>7, Zenon
<1>9. Shape(x) /\ x.pc = "diff"
    BY DEF IInv, DiffNext
<1>10. /\ SameBut(x, planned, {"plan", "found", "missed", "left"})
       /\ planned.plan = [x.plan EXCEPT ![t] = found] /\ planned.left = x.left \cup left
       /\ planned.missed = x.missed \cup missed
       /\ planned.found = [x.found EXCEPT ![t] = IF x.rollback THEN lake[t] ELSE @]
    BY <1>6, <1>9 DEF Shape, SameBut, Fields, Idle
<1>11. /\ SameBut(planned, y, {"at", "pc", "rewrites"})
       /\ \/ /\ x.at < Len(Tables) /\ y.at = x.at + 1
             /\ y.pc = planned.pc /\ y.rewrites = planned.rewrites
          \/ /\ ~ (x.at < Len(Tables)) /\ y.at = 1 /\ y.pc = "confirm" /\ y.rewrites = rewrites
    <2>1. DOMAIN planned = Fields /\ planned.at = x.at
        BY <1>10 DEF SameBut, Fields, Idle
    <2>2. CASE x.at < Len(Tables)
        BY <1>7, <2>1, <2>2 DEF SameBut, Fields, Idle
    <2>3. CASE ~ (x.at < Len(Tables))
        BY <1>7, <2>1, <2>3 DEF SameBut, Fields, Idle
    <2>. QED
        BY <2>2, <2>3
<1>12. y.rewrites \in BOOLEAN
    <2>1. planned.rewrites = x.rewrites
        BY <1>10 DEF SameBut, Fields, Idle
    <2>2. x.rewrites \in BOOLEAN /\ rewrites \in BOOLEAN
        BY <1>5, <1>9, Zenon DEF Shape
    <2>. QED
        BY <1>11, <2>1, <2>2
<1>13. /\ SameBut(x, y, {"plan", "found", "missed", "left", "at", "pc", "rewrites"})
       /\ y.plan = planned.plan /\ y.left = planned.left /\ y.found = planned.found
       /\ y.missed = planned.missed /\ planned.pc = "diff"
    BY <1>9, <1>10, <1>11 DEF SameBut, Fields, Idle
<1>14. Diffed(x, y, t, found, left)
    BY <1>10, <1>11, <1>12, <1>13 DEF Diffed
<1>15. UNCHANGED <<lake, meta, files, begun, edits>> /\ faults' \in 0 .. MaxFaults
    BY <1>1, MissingIs DEF DiffNext
<1>. HIDE DEF Planned, Went
<1>16. Diffed(x, y, t, Finding(x, t, want, Shown(t, missed)), Leaving(x, t, want, Shown(t, missed)))
    BY <1>3, <1>4, <1>14, Zenon
<1>17. /\ y.found = [x.found EXCEPT ![t] = IF x.rollback THEN lake[t] ELSE @]
       /\ y.missed = x.missed \cup missed
    BY <1>10, <1>13, Zenon
<1>18. \E z, m :
          /\ Steps(p, z) /\ m \subseteq {t}
          /\ Diffed(x, z, t, Finding(x, t, want, Shown(t, m)), Leaving(x, t, want, Shown(t, m)))
          /\ z.found = [x.found EXCEPT ![t] = IF x.rollback THEN lake[t] ELSE @]
          /\ z.missed = x.missed \cup m
    BY <1>2, <1>8, <1>16, <1>17, Zenon
<1>. QED
    BY <1>15, <1>18, Zenon DEF GoesOn

LEMMA DiffNextStep == ASSUME IInv, NEW p \in Operators, DiffNext(p) PROVE IInv'
<1>1. PICK x : x = run[p]
    OBVIOUS
<1>2. PICK t : t = Tables[x.at]
    OBVIOUS
<1>3. PICK want : want = Overlaid(x, t)
    OBVIOUS
<1>4. UNCHANGED <<lake, meta, files, begun, edits>> /\ faults' \in 0 .. MaxFaults /\ GoesOn(p, x, t, want)
    BY <1>1, <1>2, <1>3, DiffNextIs, Zenon
<1>5. PICK y, missed :
         /\ Steps(p, y) /\ missed \subseteq {t}
         /\ Diffed(x, y, t, Finding(x, t, want, Shown(t, missed)), Leaving(x, t, want, Shown(t, missed)))
         /\ y.missed = x.missed \cup missed
    BY <1>4, Zenon DEF GoesOn
<1>6. PICK live : live = Shown(t, missed)
    OBVIOUS
<1>7. \E found, left :
         /\ found = Finding(x, t, want, live) /\ left = Leaving(x, t, want, live)
         /\ Diffed(x, y, t, found, left)
    BY <1>5, <1>6
<1>8. PICK found, left :
         /\ found = Finding(x, t, want, live) /\ left = Leaving(x, t, want, live)
         /\ Diffed(x, y, t, found, left)
    BY <1>7
<1>9. Shape(x) /\ Stage(x) /\ Told(x, meta) /\ Seen(x, lake) /\ x.pc = "diff"
    BY <1>1 DEF IInv, DiffNext
<1>10. x.at \in DOMAIN Tables /\ x.at \in 1 .. Len(Tables) /\ Len(Tables) \in Nat /\ t \in TableSet
    BY <1>2, <1>9, TablesAre DEF Shape
<1>11. /\ y.landed = x.landed /\ y.changed = x.changed /\ y.tried = x.tried
       /\ y.plan = [x.plan EXCEPT ![t] = found] /\ y.left = x.left \cup left
       /\ y.spec = x.spec /\ y.snap = x.snap /\ y.overlay = x.overlay
       /\ y.failed = x.failed /\ y.version = x.version /\ DOMAIN y = Fields
       /\ y.rollback = x.rollback /\ y.restored = x.restored /\ y.status = x.status
       /\ y.unrecorded = x.unrecorded /\ y.overtaken = x.overtaken
       /\ y.pending = x.pending /\ y.base = x.base /\ y.wrote = x.wrote
    BY <1>8 DEF Diffed, SameBut, Fields, Idle
<1>12. y.pc \in {"diff", "confirm"} /\ y.at \in DOMAIN Tables /\ y.rewrites \in BOOLEAN
    <2>1. y.at \in DOMAIN Tables
        BY <1>8, <1>10, TablesAre DEF Diffed
    <2>. QED
        BY <1>8, <2>1 DEF Diffed
<1>13. WellPlanned(found) /\ (found.action # "none" => t \in Targets(x.spec))
    <2>1. Columns(want)
        BY <1>3, <1>9, <1>10, WantedTyped DEF Shape, Overlaid
    <2>2. WellPlanned(DiffTable(want, live))
        BY <2>1, DiffWellPlanned
    <2>3. WellPlanned(NoChange) /\ NoChange.action = "none"
        BY FS_EmptySet DEF NoChange, WellPlanned
    <2>. QED
        BY <1>8, <2>2, <2>3, Zenon DEF Finding
<1>14. /\ DOMAIN y.plan = TableSet /\ y.plan = [u \in TableSet |-> y.plan[u]] /\ y.plan[t] = found
       /\ \A u \in TableSet : u # t => y.plan[u] = x.plan[u]
       /\ \A u \in TableSet : WellPlanned(y.plan[u])
    <2>1. DOMAIN x.plan = TableSet /\ \A u \in TableSet : WellPlanned(x.plan[u])
        BY <1>9 DEF Shape
    <2>. QED
        BY <1>10, <1>11, <1>13, <2>1
<1>15. Bound(y) = Bound(x) /\ Changes(y) \subseteq Targets(y.spec)
    <2>1. Changes(x) \subseteq Targets(x.spec)
        BY <1>9 DEF Shape
    <2>. QED
        BY <1>11, <1>13, <1>14, <2>1 DEF Bound, Changes
<1>16. Shape(y)
    <2>1. y.pc \in PCs
        BY <1>12 DEF PCs
    <2>. QED
        BY <1>9, <1>11, <1>12, <1>14, <1>15, <2>1 DEF Shape
<1>17. Stage(y) /\ y.wrote = {}
    <2>1. Unbegun(x)
        BY <1>9 DEF Stage
    <2>2. Unbegun(y)
        BY <1>11, <2>1 DEF Unbegun
    <2>. QED
        BY <1>12, <2>2 DEF Stage, Unbegun
<1>18. Told(y, meta)
    BY <1>9, <1>11, <1>17, GroundIs, ToldKept
<1>19. Seen(y, lake)
    <2>. SUFFICES ASSUME y.rollback, ~ y.overtaken, NEW i \in DOMAIN Tables,
                         y.pc = "confirm" \/ i < y.at
                  PROVE  Foreseen(y, lake, Tables[i])
        BY DEF Seen
    <2>1. PICK u : u = Tables[i]
        OBVIOUS
    <2>2. i \in 1 .. Len(Tables) /\ (i < x.at \/ i = x.at) /\ u \in TableSet
        BY <1>8, <1>9, <1>10, <2>1, TablesAre DEF Diffed
    <2>3. Overlaid(y, u) = Overlaid(x, u)
        BY <1>11 DEF Overlaid
    <2>4. CASE i = x.at
        <3>. SUFFICES ASSUME u \notin y.missed
                      PROVE  /\ y.plan[u] = IF u \in Targets(y.spec) THEN DiffTable(Overlaid(y, u), lake[u])
                                            ELSE NoChange
                             /\ \A c \in LeftBehind(Wanted(y.snap, u), Wanted(y.spec, u), Overlaid(y, u), lake[u]) :
                                   <<u, c>> \in y.left
            BY <2>1, Zenon DEF Foreseen
        <3>1. u = t
            BY <1>2, <2>1, <2>4
        <3>2. live = lake[t]
            BY <1>5, <1>6, <3>1 DEF Shown
        <3>3. y.plan[u] = IF u \in Targets(y.spec) THEN DiffTable(Overlaid(y, u), lake[u]) ELSE NoChange
            BY <1>3, <1>8, <1>11, <1>14, <2>3, <3>1, <3>2, Zenon DEF Finding
        <3>4. left = {<<t, c>> : c \in LeftBehind(Wanted(x.snap, t), Wanted(x.spec, t), want, live)}
            BY <1>8, <1>11 DEF Leaving
        <3>5. \A c \in LeftBehind(Wanted(y.snap, u), Wanted(y.spec, u), Overlaid(y, u), lake[u]) :
                 <<u, c>> \in y.left
            BY <1>3, <1>11, <2>3, <3>1, <3>2, <3>4
        <3>. QED
            BY <3>3, <3>5
    <2>5. CASE i < x.at
        <3>. SUFFICES ASSUME u \notin y.missed
                      PROVE  /\ y.plan[u] = IF u \in Targets(y.spec) THEN DiffTable(Overlaid(y, u), lake[u])
                                            ELSE NoChange
                             /\ \A c \in LeftBehind(Wanted(y.snap, u), Wanted(y.spec, u), Overlaid(y, u), lake[u]) :
                                   <<u, c>> \in y.left
            BY <2>1, Zenon DEF Foreseen
        <3>1. Foreseen(x, lake, u) /\ u \notin x.missed
            BY <1>5, <1>9, <1>11, <2>1, <2>5 DEF Seen
        <3>2. u # t
            BY <1>2, <1>10, <2>1, <2>2, <2>5, TablesAre
        <3>3. y.plan[u] = x.plan[u] /\ x.left \subseteq y.left
            BY <1>11, <1>14, <2>2, <3>2
        <3>4. /\ x.plan[u] = IF u \in Targets(x.spec) THEN DiffTable(Overlaid(x, u), lake[u]) ELSE NoChange
              /\ \A c \in LeftBehind(Wanted(x.snap, u), Wanted(x.spec, u), Overlaid(x, u), lake[u]) :
                    <<u, c>> \in x.left
            BY <3>1, Zenon DEF Foreseen
        <3>5. y.plan[u] = IF u \in Targets(y.spec) THEN DiffTable(Overlaid(y, u), lake[u]) ELSE NoChange
            BY <1>11, <2>3, <3>3, <3>4, Zenon
        <3>6. \A c \in LeftBehind(Wanted(y.snap, u), Wanted(y.spec, u), Overlaid(y, u), lake[u]) :
                 <<u, c>> \in y.left
            BY <1>11, <2>3, <3>3, <3>4
        <3>. QED
            BY <3>5, <3>6
    <2>. QED
        BY <2>2, <2>4, <2>5
<1>20. Good(y, meta, lake)
    BY <1>16, <1>17, <1>18, <1>19 DEF Good
<1>21. files' \in Specs /\ faults' \in 0 .. MaxFaults /\ UNCHANGED <<lake, meta, begun, edits>>
    BY <1>4 DEF IInv
<1>22. y.version \in {0, run[p].version} /\ ~ Numbered(run[p])
    BY <1>1, <1>9, <1>11 DEF Numbered
<1>. QED
    BY <1>5, <1>20, <1>21, <1>22, StepsKeep

(* The version of a run is past every row of its catalogs that it read, and within the runs. *)
LEMMA VersionIs ==
    ASSUME IInv, NEW p \in Operators, run[p].pc = "confirm", NEW x, Shape(x), NEW unseen,
           NEW version, version = Version(x, unseen)
    PROVE  /\ \E n \in Numbers : version = n + 1
           /\ version \in 1 .. MaxRuns
           /\ \A c \in Bound(x) \ unseen : \A i \in DOMAIN meta[c] : meta[c][i].version < version
<1>. DEFINE V == VersionsIn(Bound(x) \ unseen)
<1>1. MaxRuns \in Nat /\ HistoriesOK(meta) /\ begun \in 0 .. MaxRuns
    BY MigrationAssumption DEF IInv
<1>2. Bound(x) \subseteq Catalogs
    BY DEF Bound, Catalogs, Targets
<1>3. V \in SUBSET (1 .. MaxRuns) /\ V \subseteq AllVersions
    <2>1. \A c \in Catalogs : \A i \in DOMAIN meta[c] : meta[c][i].version \in 1 .. MaxRuns
        BY <1>1, Zenon DEF HistoriesOK, RowOK
    <2>. QED
        BY <1>2, <2>1 DEF AllVersions, VersionsIn, Versions
<1>4. PICK n : n = Highest(V)
    OBVIOUS
<1>5. n \in 0 .. MaxRuns /\ (\A v \in V : v <= n) /\ (V # {} => n \in V)
    BY <1>1, <1>3, <1>4, HighestIs
<1>6. n \in Numbers
    <2>1. CASE V # {}
        BY <1>3, <1>5, <2>1 DEF Numbers
    <2>2. CASE V = {}
        <3>1. n = 0
            BY <1>4, <2>2, Zenon DEF Highest
        <3>. QED
            BY <3>1 DEF Numbers
    <2>. QED
        BY <2>1, <2>2
<1>7. version = n + 1
    BY <1>4, <1>5 DEF Version
<1>8. n + Cardinality(Unnumbered) <= begun
    BY <1>6 DEF IInv, Counted
<1>9. Cardinality(Unnumbered) \in Nat /\ Cardinality(Unnumbered) # 0
    <2>1. IsFiniteSet(Unnumbered)
        BY MigrationAssumption, FS_Subset DEF Unnumbered
    <2>2. p \in Unnumbered
        BY DEF Unnumbered
    <2>. QED
        BY <2>1, <2>2, FS_CardinalityType, FS_EmptySet
<1>10. n + 1 \in 1 .. MaxRuns
    BY <1>1, <1>5, <1>8, <1>9
<1>11. \A c \in Bound(x) \ unseen : \A i \in DOMAIN meta[c] : meta[c][i].version < n + 1
    <2>. TAKE c \in Bound(x) \ unseen
    <2>. TAKE i \in DOMAIN meta[c]
    <2>1. PICK v : v = meta[c][i].version
        OBVIOUS
    <2>2. v \in V
        BY <2>1 DEF Versions, VersionsIn
    <2>3. v \in 1 .. MaxRuns /\ v <= n
        BY <1>3, <1>5, <2>2
    <2>. QED
        BY <1>1, <1>5, <2>1, <2>3
<1>. QED
    BY <1>6, <1>7, <1>10, <1>11

(* The histories a run reads as it begins, of those that are there. *)
History(x) == IF BeginRefused(x) THEN {} ELSE Bound(x) \cap Recording

\* What Begin makes of a run, by the histories it is not shown.
Decided(x, snap, unseen, unread, newestFirst) ==
    LET pending == Pending(x, snap, unread, newestFirst)
        chosen == [x EXCEPT !.snap = snap, !.version = Version(x, unseen), !.pending = pending,
                            !.base = [c \in Catalogs |-> Len(Rows(c, Catalogs \ unseen))]]
    IN  IF BeginRefused(x) THEN Finish(x, "refused")
        ELSE IF Changes(x) = {} /\ pending = {} THEN Finish(chosen, "up-to-date")
        ELSE Onward(chosen, 1)

LEMMA BeginIs ==
    ASSUME NEW p \in Operators, Begin(p), NEW x, x = run[p],
           NEW snap, snap = IF x.rollback THEN x.spec ELSE files
    PROVE  \E n, u, d : Missing(u \cup d) /\ Steps(p, Decided(x, snap, u, d, n))
<1>1. \E n \in BOOLEAN, u \in SUBSET History(run[p]), d \in SUBSET History(run[p]) :
         /\ Missing(u \cup d)
         /\ Steps(p, Decided(run[p], IF run[p].rollback THEN run[p].spec ELSE files, u, d, n))
    BY Zenon DEF Begin, History, Decided
<1>. QED
    BY <1>1, Zenon

LEMMA BeginStep == ASSUME IInv, NEW p \in Operators, Begin(p) PROVE IInv'
<1>1. PICK x : x = run[p]
    OBVIOUS
<1>2. PICK snap : snap = IF x.rollback THEN x.spec ELSE files
    OBVIOUS
<1>3. PICK newestFirst, unseen, unread :
         Missing(unseen \cup unread) /\ Steps(p, Decided(x, snap, unseen, unread, newestFirst))
    BY <1>1, <1>2, BeginIs, Zenon
<1>4. PICK version : version = Version(x, unseen)
    OBVIOUS
<1>5. Shape(x) /\ Stage(x) /\ Told(x, meta) /\ x.pc = "confirm" /\ Unbegun(x)
    BY <1>1 DEF IInv, Begin, Stage
<1>6. UNCHANGED <<lake, meta, files, begun, edits>> /\ faults' \in 0 .. MaxFaults
    BY <1>3, MissingIs DEF Begin
<1>7. PICK base : base = [c \in Catalogs |-> Len(Rows(c, Catalogs \ unseen))]
    OBVIOUS
<1>8. PICK pending : pending = Pending(x, snap, unread, newestFirst)
    OBVIOUS
<1>9. PICK chosen : chosen = [x EXCEPT !.snap = snap, !.version = version, !.pending = pending, !.base = base]
    OBVIOUS
<1>10. PICK y : y = IF BeginRefused(x) THEN Finish(x, "refused")
                    ELSE IF Changes(x) = {} /\ pending = {} THEN Finish(chosen, "up-to-date")
                    ELSE Onward(chosen, 1)
    OBVIOUS
<1>11. Steps(p, y)
    BY <1>3, <1>4, <1>7, <1>8, <1>9, <1>10, Zenon DEF Decided
<1>12. CASE y = Finish(x, "refused")
    <2>1. x.landed = {}
        BY <1>5 DEF Unbegun
    <2>2. SameBut(x, y, {"pc", "status"}) /\ y.status = "refused" /\ y.pc = "done"
        BY <1>5, <1>12, <2>1, FinishIs DEF Statuses
    <2>3. /\ y.landed = x.landed /\ y.changed = x.changed /\ y.tried = x.tried /\ y.plan = x.plan
          /\ y.spec = x.spec /\ y.at = x.at /\ y.failed = x.failed /\ y.version = x.version
          /\ y.rollback = x.rollback /\ y.restored = x.restored
          /\ y.unrecorded = x.unrecorded /\ y.rewrites = x.rewrites /\ y.overtaken = x.overtaken
          /\ y.pending = x.pending /\ y.base = x.base /\ y.wrote = x.wrote
        BY <2>2 DEF SameBut, Fields, Idle
    <2>4. Unbegun(y)
        BY <1>5, <2>3 DEF Unbegun
    <2>5. Shape(y)
        <3>1. SameBut(x, y, {"pc", "status", "overtaken", "left", "wrote",
                   "restored", "unrecorded", "changed", "tried", "landed", "failed", "rewrites"})
            BY <2>2 DEF SameBut
        <3>2. /\ y.pc \in PCs /\ y.status \in Statuses /\ y.restored \in BOOLEAN
              /\ y.unrecorded \in BOOLEAN /\ y.failed \in BOOLEAN /\ y.rewrites \in BOOLEAN
              /\ y.overtaken \in BOOLEAN
            BY <1>5, <2>2, <2>3 DEF Shape, PCs, Statuses
        <3>. QED
            BY <1>5, <3>1, <3>2, ShapeKept
    <2>6. Stage(y)
        BY <2>2, <2>4 DEF Stage, Unbegun
    <2>7. Told(y, meta)
        BY <1>5, <2>3, GroundIs, ToldKept
    <2>8. Good(y, meta, lake) /\ Numbered(y)
        BY <2>2, <2>5, <2>6, <2>7 DEF Good, Seen, Numbered
    <2>9. files' \in Specs /\ faults' \in 0 .. MaxFaults /\ UNCHANGED <<lake, meta, begun, edits>>
        BY <1>6 DEF IInv
    <2>10. y.version \in {0, run[p].version}
        BY <1>1, <2>3
    <2>. QED
        BY <1>11, <2>8, <2>9, <2>10, StepsKeep
<1>13. CASE /\ ~ BeginRefused(x)
            /\ \/ Changes(x) = {} /\ pending = {} /\ y = Finish(chosen, "up-to-date")
               \/ ~ (Changes(x) = {} /\ pending = {}) /\ y = Onward(chosen, 1)
    <2>1. /\ SameBut(x, chosen, {"snap", "version", "pending", "base"})
          /\ chosen.snap = snap /\ chosen.version = version /\ chosen.pending = pending
          /\ chosen.base = base
        BY <1>5, <1>9 DEF Shape, SameBut, Fields, Idle
    <2>2. /\ chosen.landed = x.landed /\ chosen.changed = x.changed /\ chosen.tried = x.tried
          /\ chosen.plan = x.plan /\ chosen.spec = x.spec /\ chosen.at = x.at
          /\ chosen.failed = x.failed /\ chosen.pc = x.pc
          /\ chosen.rollback = x.rollback /\ chosen.restored = x.restored
          /\ chosen.unrecorded = x.unrecorded /\ chosen.rewrites = x.rewrites
          /\ chosen.overtaken = x.overtaken /\ chosen.wrote = x.wrote /\ chosen.status = x.status
          /\ DOMAIN chosen = Fields
        BY <2>1 DEF SameBut, Fields, Idle
    <2>3. /\ Changes(chosen) = Changes(x) /\ Bound(chosen) = Bound(x) /\ (Refused(chosen) <=> Refused(x))
          /\ \A n : UpTo(chosen, n) = UpTo(x, n)
        BY <2>2, SamePlan
    <2>4. /\ \E n \in Numbers : version = n + 1
          /\ version \in 1 .. MaxRuns
          /\ \A c \in Bound(x) \ unseen : \A i \in DOMAIN meta[c] : meta[c][i].version < version
        BY <1>1, <1>4, <1>5, VersionIs
    <2>5. base \in [Catalogs -> Nat]
        <3>1. \A c \in Catalogs : Len(meta[c]) \in Nat
            BY GroundIs DEF Appended
        <3>2. \A c \in Catalogs : Len(Rows(c, Catalogs \ unseen)) \in Nat
            BY <3>1 DEF Rows
        <3>. QED
            BY <1>7, <3>2
    <2>6. pending \subseteq Bound(x) /\ \A t \in Changes(x) : CatalogOf[t] \in pending
        <3>1. Changes(x) \subseteq Targets(x.spec)
            BY <1>5 DEF Shape
        <3>. QED
            BY <1>8, <3>1 DEF Pending, Bound
    <2>7. snap \in Specs
        BY <1>2, <1>5 DEF IInv, Shape
    <2>8. Shape(chosen)
        BY <1>5, <2>1, <2>2, <2>3, <2>4, <2>5, <2>6, <2>7 DEF Shape
    <2>9. /\ chosen.wrote = {} /\ chosen.landed = {} /\ chosen.tried = {} /\ chosen.changed = {}
          /\ ~ chosen.failed /\ ~ chosen.restored /\ chosen.version # 0
        BY <1>5, <2>1, <2>2, <2>4, MigrationAssumption DEF Unbegun
    <2>10. Told(chosen, meta)
        <3>1. ASSUME NEW c \in Bound(chosen)
              PROVE  /\ chosen.base[c] <= Len(meta[c])
                     /\ \A i \in 1 .. chosen.base[c] : meta[c][i].version < chosen.version
            <4>1. c \in Bound(x) /\ c \in Catalogs
                BY <2>3, <3>1 DEF Bound, Catalogs, Targets
            <4>2. HistoriesOK(meta)
                BY DEF IInv
            <4>3. PICK rows : rows = meta[c]
                OBVIOUS
            <4>4. rows \in Seq({rows[i] : i \in DOMAIN rows})
                BY <4>1, <4>2, <4>3 DEF HistoriesOK
            <4>5. Len(rows) \in Nat /\ DOMAIN rows = 1 .. Len(rows)
                BY <4>4
            <4>6. chosen.base[c] = IF c \in unseen THEN 0 ELSE Len(rows)
                BY <1>7, <2>1, <4>1, <4>3 DEF Rows
            <4>7. CASE c \in unseen
                BY <4>3, <4>5, <4>6, <4>7
            <4>8. CASE c \notin unseen
                BY <2>1, <2>4, <4>1, <4>3, <4>5, <4>6, <4>8
            <4>. QED
                BY <4>7, <4>8
        <3>. QED
            BY <2>9, <3>1 DEF Told
    <2>11. /\ Shape(y) /\ Stage(y)
           /\ SameBut(chosen, y, {"pc", "status", "at"}) /\ y.pc \in {"execute", "record", "restore", "done"}
        <3>1. CASE Changes(x) = {} /\ pending = {} /\ y = Finish(chosen, "up-to-date")
            <4>1. Whole(chosen)
                BY <2>3, <2>9, <3>1 DEF Whole
            <4>2. Shape(y) /\ Stage(y)
                BY <2>8, <2>9, <3>1, <4>1, FinishStage
            <4>3. SameBut(chosen, y, {"pc", "status"}) /\ y.pc \in {"restore", "done"}
                BY <2>8, <3>1, FinishIs DEF Statuses
            <4>. QED
                BY <4>2, <4>3 DEF SameBut
        <3>2. CASE ~ (Changes(x) = {} /\ pending = {}) /\ y = Onward(chosen, 1)
            <4>1. 1 \in 1 .. Len(Tables) + 1 /\ 1 - 1 = 0
                BY TablesAre
            <4>2. chosen.pending # {} /\ \A t \in Changes(chosen) : CatalogOf[t] \in chosen.pending
                BY <2>1, <2>3, <2>6, <3>2
            <4>3. UpTo(chosen, 0) = {}
                BY DEF UpTo
            <4>4. ~ Refused(chosen)
                BY <1>13, <2>3 DEF BeginRefused
            <4>5. chosen.landed = UpTo(chosen, 1 - 1) /\ chosen.tried = chosen.landed
                  /\ chosen.changed = chosen.landed
                BY <2>9, <4>1, <4>3
            <4>6. Shape(y) /\ Stage(y)
                BY <2>8, <2>9, <3>2, <4>1, <4>2, <4>4, <4>5, OnwardStage
            <4>7. SameBut(chosen, y, {"pc", "at"}) /\ y.pc \in {"execute", "record"}
                BY <2>8, <3>2, <4>1, OnwardIs
            <4>. QED
                BY <4>6, <4>7 DEF SameBut
        <3>. QED
            BY <1>13, <3>1, <3>2
    <2>12. y.wrote = chosen.wrote /\ y.version = version /\ y.base = chosen.base /\ y.spec = chosen.spec
        BY <2>1, <2>11 DEF SameBut, Fields, Idle
    <2>13. Told(y, meta)
        BY <2>1, <2>8, <2>9, <2>10, <2>12, GroundIs, ToldKept
    <2>14. Good(y, meta', lake') /\ Numbered(y)
        BY <1>6, <2>11, <2>13 DEF Good, Seen, Numbered
    <2>15. Moves(p, y)
        BY <1>6, <1>11 DEF Moves, Steps
    <2>16. Appended(meta, meta') /\ Ground'
        BY <1>6, GroundIs DEF Ground
    <2>17. Counted'
        <3>1. AllVersions' \subseteq Numbers
            BY <1>6 DEF AllVersions, Versions, Numbers
        <3>2. PICK n \in Numbers : y.version = n + 1
            BY <2>4, <2>12
        <3>3. ~ Numbered(run[p]) /\ UNCHANGED begun
            BY <1>1, <1>5, <1>6 DEF Numbered
        <3>. QED
            BY <2>14, <2>15, <3>1, <3>2, <3>3, CountNumbered
    <2>. QED
        BY <2>14, <2>15, <2>16, <2>17, MovesKeep
<1>. QED
    BY <1>10, <1>12, <1>13

-----------------------------------------------------------------------------
(* The invariant, and what it says. *)

LEMMA InitInv == Init => IInv
<1>. SUFFICES ASSUME Init PROVE IInv
    OBVIOUS
<1>1. MaxRuns \in Nat /\ MaxEdits \in Nat /\ MaxFaults \in Nat /\ FirstSpec \in Specs
    BY MigrationAssumption
<1>2. files \in Specs /\ begun \in 0 .. MaxRuns /\ edits \in 0 .. MaxEdits /\ faults \in 0 .. MaxFaults
    BY <1>1 DEF Init
<1>3. DOMAIN << >> = {} /\ << >> \in Seq({}) /\ IsFiniteSet({})
    BY FS_EmptySet
<1>4. LakeOK(lake)
    <2>1. Live(<< >>)
        BY <1>3 DEF Live
    <2>. QED
        BY <2>1 DEF Init, LakeOK
<1>5. HistoriesOK(meta)
    <2>1. DOMAIN meta = Catalogs /\ \A c \in Catalogs : meta[c] = << >>
        BY DEF Init
    <2>2. \A c \in Catalogs : /\ meta[c] \in Seq({meta[c][i] : i \in DOMAIN meta[c]})
                              /\ DOMAIN meta[c] = {}
        BY <1>3, <2>1
    <2>. QED
        BY <2>1, <2>2 DEF HistoriesOK
<1>6. DOMAIN run = Operators /\ \A p \in Operators : run[p] = Idle
    BY DEF Init
<1>7. \A p \in Operators :
          Shape(run[p]) /\ Stage(run[p]) /\ Told(run[p], meta) /\ Seen(run[p], lake)
    BY <1>6, IdleGood DEF Good
<1>8. Counted
    <2>1. Unnumbered = {} /\ Cardinality({}) = 0
        BY <1>6, IdleIs, FS_EmptySet DEF Unnumbered
    <2>2. AllVersions = {}
        BY <1>3 DEF Init, AllVersions, Versions
    <2>3. \A v \in Numbers : v = 0
        BY <1>6, <2>2, IdleIs DEF Numbers
    <2>4. begun = 0
        BY DEF Init
    <2>. QED
        BY <2>1, <2>3, <2>4 DEF Counted
<1>. QED
    BY <1>2, <1>4, <1>5, <1>6, <1>7, <1>8 DEF IInv

LEMMA NextInv == IInv /\ [Next]_vars => IInv'
<1>. SUFFICES ASSUME IInv, [Next]_vars PROVE IInv'
    OBVIOUS
<1>1. CASE UNCHANGED vars
    <2>1. /\ lake' = lake /\ meta' = meta /\ files' = files /\ run' = run
          /\ begun' = begun /\ edits' = edits /\ faults' = faults
        BY <1>1 DEF vars
    <2>2. Unnumbered' = Unnumbered /\ Numbers' = Numbers
        BY <2>1 DEF Unnumbered, Numbers, AllVersions, Versions
    <2>3. Counted'
        BY <2>1, <2>2 DEF IInv, Counted
    <2>. QED
        BY <2>1, <2>3 DEF IInv
<1>2. ASSUME NEW p \in Operators, Apply(p) PROVE IInv'
    BY <1>2, ApplyStep
<1>3. ASSUME NEW p \in Operators, Rollback(p) PROVE IInv'
    BY <1>3, RollbackStep
<1>4. ASSUME NEW p \in Operators, DiffNext(p) PROVE IInv'
    BY <1>4, DiffNextStep
<1>5. ASSUME NEW p \in Operators, Decline(p) PROVE IInv'
    BY <1>5, DeclineStep
<1>6. ASSUME NEW p \in Operators, Begin(p) PROVE IInv'
    BY <1>6, BeginStep
<1>7. ASSUME NEW p \in Operators, TableFails(p) PROVE IInv'
    BY <1>7, TableFailsStep
<1>8. ASSUME NEW p \in Operators, RecordFails(p) PROVE IInv'
    BY <1>8, RecordFailsStep
<1>9. ASSUME NEW p \in Operators, Restore(p) PROVE IInv'
    BY <1>9, RestoreStep
<1>10. ASSUME NEW p \in Operators, Die(p) PROVE IInv'
    BY <1>10, DieStep
<1>11. ASSUME NEW p \in Operators, NEW answered \in BOOLEAN, TableLands(p, answered) PROVE IInv'
    BY <1>11, TableLandsStep
<1>12. ASSUME NEW p \in Operators, NEW answered \in BOOLEAN, RecordLands(p, answered) PROVE IInv'
    BY <1>12, RecordLandsStep
<1>13. CASE Edit
    BY <1>13, EditStep
<1>. QED
    BY <1>1, <1>2, <1>3, <1>4, <1>5, <1>6, <1>7, <1>8, <1>9, <1>10, <1>11, <1>12, <1>13 DEF Next

(* Whatever the specs declare and however runs of apply and rollback, their      *)
(* failures and the operator's edits interleave, a run's plan, the tables it has *)
(* changed, the rows it wrote and the version it took fit together.              *)
THEOREM MigrationInvariant == Spec => []IInv
<1>1. Init => IInv
    BY InitInv
<1>2. IInv /\ [Next]_vars => IInv'
    BY NextInv
<1>. QED
    BY <1>1, <1>2, PTL DEF Spec

(* The state of migrations keeps its types: live columns, histories and runs. *)
THEOREM MigrationTypes == Spec => []TypeOK
<1>1. IInv => TypeOK
    <2>. SUFFICES ASSUME IInv PROVE TypeOK
        OBVIOUS
    <2>1. \A t \in TableSet : \A c \in DOMAIN lake[t] : lake[t][c] \in Idents
        BY DEF IInv, LakeOK, Live
    <2>2. \A c \in Catalogs : \A i \in DOMAIN meta[c] :
             /\ meta[c][i].version \in 1 .. MaxRuns
             /\ meta[c][i].spec \in Specs
             /\ meta[c][i].status \in {"applied", "partial", "failed"}
        BY Zenon DEF IInv, HistoriesOK, RowOK
    <2>3. ASSUME NEW p \in Operators
          PROVE  /\ run[p].pc \in PCs /\ run[p].status \in Statuses
                 /\ run[p].at \in DOMAIN Tables
                 /\ run[p].landed \subseteq run[p].tried /\ run[p].tried \subseteq Changes(run[p])
                 /\ run[p].pending \subseteq Catalogs
                 /\ run[p].pc \in {"execute", "record"} => ~Refused(run[p])
        <3>1. PICK x : x = run[p]
            OBVIOUS
        <3>2. Shape(x) /\ Stage(x)
            BY <3>1 DEF IInv
        <3>3. Bound(x) \subseteq Catalogs
            BY DEF Bound, Catalogs, Targets
        <3>4. x.tried \subseteq Changes(x)
            <4>1. x.pc \in PCs
                BY <3>2 DEF Shape
            <4>2. \/ Unbegun(x) \/ Whole(x) \/ Halted(x)
                  \/ x.tried = x.landed /\ x.landed = UpTo(x, x.at - 1)
                BY <3>2, <4>1 DEF Stage, PCs
            <4>3. \A n : UpTo(x, n) \subseteq Changes(x)
                BY DEF UpTo
            <4>. QED
                BY <4>2, <4>3 DEF Unbegun, Whole, Halted
        <3>. QED
            BY <3>1, <3>2, <3>3, <3>4 DEF Shape, Stage
    <2>4. /\ files \in Specs
          /\ begun \in 0 .. MaxRuns /\ edits \in 0 .. MaxEdits /\ faults \in 0 .. MaxFaults
        BY DEF IInv
    <2>. QED
        BY <2>1, <2>2, <2>3, <2>4 DEF TypeOK
<1>. QED
    BY <1>1, MigrationInvariant, PTL

(* For any specs, tables, interleaving and failing probes: the row a run writes has *)
(* a version past every row it read in that history when the version was chosen.   *)
THEOREM VersionsPass == Spec => []VersionsPassWhatWasRecorded
<1>1. IInv => VersionsPassWhatWasRecorded
    <2>. SUFFICES ASSUME IInv, NEW p \in Operators, NEW written \in run[p].wrote,
                         NEW i \in 1 .. run[p].base[written[1]]
                  PROVE  meta[written[1]][i].version < meta[written[1]][written[2]].version
        BY DEF VersionsPassWhatWasRecorded
    <2>1. PICK x : x = run[p]
        OBVIOUS
    <2>2. Told(x, meta) /\ Stage(x) /\ Shape(x)
        BY <2>1 DEF IInv
    <2>3. written[1] \in Bound(x) /\ meta[written[1]][written[2]].version = x.version
        BY <2>1, <2>2 DEF Told
    <2>4. x.version # 0
        <3>1. x.pc \in PCs /\ x.wrote # {}
            BY <2>1, <2>2 DEF Shape
        <3>. QED
            BY <2>2, <3>1 DEF Stage, PCs, Unbegun
    <2>. QED
        BY <2>1, <2>2, <2>3, <2>4 DEF Told
<1>. QED
    BY <1>1, MigrationInvariant, PTL

(* For any specs, tables, failures and interleaving: a rollback that changed a table *)
(* and leaves the spec files changed the one it stopped at, whose answer was lost,   *)
(* and no other; and it restores them only if a table changed or none had to.        *)
THEOREM FilesFollow == Spec => []FilesFollowTheLake
<1>1. ASSUME IInv, NEW p \in Operators, NEW x, x = run[p], x.rollback
      PROVE  /\ x.pc = "done" /\ x.changed # {} /\ ~ x.restored =>
                   x.failed /\ x.landed = {} /\ x.changed = {Tables[x.at]}
             /\ x.restored => x.changed # {} \/ Changes(x) = {}
    <2>1. Shape(x) /\ Stage(x)
        BY <1>1 DEF IInv
    <2>2. ASSUME x.pc = "done", x.changed # {}, ~ x.restored
          PROVE  x.failed /\ x.landed = {} /\ x.changed = {Tables[x.at]}
        <3>1. x.landed = {} /\ x.changed \subseteq x.tried
            BY <1>1, <2>1, <2>2 DEF Stage
        <3>2. Whole(x) \/ Halted(x)
            BY <2>1, <2>2 DEF Stage, Unbegun
        <3>3. Halted(x)
            BY <2>2, <3>1, <3>2 DEF Whole
        <3>4. x.at \in DOMAIN Tables
            BY <2>1 DEF Shape
        <3>5. UpTo(x, x.at) = UpTo(x, x.at - 1) \cup ({Tables[x.at]} \cap Changes(x))
            BY <3>4, UpToAdds
        <3>6. x.tried \subseteq {Tables[x.at]}
            BY <3>1, <3>3, <3>5 DEF Halted
        <3>. QED
            BY <2>2, <3>1, <3>3, <3>6 DEF Halted
    <2>. QED
        BY <1>1, <2>1, <2>2 DEF Stage
<1>2. IInv => FilesFollowTheLake
    <2>. SUFFICES ASSUME IInv PROVE FilesFollowTheLake
        OBVIOUS
    <2>. QED
        BY <1>1, Zenon DEF FilesFollowTheLake
<1>. QED
    BY <1>2, MigrationInvariant, PTL

(* For any plan and any interleaving of other runs, failures and lost answers: a   *)
(* row says what its run did to the tables, in plan order, with each rename made.  *)
THEOREM HistoryTells == Spec => []HistoryTellsWhatLanded
<1>1. ASSUME IInv, NEW p \in Operators, NEW written \in run[p].wrote,
             NEW x, x = run[p], NEW c, c = written[1], NEW row, row = meta[c][written[2]]
      PROVE  /\ row.status = "applied" => x.changed = Changes(x)
             /\ row.status = "partial" => x.changed # {} /\ x.landed # Changes(x)
             /\ row.status = "failed" => x.changed \subseteq {Tables[x.at]}
             /\ \A i1, i2 \in DOMAIN Tables :
                   i1 < i2 /\ Tables[i1] \in Changes(x) /\ Tables[i2] \in x.changed =>
                       Tables[i1] \in x.landed
             /\ \A t \in x.changed : \A r \in OfKind(x.plan[t], "rename") :
                   CatalogOf[t] = c => [table |-> t, new |-> r.column, old |-> r.from] \in row.renames
    <2>1. Told(x, meta) /\ Stage(x) /\ Shape(x)
        BY <1>1 DEF IInv
    <2>2. row.status = RowStatus(x) /\ row.renames = RenamesOf(x, c)
        BY <1>1, <2>1 DEF Told
    <2>3. /\ Whole(x) \/ Halted(x)
          /\ x.landed \subseteq x.changed /\ x.changed \subseteq x.tried
          /\ x.at \in DOMAIN Tables
        <3>1. x.pc \in PCs /\ x.wrote # {} /\ x.at \in DOMAIN Tables
            BY <1>1, <2>1 DEF Shape
        <3>2. ~ Unbegun(x)
            BY <3>1 DEF Unbegun
        <3>3. x.pc \in {"record", "restore", "done"} /\ x.version # 0
            BY <2>1, <3>1, <3>2 DEF Stage, PCs
        <3>. QED
            BY <2>1, <3>1, <3>3 DEF Stage
    <2>4. UpTo(x, x.at) = UpTo(x, x.at - 1) \cup ({Tables[x.at]} \cap Changes(x))
          /\ Tables[x.at] \notin UpTo(x, x.at - 1)
        BY <2>3, UpToAdds
    <2>5. row.status = "applied" => x.changed = Changes(x)
        BY <2>2, <2>3 DEF RowStatus, Whole, Halted
    <2>6. row.status = "partial" => x.changed # {} /\ x.landed # Changes(x)
        BY <2>2, <2>3, <2>4 DEF RowStatus, Whole, Halted
    <2>7. row.status = "failed" => x.changed \subseteq {Tables[x.at]}
        BY <2>2, <2>3, <2>4 DEF RowStatus, Whole, Halted
    <2>8. ASSUME NEW i1 \in DOMAIN Tables, NEW i2 \in DOMAIN Tables, i1 < i2,
                 Tables[i1] \in Changes(x), Tables[i2] \in x.changed
          PROVE  Tables[i1] \in x.landed
        <3>1. CASE Whole(x)
            BY <2>8, <3>1 DEF Whole
        <3>2. CASE Halted(x)
            <4>1. Tables[i2] \in UpTo(x, x.at)
                BY <2>3, <2>8, <3>2 DEF Halted
            <4>2. PICK i \in 1 .. x.at : Tables[i2] = Tables[i]
                BY <4>1 DEF UpTo
            <4>3. i2 = i
                BY <2>3, <4>2, TablesAre
            <4>4. i1 \in 1 .. x.at - 1
                BY <2>3, <2>8, <4>3, TablesAre
            <4>5. Tables[i1] \in UpTo(x, x.at - 1)
                BY <2>8, <4>4 DEF UpTo
            <4>. QED
                BY <3>2, <4>5 DEF Halted
        <3>. QED
            BY <2>3, <3>1, <3>2
    <2>9. ASSUME NEW t \in x.changed, NEW r \in OfKind(x.plan[t], "rename"), CatalogOf[t] = c
          PROVE  [table |-> t, new |-> r.column, old |-> r.from] \in row.renames
        <3>1. t \in {u \in x.tried : CatalogOf[u] = c}
            BY <2>3, <2>9
        <3>. QED
            BY <2>2, <2>9, <3>1 DEF RenamesOf
    <2>. QED
        BY <2>5, <2>6, <2>7, <2>8, <2>9
<1>2. IInv => HistoryTellsWhatLanded
    <2>. SUFFICES ASSUME IInv PROVE HistoryTellsWhatLanded
        OBVIOUS
    <2>. QED
        BY <1>1, Zenon DEF HistoryTellsWhatLanded
<1>. QED
    BY <1>2, MigrationInvariant, PTL

(* For any specs, live tables, histories and failing probes: before a rollback that *)
(* nobody overtook is confirmed, it has named each column it will strand of a table *)
(* it was shown.                                                                    *)
THEOREM RollbackNames == Spec => []RollbackNamesWhatItStrands
<1>1. ASSUME IInv, NEW p \in Operators, NEW x, x = run[p],
             Foretelling(x), NEW t \in TableSet \ x.missed, NEW c \in Stranded(x, t)
      PROVE  <<t, c>> \in x.left
    <2>1. x.rollback /\ x.pc = "confirm" /\ ~ x.overtaken
        BY <1>1 DEF Foretelling
    <2>2. PICK after : after = IF x.plan[t].action = "none" THEN lake[t] ELSE Altered(lake[t], x.plan[t])
        OBVIOUS
    <2>3. c \in DOMAIN after /\ c \in DOMAIN Wanted(x.snap, t) /\ c \notin DOMAIN Wanted(x.spec, t)
        BY <1>1, <2>2 DEF Stranded
    <2>4. Seen(x, lake) /\ Shape(x)
        BY <1>1 DEF IInv
    <2>5. Foreseen(x, lake, t)
        BY <1>1, <2>4, <2>1, TablesAre DEF Seen
    <2>6. PICK live : live = lake[t]
        OBVIOUS
    <2>7. PICK plan : plan = x.plan[t]
        OBVIOUS
    <2>8. PICK restored : restored = Wanted(x.spec, t)
        OBVIOUS
    <2>9. PICK recorded : recorded = Wanted(x.snap, t)
        OBVIOUS
    <2>10. PICK overlaid : overlaid = Overlaid(x, t)
        OBVIOUS
    <2>11. overlaid = ApplyRenames(restored, x.overlay[t])
        BY <2>8, <2>10 DEF Overlaid
    <2>12. /\ plan = IF t \in Targets(x.spec) THEN DiffTable(overlaid, live) ELSE NoChange
          /\ \A d \in LeftBehind(recorded, restored, overlaid, live) : <<t, d>> \in x.left
        BY <2>5, <2>6, <2>7, <2>8, <2>9, <2>10, <1>1, Zenon DEF Foreseen
    <2>13. restored = [d \in DOMAIN restored |-> restored[d]]
        <3>1. t \in TableSet /\ x.spec \in Specs
            BY <1>1, <2>4 DEF Shape
        <3>. QED
            BY <2>8, <3>1, WantedTyped DEF Columns
    <2>14. after = IF plan.action = "none" THEN live ELSE Altered(live, plan)
        BY <2>6, <2>7, <2>2, Zenon
    <2>15. c \in LeftBehind(recorded, restored, overlaid, live)
        <3>1. CASE restored # << >>
            <4>1. plan = DiffTable(overlaid, live)
                BY <1>1, <2>8, <2>12, <3>1 DEF Targets
            <4>. QED
                BY <2>3, <2>8, <2>9, <2>11, <2>13, <2>14, <3>1, <4>1, StrandedAreNamed
        <3>2. CASE restored = << >>
            <4>1. plan = NoChange
                BY <1>1, <2>8, <2>12, <3>2 DEF Targets
            <4>2. after = live
                BY <2>14, <4>1 DEF NoChange
            <4>3. live # << >> /\ recorded # << >>
                BY <2>3, <2>9, <4>2
            <4>. QED
                BY <2>3, <2>9, <3>2, <4>2, <4>3 DEF LeftBehind
        <3>. QED
            BY <3>1, <3>2
    <2>. QED
        BY <2>12, <2>15
<1>2. IInv => RollbackNamesWhatItStrands
    <2>. SUFFICES ASSUME IInv PROVE RollbackNamesWhatItStrands
        OBVIOUS
    <2>. QED
        BY <1>1, Zenon DEF RollbackNamesWhatItStrands
<1>. QED
    BY <1>2, MigrationInvariant, PTL

(* For any specs, plans and interleaving: a migration keeps every stored column and *)
(* its id, only widens it, never makes it required, and gives no id twice.          *)
THEOREM NothingIsLost == Spec => NothingStoredIsLost
<1>1. ASSUME IInv, NEW p \in Operators, NEW answered \in BOOLEAN, TableLands(p, answered),
             NEW u \in TableSet, lake'[u] # lake[u]
      PROVE  /\ \A c \in DOMAIN lake[u] : \E d \in DOMAIN lake'[u] :
                   /\ lake'[u][d].id = lake[u][c].id
                   /\ Alterable(lake[u][c].type, lake'[u][d].type)
                   /\ lake'[u][d].required => lake[u][c].required
             /\ \A c, d \in DOMAIN lake'[u] : lake'[u][c].id = lake'[u][d].id => c = d
    <2>1. PICK x : x = run[p]
        OBVIOUS
    <2>2. PICK t : t = Tables[x.at]
        OBVIOUS
    <2>3. PICK change : change = x.plan[t]
        OBVIOUS
    <2>4. PICK live : live = lake[t]
        OBVIOUS
    <2>5. Shape(x) /\ Stage(x) /\ x.pc = "execute" /\ LakeOK(lake)
        BY <1>1, <2>1 DEF IInv, TableLands, Executing
    <2>6. t \in Changes(x)
        BY <2>2, <2>5 DEF Stage
    <2>7. t \in TableSet /\ WellPlanned(change) /\ change.action \in {"create", "alter"}
        BY <2>3, <2>5, <2>6 DEF Shape, Changes, WellPlanned
    <2>8. Accepts(live, change) /\ lake' = [lake EXCEPT ![t] = Altered(live, change)]
        BY <1>1, <2>1, <2>2, <2>3, <2>4 DEF TableLands, NextChange
    <2>9. Live(live)
        BY <2>4, <2>5, <2>7 DEF LakeOK
    <2>10. u = t /\ lake[u] = live /\ lake'[u] = Altered(live, change)
        BY <1>1, <2>4, <2>5, <2>7, <2>8 DEF LakeOK
    <2>11. \A c \in DOMAIN live : \E d \in DOMAIN Altered(live, change) :
              /\ Altered(live, change)[d].id = live[c].id
              /\ Alterable(live[c].type, Altered(live, change)[d].type)
              /\ Altered(live, change)[d].required => live[c].required
        BY <2>7, <2>8, <2>9, AlteredLosesNothing
    <2>12. \A c, d \in DOMAIN Altered(live, change) :
              Altered(live, change)[c].id = Altered(live, change)[d].id => c = d
        <3>1. Live(Altered(live, change))
            BY <2>7, <2>8, <2>9, AlteredLive
        <3>. QED
            BY <3>1 DEF Live
    <2>. QED
        BY <2>10, <2>11, <2>12
<1>2. ASSUME IInv, [Next]_vars, lake' # lake
      PROVE  \E p \in Operators, answered \in BOOLEAN : TableLands(p, answered)
    <2>1. \A p \in Operators : Apply(p) \/ Rollback(p) => lake' = lake
        BY <1>2, ApplyIs, RollbackIs
    <2>2. \A p \in Operators : DiffNext(p) \/ Begin(p) => lake' = lake
        BY DEF DiffNext, Begin
    <2>3. \A p \in Operators : Decline(p) \/ TableFails(p) \/ RecordFails(p) \/ Restore(p) \/ Die(p) => lake' = lake
        BY DEF Decline, TableFails, RecordFails, Restore, Die
    <2>4. \A p \in Operators, answered \in BOOLEAN : RecordLands(p, answered) => lake' = lake
        BY DEF RecordLands
    <2>5. Edit \/ UNCHANGED vars => lake' = lake
        BY DEF Edit, vars
    <2>. QED
        BY <1>2, <2>1, <2>2, <2>3, <2>4, <2>5 DEF Next
<1>3. IInv /\ [Next]_vars =>
        [\A t \in {u \in TableSet : lake'[u] # lake[u]} :
            /\ \A c \in DOMAIN lake[t] : \E d \in DOMAIN lake'[t] :
                  /\ lake'[t][d].id = lake[t][c].id
                  /\ Alterable(lake[t][c].type, lake'[t][d].type)
                  /\ lake'[t][d].required => lake[t][c].required
            /\ \A c, d \in DOMAIN lake'[t] : lake'[t][c].id = lake'[t][d].id => c = d]_vars
    BY <1>1, <1>2
<1>. QED
    BY <1>3, MigrationInvariant, PTL DEF Spec, NothingStoredIsLost
=============================================================================
