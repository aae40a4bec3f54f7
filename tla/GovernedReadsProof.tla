------------------------- MODULE GovernedReadsProof -------------------------
(* What GovernedReads promises, for any ontology, policies, callers and tables *)
(* its assumptions allow. Predicates are trees of any depth: what their nodes  *)
(* answer is a recursive function on the positions, and what holds of every    *)
(* node is shown of the least one it could fail at.                            *)
EXTENDS GovernedReads, FiniteSetTheorems, SequenceTheorems, TLAPS

-----------------------------------------------------------------------------
(* The least counterexample. *)

LEMMA LeastNumber ==
    ASSUME NEW S \in SUBSET Nat, S # {}
    PROVE  \E m \in S : \A k \in S : m <= k
<1> DEFINE Below == {0..n : n \in S}
<1>1. Below \subseteq FiniteSubsetsOf(Nat)
  <2>1. \A n \in S : IsFiniteSet(0..n)
    BY FS_Interval
  <2> QED
    BY <2>1 DEF FiniteSubsetsOf
<1>2. Below # {}
  OBVIOUS
<1>3. \E x \in Below : \A y \in Below : <<y, x>> \notin StrictSubsetOrdering(Nat)
  <2> HIDE DEF Below
  <2> QED
    BY <1>1, <1>2, WFMin, FS_StrictSubsetOrderingWellFounded
<1>4. PICK m \in S : \A y \in Below : <<y, 0..m>> \notin StrictSubsetOrdering(Nat)
  BY <1>3
<1>5. ASSUME NEW k \in S, k < m
      PROVE  FALSE
  <2>1. 0..k \subseteq 0..m /\ 0..k # 0..m
    BY <1>5
  <2>2. <<0..k, 0..m>> \in StrictSubsetOrdering(Nat)
    BY <2>1 DEF StrictSubsetOrdering
  <2> QED
    BY <1>4, <2>2
<1> QED
  BY <1>5

(* A set of naturals in which each has a lesser one is empty. *)
LEMMA NoneWithoutLesser ==
    ASSUME NEW S \in SUBSET Nat, \A n \in S : \E k \in S : k < n
    PROVE  S = {}
<1>1. SUFFICES ASSUME S # {}
               PROVE  FALSE
  OBVIOUS
<1>2. PICK m \in S : \A k \in S : m <= k
  BY <1>1, LeastNumber
<1> QED
  BY <1>2

-----------------------------------------------------------------------------
(* What the nodes of an expression answer. *)

ThreeAnswers == {"true", "false", "undecided"}

(* The answer of a node, from those of the nodes it is made of. *)
NodeTruth(e, row, claims, truth, i) ==
    CASE e[i].op = "!" -> KleeneNot(truth[e[i].of])
      [] e[i].op \in Connectives -> Connect(e[i].op, truth[e[i].left], truth[e[i].right])
      [] OTHER -> Leaf(e[i], row, claims)

SqlNodeTruth(e, row, truth, i) ==
    CASE e[i].op = "!" -> KleeneNot(truth[e[i].of])
      [] e[i].op \in Connectives -> SqlConnect(e[i].op, truth[e[i].left], truth[e[i].right])
      [] OTHER -> SqlCompare(e[i].op, Operand(e[i].left, row, << >>), Operand(e[i].right, row, << >>))

LEMMA Positions ==
    ASSUME NEW e, IsTree(e)
    PROVE  /\ Len(e) \in Nat /\ Len(e) > 0 /\ DOMAIN e = 1..Len(e)
           /\ \A i \in 1..Len(e) :
                 /\ i \notin Leaves(e) => e[i].op \in Connectives \cup {"!"}
                 /\ e[i].op = "!" => e[i].of \in 1..(i - 1)
                 /\ e[i].op \in Connectives => e[i].left \in 1..(i - 1) /\ e[i].right \in 1..(i - 1)
<1>1. e \in Seq({e[i] : i \in DOMAIN e}) /\ e # << >>
  BY DEF IsTree
<1>2. Len(e) \in Nat /\ Len(e) > 0 /\ DOMAIN e = 1..Len(e)
  BY <1>1
<1> QED
  BY <1>2 DEF IsTree, Leaves

LEMMA ExtendingTruths ==
    ASSUME NEW e, IsTree(e), NEW row, NEW claims, NEW n \in 0..Len(e)
    PROVE  \E t : t = [i \in 1..n |-> NodeTruth(e, row, claims, t, i)]
<1> DEFINE Reaches(m) == \E t : t = [i \in 1..m |-> NodeTruth(e, row, claims, t, i)]
           Short == {m \in 0..Len(e) : ~ Reaches(m)}
<1>1. ASSUME NEW m \in Short
      PROVE  \E k \in Short : k < m
  <2>1. m # 0
    <3>1. << >> = [i \in 1..0 |-> NodeTruth(e, row, claims, << >>, i)]
      OBVIOUS
    <3>2. Reaches(0)
      BY <3>1
    <3> QED
      BY <3>2
  <2>2. SUFFICES ASSUME Reaches(m - 1)
                 PROVE  Reaches(m)
    BY <2>1, Positions
  <2>3. PICK t : t = [i \in 1..(m - 1) |-> NodeTruth(e, row, claims, t, i)]
    BY <2>2
  <2> DEFINE u == [i \in 1..m |-> NodeTruth(e, row, claims, t, i)]
  <2>4. \A i \in 1..(m - 1) : u[i] = t[i]
    BY <2>3, <2>1
  <2>5. ASSUME NEW i \in 1..m
        PROVE  NodeTruth(e, row, claims, t, i) = NodeTruth(e, row, claims, u, i)
    <3> HIDE DEF u
    <3>1. i \in 1..Len(e) /\ \A j \in 1..(i - 1) : j \in 1..(m - 1)
      BY <2>1, Positions
    <3>2. e[i].op = "!" => e[i].of \in 1..(m - 1)
      BY <3>1, Positions
    <3>3. e[i].op \in Connectives => e[i].left \in 1..(m - 1) /\ e[i].right \in 1..(m - 1)
      BY <3>1, Positions
    <3> QED
      BY <2>4, <3>2, <3>3, Zenon DEF NodeTruth
  <2>6. u = [i \in 1..m |-> NodeTruth(e, row, claims, u, i)]
    BY <2>5, Zenon
  <2> QED
    BY <2>6
<1>2. Short \in SUBSET Nat
  BY Positions
<1>3. Short = {}
  <2> HIDE DEF Short
  <2> QED
    BY <1>1, <1>2, NoneWithoutLesser
<1> QED
  BY <1>3

LEMMA ExtendingSqlTruths ==
    ASSUME NEW e, IsTree(e), NEW row, NEW n \in 0..Len(e)
    PROVE  \E t : t = [i \in 1..n |-> SqlNodeTruth(e, row, t, i)]
<1> DEFINE Reaches(m) == \E t : t = [i \in 1..m |-> SqlNodeTruth(e, row, t, i)]
           Short == {m \in 0..Len(e) : ~ Reaches(m)}
<1>1. ASSUME NEW m \in Short
      PROVE  \E k \in Short : k < m
  <2>1. m # 0
    <3>1. << >> = [i \in 1..0 |-> SqlNodeTruth(e, row, << >>, i)]
      OBVIOUS
    <3>2. Reaches(0)
      BY <3>1
    <3> QED
      BY <3>2
  <2>2. SUFFICES ASSUME Reaches(m - 1)
                 PROVE  Reaches(m)
    BY <2>1, Positions
  <2>3. PICK t : t = [i \in 1..(m - 1) |-> SqlNodeTruth(e, row, t, i)]
    BY <2>2
  <2> DEFINE u == [i \in 1..m |-> SqlNodeTruth(e, row, t, i)]
  <2>4. \A i \in 1..(m - 1) : u[i] = t[i]
    BY <2>3, <2>1
  <2>5. ASSUME NEW i \in 1..m
        PROVE  SqlNodeTruth(e, row, t, i) = SqlNodeTruth(e, row, u, i)
    <3> HIDE DEF u
    <3>1. i \in 1..Len(e) /\ \A j \in 1..(i - 1) : j \in 1..(m - 1)
      BY <2>1, Positions
    <3>2. e[i].op = "!" => e[i].of \in 1..(m - 1)
      BY <3>1, Positions
    <3>3. e[i].op \in Connectives => e[i].left \in 1..(m - 1) /\ e[i].right \in 1..(m - 1)
      BY <3>1, Positions
    <3> QED
      BY <2>4, <3>2, <3>3, Zenon DEF SqlNodeTruth
  <2>6. u = [i \in 1..m |-> SqlNodeTruth(e, row, u, i)]
    BY <2>5, Zenon
  <2> QED
    BY <2>6
<1>2. Short \in SUBSET Nat
  BY Positions
<1>3. Short = {}
  <2> HIDE DEF Short
  <2> QED
    BY <1>1, <1>2, NoneWithoutLesser
<1> QED
  BY <1>3

LEMMA TruthsAre ==
    ASSUME NEW e, IsTree(e), NEW row, NEW claims, NEW i \in DOMAIN e
    PROVE  LET truth == Truths(e, row, claims)
           IN  /\ e[i].op = "!" => e[i].of \in DOMAIN e /\ truth[i] = KleeneNot(truth[e[i].of])
               /\ e[i].op \in Connectives =>
                     /\ e[i].left \in DOMAIN e /\ e[i].right \in DOMAIN e
                     /\ truth[i] = Connect(e[i].op, truth[e[i].left], truth[e[i].right])
               /\ i \in Leaves(e) => truth[i] = Leaf(e[i], row, claims)
<1> DEFINE v == Truths(e, row, claims)
<1>1. v = CHOOSE t : t = [j \in DOMAIN e |-> NodeTruth(e, row, claims, t, j)]
  BY Zenon DEF Truths, NodeTruth
<1> HIDE DEF v
<1>2. \E t : t = [j \in DOMAIN e |-> NodeTruth(e, row, claims, t, j)]
  <2>1. DOMAIN e = 1..Len(e) /\ Len(e) \in 0..Len(e)
    BY Positions
  <2>2. \E t : t = [j \in 1..Len(e) |-> NodeTruth(e, row, claims, t, j)]
    BY <2>1, ExtendingTruths
  <2> QED
    BY <2>1, <2>2, Zenon
<1>3. v = [j \in DOMAIN e |-> NodeTruth(e, row, claims, v, j)]
  BY <1>1, <1>2, Zenon
<1>4. v[i] = NodeTruth(e, row, claims, v, i)
  BY <1>3, Zenon
<1>5. DOMAIN e = 1..Len(e) /\ i \in 1..Len(e)
  BY Positions
<1>6. ASSUME e[i].op = "!"
      PROVE  e[i].of \in DOMAIN e /\ v[i] = KleeneNot(v[e[i].of])
  <2>1. e[i].of \in DOMAIN e
    BY <1>5, <1>6, Positions
  <2>2. e[i].op \notin Connectives
    BY <1>6 DEF Connectives
  <2> QED
    BY <1>4, <1>6, <2>1, <2>2, Zenon DEF NodeTruth
<1>7. ASSUME e[i].op \in Connectives
      PROVE  /\ e[i].left \in DOMAIN e /\ e[i].right \in DOMAIN e
             /\ v[i] = Connect(e[i].op, v[e[i].left], v[e[i].right])
  <2>1. e[i].left \in DOMAIN e /\ e[i].right \in DOMAIN e
    BY <1>5, <1>7, Positions
  <2>2. e[i].op # "!"
    BY <1>7 DEF Connectives
  <2> QED
    BY <1>4, <1>7, <2>1, <2>2, Zenon DEF NodeTruth
<1>8. ASSUME i \in Leaves(e)
      PROVE  v[i] = Leaf(e[i], row, claims)
  <2>1. e[i].op # "!" /\ e[i].op \notin Connectives
    BY <1>8 DEF Leaves
  <2> QED
    BY <1>4, <2>1, Zenon DEF NodeTruth
<1> QED
  BY <1>6, <1>7, <1>8 DEF v

LEMMA SqlTruthsAre ==
    ASSUME NEW e, IsTree(e), NEW row, NEW i \in DOMAIN e
    PROVE  LET truth == SqlTruths(e, row)
           IN  /\ e[i].op = "!" => e[i].of \in DOMAIN e /\ truth[i] = KleeneNot(truth[e[i].of])
               /\ e[i].op \in Connectives =>
                     /\ e[i].left \in DOMAIN e /\ e[i].right \in DOMAIN e
                     /\ truth[i] = SqlConnect(e[i].op, truth[e[i].left], truth[e[i].right])
               /\ i \in Leaves(e) => truth[i] = SqlCompare(e[i].op, Operand(e[i].left, row, << >>), Operand(e[i].right, row, << >>))
<1> DEFINE v == SqlTruths(e, row)
<1>1. v = CHOOSE t : t = [j \in DOMAIN e |-> SqlNodeTruth(e, row, t, j)]
  BY Zenon DEF SqlTruths, SqlNodeTruth
<1> HIDE DEF v
<1>2. \E t : t = [j \in DOMAIN e |-> SqlNodeTruth(e, row, t, j)]
  <2>1. DOMAIN e = 1..Len(e) /\ Len(e) \in 0..Len(e)
    BY Positions
  <2>2. \E t : t = [j \in 1..Len(e) |-> SqlNodeTruth(e, row, t, j)]
    BY <2>1, ExtendingSqlTruths
  <2> QED
    BY <2>1, <2>2, Zenon
<1>3. v = [j \in DOMAIN e |-> SqlNodeTruth(e, row, v, j)]
  BY <1>1, <1>2, Zenon
<1>4. v[i] = SqlNodeTruth(e, row, v, i)
  BY <1>3, Zenon
<1>5. DOMAIN e = 1..Len(e) /\ i \in 1..Len(e)
  BY Positions
<1>6. ASSUME e[i].op = "!"
      PROVE  e[i].of \in DOMAIN e /\ v[i] = KleeneNot(v[e[i].of])
  <2>1. e[i].of \in DOMAIN e
    BY <1>5, <1>6, Positions
  <2>2. e[i].op \notin Connectives
    BY <1>6 DEF Connectives
  <2> QED
    BY <1>4, <1>6, <2>1, <2>2, Zenon DEF SqlNodeTruth
<1>7. ASSUME e[i].op \in Connectives
      PROVE  /\ e[i].left \in DOMAIN e /\ e[i].right \in DOMAIN e
             /\ v[i] = SqlConnect(e[i].op, v[e[i].left], v[e[i].right])
  <2>1. e[i].left \in DOMAIN e /\ e[i].right \in DOMAIN e
    BY <1>5, <1>7, Positions
  <2>2. e[i].op # "!"
    BY <1>7 DEF Connectives
  <2> QED
    BY <1>4, <1>7, <2>1, <2>2, Zenon DEF SqlNodeTruth
<1>8. ASSUME i \in Leaves(e)
      PROVE  v[i] = SqlCompare(e[i].op, Operand(e[i].left, row, << >>), Operand(e[i].right, row, << >>))
  <2>1. e[i].op # "!" /\ e[i].op \notin Connectives
    BY <1>8 DEF Leaves
  <2> QED
    BY <1>4, <2>1, Zenon DEF SqlNodeTruth
<1> QED
  BY <1>6, <1>7, <1>8 DEF v

(* A node that fails has a part that fails: then none does. *)
LEMMA NoNodeFails ==
    ASSUME NEW e, IsTree(e), NEW Failing \in SUBSET DOMAIN e,
           \A i \in Failing :
              \/ e[i].op = "!" /\ e[i].of \in Failing
              \/ e[i].op \in Connectives /\ (e[i].left \in Failing \/ e[i].right \in Failing)
    PROVE  Failing = {}
<1>1. Failing \in SUBSET Nat
  BY Positions
<1>2. ASSUME NEW i \in Failing
      PROVE  \E j \in Failing : j < i
  <2>1. i \in 1..Len(e)
    BY Positions
  <2> QED
    BY <2>1, Positions
<1> QED
  BY <1>1, <1>2, NoneWithoutLesser

LEMMA NegationAnswers ==
    ASSUME NEW a \in ThreeAnswers
    PROVE  KleeneNot(a) \in ThreeAnswers
  BY DEF ThreeAnswers, KleeneNot

LEMMA ConnectivesAnswer ==
    ASSUME NEW a \in ThreeAnswers, NEW b \in ThreeAnswers, NEW op \in Connectives
    PROVE  /\ Connect(op, a, b) \in ThreeAnswers
           /\ SqlConnect(op, a, b) = Connect(op, a, b)
<1>1. Connect(op, a, b) \in ThreeAnswers
  BY DEF ThreeAnswers, KleeneNot, Connect
<1>2. SqlConnect(op, a, b) = Connect(op, a, b)
  BY DEF ThreeAnswers, KleeneNot, Connect, SqlConnect, Connectives
<1> QED
  BY <1>1, <1>2

LEMMA LeavesAnswer ==
    ASSUME NEW leaf, NEW row, NEW claims
    PROVE  Leaf(leaf, row, claims) \in ThreeAnswers
  BY DEF Leaf, Decided, ThreeAnswers

LEMMA SqlLeavesAnswer ==
    ASSUME NEW op \in Comparisons, NEW a, NEW b
    PROVE  SqlCompare(op, a, b) \in ThreeAnswers
  BY DEF SqlCompare, SqlSame, KleeneNot, Decided, ThreeAnswers

LEMMA TruthsAnswer ==
    ASSUME NEW e, IsTree(e), NEW row, NEW claims
    PROVE  \A i \in DOMAIN e : Truths(e, row, claims)[i] \in ThreeAnswers
<1> DEFINE v == Truths(e, row, claims)
           Failing == {i \in DOMAIN e : v[i] \notin ThreeAnswers}
<1>1. ASSUME NEW i \in Failing
      PROVE  \/ e[i].op = "!" /\ e[i].of \in Failing
             \/ e[i].op \in Connectives /\ (e[i].left \in Failing \/ e[i].right \in Failing)
  <2>1. /\ e[i].op = "!" => e[i].of \in DOMAIN e /\ v[i] = KleeneNot(v[e[i].of])
        /\ e[i].op \in Connectives =>
              /\ e[i].left \in DOMAIN e /\ e[i].right \in DOMAIN e
              /\ v[i] = Connect(e[i].op, v[e[i].left], v[e[i].right])
        /\ i \in Leaves(e) => v[i] = Leaf(e[i], row, claims)
    BY TruthsAre
  <2> HIDE DEF v
  <2>2. i \notin Leaves(e)
    BY <2>1, LeavesAnswer
  <2> QED
    BY <2>1, <2>2, NegationAnswers, ConnectivesAnswer DEF Leaves
<1>2. Failing \in SUBSET DOMAIN e
  OBVIOUS
<1> HIDE DEF Failing
<1>3. Failing = {}
  BY <1>1, <1>2, NoNodeFails
<1> QED
  BY <1>3 DEF Failing

-----------------------------------------------------------------------------
(* A folded expression has the shape of the one it was folded from. *)

(* What the read plane answers of a leaf, for a caller with these claims. *)
SqlLeaf(leaf, row, claims) ==
    LET folded == FoldedLeaf(leaf, claims)
    IN  SqlCompare(folded.op, Operand(folded.left, row, << >>), Operand(folded.right, row, << >>))

LEMMA FoldedLeafIs ==
    ASSUME NEW leaf, leaf.op \notin Connectives \cup {"!"}, NEW claims
    PROVE  FoldedLeaf(leaf, claims).op \notin Connectives \cup {"!"}
<1>1. Undecidable.op = "<"
  BY DEF Undecidable
<1> QED
  BY <1>1 DEF FoldedLeaf, Connectives

LEMMA FoldIsTree ==
    ASSUME NEW e, IsTree(e), NEW claims
    PROVE  /\ IsTree(Fold(e, claims))
           /\ DOMAIN Fold(e, claims) = DOMAIN e
           /\ Len(Fold(e, claims)) = Len(e)
           /\ Leaves(Fold(e, claims)) = Leaves(e)
           /\ \A i \in DOMAIN e : i \notin Leaves(e) => Fold(e, claims)[i] = e[i]
           /\ \A i \in Leaves(e) : Fold(e, claims)[i] = FoldedLeaf(e[i], claims)
<1> DEFINE f == Fold(e, claims)
<1>1. DOMAIN f = DOMAIN e /\ \A i \in DOMAIN e : f[i] = IF i \in Leaves(e) THEN FoldedLeaf(e[i], claims) ELSE e[i]
  BY DEF Fold
<1>2. Leaves(e) \subseteq DOMAIN e
  BY DEF Leaves
<1>3. f \in [1..Len(e) -> {f[i] : i \in DOMAIN f}]
  BY <1>1, Positions DEF Fold
<1> HIDE DEF f
<1>4. Len(e) \in Nat /\ Len(e) > 0 /\ DOMAIN e = 1..Len(e)
  BY Positions
<1>5. f \in Seq({f[i] : i \in DOMAIN f}) /\ Len(f) = Len(e) /\ f # << >>
  BY <1>3, <1>4
<1>6. ASSUME NEW i \in Leaves(e)
      PROVE  f[i].op \notin Connectives \cup {"!"}
  BY <1>1, <1>2, <1>6, FoldedLeafIs DEF Leaves
<1>7. ASSUME NEW i \in DOMAIN e, i \notin Leaves(e)
      PROVE  f[i] = e[i] /\ e[i].op \in Connectives \cup {"!"}
  BY <1>1, <1>7 DEF Leaves
<1>8. Leaves(f) = Leaves(e)
  BY <1>1, <1>2, <1>6, <1>7 DEF Leaves
<1>9. ASSUME NEW i \in DOMAIN f
      PROVE  /\ f[i].op = "!" => f[i].of \in 1..(i - 1)
             /\ f[i].op \in Connectives => f[i].left \in 1..(i - 1) /\ f[i].right \in 1..(i - 1)
  BY <1>1, <1>4, <1>6, <1>7, Positions
<1> QED
  BY <1>1, <1>2, <1>5, <1>8, <1>9 DEF f, IsTree

LEMMA FoldedTruthsAre ==
    ASSUME NEW e, IsTree(e), NEW row, NEW claims, NEW i \in DOMAIN e
    PROVE  LET truth == SqlTruths(Fold(e, claims), row)
           IN  /\ e[i].op = "!" => e[i].of \in DOMAIN e /\ truth[i] = KleeneNot(truth[e[i].of])
               /\ e[i].op \in Connectives =>
                     /\ e[i].left \in DOMAIN e /\ e[i].right \in DOMAIN e
                     /\ truth[i] = SqlConnect(e[i].op, truth[e[i].left], truth[e[i].right])
               /\ i \in Leaves(e) => truth[i] = SqlLeaf(e[i], row, claims)
<1> DEFINE f == Fold(e, claims)
<1>1. /\ IsTree(f) /\ DOMAIN f = DOMAIN e /\ Leaves(f) = Leaves(e)
      /\ i \notin Leaves(e) => f[i] = e[i]
      /\ i \in Leaves(e) => f[i] = FoldedLeaf(e[i], claims)
  BY FoldIsTree
<1> HIDE DEF f
<1>2. i \in Leaves(e) <=> e[i].op \notin Connectives \cup {"!"}
  BY DEF Leaves
<1>3. i \in DOMAIN f
  BY <1>1
<1>4. LET truth == SqlTruths(f, row)
      IN  /\ f[i].op = "!" => f[i].of \in DOMAIN f /\ truth[i] = KleeneNot(truth[f[i].of])
          /\ f[i].op \in Connectives =>
                /\ f[i].left \in DOMAIN f /\ f[i].right \in DOMAIN f
                /\ truth[i] = SqlConnect(f[i].op, truth[f[i].left], truth[f[i].right])
          /\ i \in Leaves(f) => truth[i] = SqlCompare(f[i].op, Operand(f[i].left, row, << >>), Operand(f[i].right, row, << >>))
  BY <1>1, <1>3, SqlTruthsAre
<1>5. i \in Leaves(e) => SqlTruths(f, row)[i] = SqlLeaf(e[i], row, claims)
  BY <1>1, <1>4 DEF SqlLeaf
<1> QED
  BY <1>1, <1>2, <1>4, <1>5 DEF f

-----------------------------------------------------------------------------
(* The two planes. *)

(* Planes that answer the leaves alike answer the expression alike. *)
LEMMA LeavesDecide ==
    ASSUME NEW e, IsTree(e), NEW row, NEW claims,
           \A i \in Leaves(e) : SqlLeaf(e[i], row, claims) = Leaf(e[i], row, claims)
    PROVE  SqlTruth(Fold(e, claims), row) = Truth(e, row, claims)
<1> DEFINE sql == SqlTruths(Fold(e, claims), row)
           own == Truths(e, row, claims)
           Failing == {i \in DOMAIN e : sql[i] # own[i]}
<1>1. ASSUME NEW i \in Failing
      PROVE  \/ e[i].op = "!" /\ e[i].of \in Failing
             \/ e[i].op \in Connectives /\ (e[i].left \in Failing \/ e[i].right \in Failing)
  <2>1. /\ e[i].op = "!" => e[i].of \in DOMAIN e /\ own[i] = KleeneNot(own[e[i].of])
        /\ e[i].op \in Connectives =>
              /\ e[i].left \in DOMAIN e /\ e[i].right \in DOMAIN e
              /\ own[i] = Connect(e[i].op, own[e[i].left], own[e[i].right])
        /\ i \in Leaves(e) => own[i] = Leaf(e[i], row, claims)
    BY TruthsAre
  <2>2. /\ e[i].op = "!" => sql[i] = KleeneNot(sql[e[i].of])
        /\ e[i].op \in Connectives => sql[i] = SqlConnect(e[i].op, sql[e[i].left], sql[e[i].right])
        /\ i \in Leaves(e) => sql[i] = SqlLeaf(e[i], row, claims)
    BY FoldedTruthsAre
  <2>3. \A j \in DOMAIN e : own[j] \in ThreeAnswers
    BY TruthsAnswer
  <2> HIDE DEF sql, own
  <2> QED
    BY <2>1, <2>2, <2>3, ConnectivesAnswer DEF Leaves
<1>2. Failing \in SUBSET DOMAIN e
  OBVIOUS
<1> HIDE DEF Failing
<1>3. Failing = {}
  BY <1>1, <1>2, NoNodeFails
<1>4. sql[Len(e)] = own[Len(e)]
  BY <1>3, Positions DEF Failing
<1> QED
  BY <1>4, FoldIsTree DEF SqlTruth, Truth

(* Claims a predicate may name: each of its declared type. *)
ClaimsFit(claims) ==
    /\ DOMAIN claims \subseteq DOMAIN Claims
    /\ \A c \in DOMAIN claims : HasType(claims[c], Claims[c])

LEMMA ReadableClaimsFit ==
    ASSUME NEW token
    PROVE  ClaimsFit(ReadableClaims(token))
  BY DEF ClaimsFit, ReadableClaims

LEMMA NobodysClaimsFit == ClaimsFit(<< >>)
  BY DEF ClaimsFit

(* The kinds of value an operand of a leaf that fits may have. *)
KindsOf(type) == {"null", StoredKind(type)}

(* The kinds of value a literal may have. *)
LiteralValues == {"null", "boolean", "exact", "double", "string"}

LEMMA LiteralKinds ==
    ASSUME NEW v, v.kind \in LiteralValues
    PROVE  LiteralType(v).kind = IF v.kind = "exact" THEN "long" ELSE v.kind
<1>1. \A k : Type(k).kind = k
  BY DEF Type
<1>2. CASE v.kind = "boolean"
  <2>1. LiteralType(v) = Type("boolean")
    BY <1>2, Zenon DEF LiteralType
  <2> QED
    BY <1>1, <1>2, <2>1
<1>3. CASE v.kind = "exact"
  <2>1. v.kind # "boolean"
    BY <1>3
  <2>2. LiteralType(v) = Type("long")
    BY <1>3, <2>1, Zenon DEF LiteralType
  <2> QED
    BY <1>1, <1>3, <2>2
<1>4. CASE v.kind \notin {"boolean", "exact"}
  <2>1. v.kind # "boolean" /\ v.kind # "exact"
    BY <1>4
  <2>2. LiteralType(v) = Type(v.kind)
    BY <2>1, Zenon DEF LiteralType
  <2> QED
    BY <1>1, <2>1, <2>2
<1> QED
  BY <1>2, <1>3, <1>4

LEMMA OperandsFit ==
    ASSUME NEW on \in DOMAIN Objects, NEW row, IsRow(on, row), \A p \in DOMAIN row : row[p].kind # "nan",
           NEW claims, ClaimsFit(claims), NEW x,
           x.is = "literal" => x.value.kind \in LiteralValues,
           OperandType(x, Props(on)).kind # "bad", ~ OperandType(x, Props(on)).list,
           x.is = "principal" => x.name \in DOMAIN claims
    PROVE  /\ Operand(Substituted(x, claims), row, << >>) = Operand(x, row, claims)
           /\ \/ OperandType(x, Props(on)).kind = "null" /\ Operand(x, row, claims).kind = "null"
              \/ /\ OperandType(x, Props(on)).kind # "null"
                 /\ Base(OperandType(x, Props(on))) \in {"string", "boolean", "date", "timestamp"} \cup NumericKinds
                 /\ Operand(x, row, claims).kind \in KindsOf(OperandType(x, Props(on)))
<1>1. Type("bad").kind = "bad"
  BY DEF Type
<1>2. CASE x.is = "literal"
  <2>1. /\ Operand(Substituted(x, claims), row, << >>) = x.value /\ Operand(x, row, claims) = x.value
    BY <1>2 DEF Operand, Substituted
  <2>2. OperandType(x, Props(on)) = LiteralType(x.value)
    BY <1>2 DEF OperandType
  <2> DEFINE type == OperandType(x, Props(on))
  <2>3. type.kind = IF x.value.kind = "exact" THEN "long" ELSE x.value.kind
    BY <1>2, <2>2, LiteralKinds
  <2> HIDE DEF type
  <2>4. CASE x.value.kind = "null"
    BY <2>1, <2>3, <2>4 DEF type
  <2>5. CASE x.value.kind = "boolean"
    BY <2>1, <2>3, <2>5 DEF type, KindsOf, StoredKind, Base, NumericKinds
  <2>6. CASE x.value.kind \in {"exact", "double"}
    <3> HIDE DEF type
    <3>1. Base(type) = type.kind /\ type.kind \in {"long", "double"}
      BY <2>3, <2>6 DEF Base
    <3>2. StoredKind(type) = x.value.kind
      BY <2>3, <2>6, <3>1 DEF StoredKind, NumericKinds
    <3> QED
      BY <2>1, <2>6, <3>1, <3>2 DEF type, KindsOf, NumericKinds
  <2>7. CASE x.value.kind = "string"
    BY <2>1, <2>3, <2>7 DEF type, KindsOf, StoredKind, Base, NumericKinds
  <2> QED
    BY <1>2, <2>4, <2>5, <2>6, <2>7 DEF LiteralValues
<1>3. CASE x.is = "object"
  <2>1. x.name \in DOMAIN Props(on) /\ OperandType(x, Props(on)) = Props(on)[x.name]
    BY <1>1, <1>3 DEF OperandType
  <2>2. /\ Operand(Substituted(x, claims), row, << >>) = row[x.name] /\ Operand(x, row, claims) = row[x.name]
    BY <1>3 DEF Operand, Substituted
  <2>3. DOMAIN row = DOMAIN Props(on) /\ row[x.name].kind \in KindsOf(Props(on)[x.name])
    BY <2>1 DEF IsRow, KindsOf
  <2>4. IsType(Props(on)[x.name])
    BY <2>1, OntologyAssumption DEF OntologyAssumption
  <2> QED
    BY <2>1, <2>2, <2>3, <2>4 DEF IsType, Base, NumericKinds
<1>4. CASE x.is = "principal"
  <2>1. x.name \in DOMAIN Claims /\ OperandType(x, Props(on)) = Claims[x.name]
    BY <1>1, <1>4 DEF OperandType
  <2>2. Operand(Substituted(x, claims), row, << >>) = claims[x.name] /\ Operand(x, row, claims) = claims[x.name]
    BY <1>4 DEF Operand, Substituted, Literal
  <2>3. claims[x.name].kind = Claims[x.name].kind
    BY <1>4, <2>1 DEF ClaimsFit, HasType
  <2>4. Claims[x.name].kind \in {"string", "boolean"}
    BY <2>1, OntologyAssumption DEF OntologyAssumption
  <2> QED
    BY <2>1, <2>2, <2>3, <2>4 DEF KindsOf, StoredKind, Base, NumericKinds
<1>5. CASE x.is \notin {"literal", "object", "principal"}
  BY <1>1, <1>5 DEF OperandType
<1> QED
  BY <1>2, <1>3, <1>4, <1>5

(* Two values a cast leaves where they are. *)
CastsExactly(a, b) == Cast(a, b).at = a.at /\ Cast(b, a).at = b.at

LEMMA SameIsEqual ==
    ASSUME NEW a, NEW b, {a.kind, b.kind} \cap {"nan", "raises"} = {}, CastsExactly(a, b)
    PROVE  SqlSame(a, b) = Decided(Equal(a, b))
<1>1. a.kind # "nan" /\ b.kind # "nan" /\ \A k, n : Value(k, n).kind = k
  BY DEF Value
<1>2. /\ Cast(a, b).kind = IF a.kind = "exact" /\ b.kind = "double" THEN "double" ELSE a.kind
      /\ Cast(b, a).kind = IF b.kind = "exact" /\ a.kind = "double" THEN "double" ELSE b.kind
  BY <1>1 DEF Cast
<1>3. Cast(a, b).kind = Cast(b, a).kind <=> a.kind = b.kind \/ {a.kind, b.kind} \subseteq Numbers
  BY <1>2 DEF Numbers
<1>4. (Cast(a, b).kind = Cast(b, a).kind /\ Cast(a, b).at = Cast(b, a).at) <=> Equal(a, b)
  BY <1>3 DEF CastsExactly, Equal
<1> QED
  BY <1>4 DEF SqlSame, Decided

LEMMA ComparesAlike ==
    ASSUME NEW op \in Comparisons, NEW a, NEW b, {a.kind, b.kind} \cap {"nan", "raises"} = {},
           CastsExactly(a, b),
           op \in Orderings => \/ "null" \in {a.kind, b.kind}
                               \/ {a.kind, b.kind} \subseteq Numbers
                               \/ a.kind = b.kind /\ a.kind \in {"string", "date"}
    PROVE  /\ op = "==" => SqlCompare(op, a, b) = Decided(Equal(a, b))
           /\ op = "!=" => SqlCompare(op, a, b) = Decided(~ Equal(a, b))
           /\ op \in Orderings =>
                 SqlCompare(op, a, b) = IF Orderable(a, b) THEN Decided(Ordered(op, a, b)) ELSE "undecided"
<1>1. CASE op = "=="
  <2>1. op \notin Orderings
    BY <1>1 DEF Orderings
  <2>2. SqlCompare(op, a, b) = SqlSame(a, b)
    BY <1>1, <2>1 DEF SqlCompare
  <2> QED
    BY <1>1, <2>1, <2>2, SameIsEqual
<1>2. CASE op = "!="
  <2>1. op \notin Orderings
    BY <1>2 DEF Orderings
  <2>2. SqlCompare(op, a, b) = KleeneNot(SqlSame(a, b))
    BY <1>2, <2>1 DEF SqlCompare
  <2>3. KleeneNot(Decided(Equal(a, b))) = Decided(~ Equal(a, b))
    BY DEF Decided, KleeneNot
  <2> QED
    BY <1>2, <2>1, <2>2, <2>3, SameIsEqual
<1>3. CASE op \in Orderings /\ "null" \in {a.kind, b.kind}
  <2>1. op # "==" /\ op # "!=" /\ ~ Orderable(a, b)
    BY <1>3 DEF Orderings, Orderable, Numbers
  <2>2. SqlCompare(op, a, b) = "undecided"
    BY <1>3 DEF SqlCompare
  <2> QED
    BY <2>1, <2>2
<1>4. CASE op \in Orderings /\ "null" \notin {a.kind, b.kind}
  <2>1. op # "==" /\ op # "!=" /\ Orderable(a, b) /\ SqlRank(a, b) = a.at /\ SqlRank(b, a) = b.at
    BY <1>4 DEF Orderings, Orderable, SqlRank, CastsExactly
  <2>2. SqlCompare(op, a, b) = Decided(SqlOrder(op, a, b))
    BY <1>4 DEF SqlCompare
  <2>3. "nan" \notin {a.kind, b.kind}
    OBVIOUS
  <2>4. Decided(SqlOrder(op, a, b)) = Decided(Ordered(op, a, b))
    BY <1>4, <2>1, <2>3 DEF Orderings, SqlOrder, Ordered, Decided
  <2> QED
    BY <1>4, <2>1, <2>2, <2>4
<1> QED
  BY <1>1, <1>2, <1>3, <1>4 DEF Comparisons, Equalities

LEMMA UnfoldedLeafIsUndecided ==
    ASSUME NEW leaf, NEW row, NEW claims, ~ (NamesIn(leaf, "principal") \subseteq DOMAIN claims)
    PROVE  SqlLeaf(leaf, row, claims) = "undecided" /\ Leaf(leaf, row, claims) = "undecided"
<1>1. FoldedLeaf(leaf, claims) = Undecidable
  BY DEF FoldedLeaf
<1>2. SqlLeaf(leaf, row, claims) = SqlCompare("<", Null, Null)
  BY <1>1 DEF SqlLeaf, Undecidable, Operand, Literal
<1>3. SqlCompare("<", Null, Null) = "undecided"
  BY DEF SqlCompare, Null, Value, Orderings
<1>4. PICK x \in {leaf.left, leaf.right} : x.is = "principal" /\ x.name \notin DOMAIN claims
  BY DEF NamesIn
<1>5. Operand(x, row, claims) = Raises
  BY <1>4 DEF Operand
<1>6. Raises.kind = "raises"
  BY DEF Raises, Value
<1>7. Leaf(leaf, row, claims) = "undecided"
  BY <1>4, <1>5, <1>6 DEF Leaf
<1> QED
  BY <1>2, <1>3, <1>7

(* A leaf none of whose numbers a cast moves, the caller's claims left out: they *)
(* are no numbers.                                                               *)
LeafIsExact(leaf, row) == CastsExactly(Operand(leaf.left, row, << >>), Operand(leaf.right, row, << >>))

LEMMA ClaimsAreNoNumbers ==
    ASSUME NEW claims, ClaimsFit(claims), NEW row, NEW x, x.is = "principal" => x.name \in DOMAIN claims
    PROVE  \/ Operand(x, row, claims) = Operand(x, row, << >>)
           \/ Operand(x, row, claims).kind \notin Numbers \cup {"nan"}
<1>1. CASE x.is = "principal"
  <2>1. Operand(x, row, claims) = claims[x.name]
    BY <1>1 DEF Operand
  <2>2. x.name \in DOMAIN Claims /\ claims[x.name].kind \in {"list", Claims[x.name].kind}
    BY <1>1 DEF ClaimsFit, HasType
  <2>3. Claims[x.name].kind \in {"string", "boolean"}
    BY <2>2, OntologyAssumption DEF OntologyAssumption
  <2> QED
    BY <2>1, <2>2, <2>3 DEF Numbers
<1>2. CASE x.is # "principal"
  BY <1>2 DEF Operand
<1> QED
  BY <1>1, <1>2

LEMMA LeafCastsExactly ==
    ASSUME NEW claims, ClaimsFit(claims), NEW row, NEW leaf, LeafIsExact(leaf, row),
           \A x \in {leaf.left, leaf.right} : x.is = "principal" => x.name \in DOMAIN claims
    PROVE  CastsExactly(Operand(leaf.left, row, claims), Operand(leaf.right, row, claims))
<1> DEFINE a == Operand(leaf.left, row, claims)
           b == Operand(leaf.right, row, claims)
<1>1. a = Operand(leaf.left, row, << >>) \/ a.kind \notin Numbers \cup {"nan"}
  BY ClaimsAreNoNumbers
<1>2. b = Operand(leaf.right, row, << >>) \/ b.kind \notin Numbers \cup {"nan"}
  BY ClaimsAreNoNumbers
<1> HIDE DEF a, b
<1>3. a.kind \notin Numbers \cup {"nan"} \/ b.kind \notin Numbers \cup {"nan"} => Cast(a, b) = a /\ Cast(b, a) = b
  BY DEF Cast, Numbers
<1>4. CASE a.kind \notin Numbers \cup {"nan"} \/ b.kind \notin Numbers \cup {"nan"}
  BY <1>3, <1>4 DEF CastsExactly, a, b
<1>5. CASE a = Operand(leaf.left, row, << >>) /\ b = Operand(leaf.right, row, << >>)
  BY <1>5 DEF LeafIsExact, a, b
<1> QED
  BY <1>1, <1>2, <1>4, <1>5

(* A leaf that fits, on a row and for claims that do, is answered alike; except *)
(* for an order of booleans, and where a cast moves a number.                   *)
LEMMA LeafAgrees ==
    ASSUME NEW on \in DOMAIN Objects, NEW row, IsRow(on, row), \A p \in DOMAIN row : row[p].kind # "nan",
           NEW claims, ClaimsFit(claims), NEW leaf, leaf.op \in Comparisons, ComparisonFits(leaf, Props(on)),
           \A x \in {leaf.left, leaf.right} :
              x.is = "literal" => x.value.kind \in LiteralValues,
           LeafIsExact(leaf, row),
           leaf.op \in Orderings => Base(OperandType(leaf.left, Props(on))) # "boolean"
    PROVE  SqlLeaf(leaf, row, claims) = Leaf(leaf, row, claims)
<1>1. SUFFICES ASSUME NamesIn(leaf, "principal") \subseteq DOMAIN claims
               PROVE  SqlLeaf(leaf, row, claims) = Leaf(leaf, row, claims)
  BY UnfoldedLeafIsUndecided
<1> DEFINE l == OperandType(leaf.left, Props(on))
           r == OperandType(leaf.right, Props(on))
           a == Operand(leaf.left, row, claims)
           b == Operand(leaf.right, row, claims)
<1>2. /\ l.kind # "bad" /\ r.kind # "bad" /\ ~ l.list /\ ~ r.list
      /\ leaf.op \in Orderings => l.kind # "null" /\ r.kind # "null"
      /\ "null" \in {l.kind, r.kind} \/ Comparable(l, r)
  BY DEF ComparisonFits
<1>3. \A x \in {leaf.left, leaf.right} : x.is = "principal" => x.name \in DOMAIN claims
  BY <1>1 DEF NamesIn
<1>4. /\ Operand(Substituted(leaf.left, claims), row, << >>) = a
      /\ \/ l.kind = "null" /\ a.kind = "null"
         \/ /\ l.kind # "null"
            /\ Base(l) \in {"string", "boolean", "date", "timestamp"} \cup NumericKinds
            /\ a.kind \in KindsOf(l)
  BY <1>2, <1>3, OperandsFit
<1>5. /\ Operand(Substituted(leaf.right, claims), row, << >>) = b
      /\ \/ r.kind = "null" /\ b.kind = "null"
         \/ /\ r.kind # "null"
            /\ Base(r) \in {"string", "boolean", "date", "timestamp"} \cup NumericKinds
            /\ b.kind \in KindsOf(r)
  BY <1>2, <1>3, OperandsFit
<1>6. FoldedLeaf(leaf, claims) =
         [op |-> leaf.op, left |-> Substituted(leaf.left, claims), right |-> Substituted(leaf.right, claims)]
  BY <1>1 DEF FoldedLeaf
<1>7. SqlLeaf(leaf, row, claims) = SqlCompare(leaf.op, a, b)
  <2> HIDE DEF a, b
  <2> QED
    BY <1>4, <1>5, <1>6 DEF SqlLeaf
<1>8. leaf.op \in Orderings => Base(l) # "boolean"
  OBVIOUS
<1>9. Leaf(leaf, row, claims) =
         IF "raises" \in {a.kind, b.kind} THEN "undecided"
         ELSE CASE leaf.op = "==" -> Decided(Equal(a, b))
                [] leaf.op = "!=" -> Decided(~ Equal(a, b))
                [] leaf.op = "contains" /\ a.kind = "list" /\ b.kind = "string" -> Decided(b.at \in a.items)
                [] leaf.op \in Orderings /\ Orderable(a, b) -> Decided(Ordered(leaf.op, a, b))
                [] OTHER -> "undecided"
  BY DEF Leaf
<1> HIDE DEF l, r, a, b
<1> DEFINE Kind(base) == CASE base \in {"int", "long", "decimal"} -> "exact"
                            [] base = "timestamp" -> "date"
                            [] OTHER -> base
<1>10. StoredKind(l) = Kind(Base(l)) /\ StoredKind(r) = Kind(Base(r))
  BY DEF StoredKind, NumericKinds
<1>11. {a.kind, b.kind} \cap {"nan", "raises"} = {}
  BY <1>4, <1>5, <1>10 DEF KindsOf, NumericKinds
<1>12. leaf.op \in Orderings => \/ "null" \in {a.kind, b.kind}
                                \/ {a.kind, b.kind} \subseteq Numbers
                                \/ a.kind = b.kind /\ a.kind \in {"string", "date"}
  <2>1. SUFFICES ASSUME leaf.op \in Orderings, "null" \notin {a.kind, b.kind}
                 PROVE  \/ {a.kind, b.kind} \subseteq Numbers
                        \/ a.kind = b.kind /\ a.kind \in {"string", "date"}
    OBVIOUS
  <2>2. a.kind = Kind(Base(l)) /\ b.kind = Kind(Base(r))
    BY <1>2, <1>4, <1>5, <1>10, <2>1 DEF KindsOf
  <2>3. {Base(l), Base(r)} \subseteq NumericKinds \/ Base(l) = Base(r)
    BY <1>2, <2>1 DEF Comparable
  <2>4. CASE {Base(l), Base(r)} \subseteq NumericKinds
    BY <2>2, <2>4 DEF NumericKinds, Numbers
  <2>5. CASE Base(l) = Base(r)
    BY <1>2, <1>4, <1>8, <2>1, <2>2, <2>5 DEF NumericKinds, Numbers
  <2> QED
    BY <2>3, <2>4, <2>5
<1>13. CastsExactly(a, b)
  BY <1>3, LeafCastsExactly DEF a, b
<1>14. /\ leaf.op = "==" => SqlCompare(leaf.op, a, b) = Decided(Equal(a, b))
       /\ leaf.op = "!=" => SqlCompare(leaf.op, a, b) = Decided(~ Equal(a, b))
       /\ leaf.op \in Orderings =>
             SqlCompare(leaf.op, a, b) = IF Orderable(a, b) THEN Decided(Ordered(leaf.op, a, b)) ELSE "undecided"
  BY <1>11, <1>12, <1>13, ComparesAlike
<1>15. "raises" \notin {a.kind, b.kind}
  BY <1>11
<1>16. CASE leaf.op = "=="
  BY <1>7, <1>9, <1>14, <1>15, <1>16, Zenon
<1>17. CASE leaf.op = "!="
  <2>1. leaf.op # "=="
    BY <1>17
  <2> QED
    BY <1>7, <1>9, <1>14, <1>15, <1>17, <2>1, Zenon
<1>18. CASE leaf.op \in Orderings
  <2>1. leaf.op # "==" /\ leaf.op # "!=" /\ leaf.op # "contains"
    BY <1>18 DEF Orderings
  <2> QED
    BY <1>7, <1>9, <1>14, <1>15, <1>18, <2>1, Zenon
<1> QED
  BY <1>16, <1>17, <1>18 DEF Comparisons, Equalities

(* What the assumption on the deployments says of a program. *)
IsProgram(program) ==
    /\ Serves(program)
    /\ \A p \in program : \A e \in p.rows \cup p.when : IsExpression(e)
    /\ \A p \in program : \A e, f \in p.rows : e = f

ClaimsOf(caller) == IF caller.attested THEN ReadableClaims(caller.token) ELSE << >>

LEMMA ClaimsOfFit ==
    ASSUME NEW caller
    PROVE  ClaimsFit(ClaimsOf(caller))
  BY ReadableClaimsFit, NobodysClaimsFit DEF ClaimsOf

LEMMA RowExpressions ==
    ASSUME NEW program, IsProgram(program), NEW on, NEW p \in RowPolicies(program, on)
    PROVE  /\ p \in program /\ p.on = on /\ on \in DOMAIN Objects
           /\ \E e \in p.rows : p.rows = {e} /\ e = CHOOSE f \in p.rows : TRUE
           /\ \A e \in p.rows :
                 /\ IsTree(e)
                 /\ \A i \in Leaves(e) :
                       /\ e[i].op \in Comparisons /\ ComparisonFits(e[i], Props(on))
                       /\ \A x \in {e[i].left, e[i].right} :
                             x.is = "literal" => x.value.kind \in LiteralValues
<1>1. p \in program /\ p.on = on /\ p.rows # {}
  BY DEF RowPolicies
<1>2. on \in DOMAIN Objects /\ \A e \in p.rows : FitsRows(e, Props(on))
  BY <1>1 DEF IsProgram, Serves, Binds, Props
<1>3. \E e \in p.rows : p.rows = {e} /\ e = CHOOSE f \in p.rows : TRUE
  <2>1. (CHOOSE f \in p.rows : TRUE) \in p.rows
    BY <1>1
  <2>2. \A e, f \in p.rows : e = f
    BY <1>1 DEF IsProgram
  <2> QED
    BY <2>1, <2>2
<1>4. \A e \in p.rows : IsExpression(e)
  BY <1>1 DEF IsProgram
<1> QED
  BY <1>1, <1>2, <1>3, <1>4 DEF FitsRows, Fits, IsExpression, LiteralValues

LEMMA SqlShowsIs ==
    ASSUME NEW program, IsProgram(program), NEW caller, NEW on, NEW row
    PROVE  SqlShows(program, caller, on, row) <=>
              \A p \in RowPolicies(program, on) :
                 Applies(p, ClaimsOf(caller)) => \A e \in p.rows : SqlTruth(Fold(e, ClaimsOf(caller)), row) = "true"
<1>1. RowsFor(program, on, caller) =
         {Fold(CHOOSE e \in p.rows : TRUE, ClaimsOf(caller)) :
             p \in {q \in RowPolicies(program, on) : Applies(q, ClaimsOf(caller))}}
  BY DEF RowsFor, SelectedRows, ClaimsOf
<1>2. \A p \in RowPolicies(program, on) : \E e \in p.rows : p.rows = {e} /\ e = CHOOSE f \in p.rows : TRUE
  BY RowExpressions
<1> QED
  BY <1>1, <1>2 DEF SqlShows

(* The governance clause shows the rows this caller's actions may touch. *)
LEMMA RowsAgree ==
    ASSUME NEW program, IsProgram(program), NEW caller, NEW on, NEW row, IsRow(on, row),
           \A p \in DOMAIN row : row[p].kind # "nan",
           \A p \in program : \A e \in p.rows : ~ OrdersBooleans(e, Props(p.on)),
           \A p \in RowPolicies(program, on) : \A e \in p.rows : ~ Rounds(e, row)
    PROVE  SqlShows(program, caller, on, row) <=>
              \A p \in RowPolicies(program, on) :
                 Applies(p, ClaimsOf(caller)) => \A e \in p.rows : Truth(e, row, ClaimsOf(caller)) = "true"
<1>1. ASSUME NEW p \in RowPolicies(program, on), NEW e \in p.rows
      PROVE  SqlTruth(Fold(e, ClaimsOf(caller)), row) = Truth(e, row, ClaimsOf(caller))
  <2>1. /\ p \in program /\ p.on = on /\ on \in DOMAIN Objects /\ IsTree(e)
        /\ \A i \in Leaves(e) :
              /\ e[i].op \in Comparisons /\ ComparisonFits(e[i], Props(on))
              /\ \A x \in {e[i].left, e[i].right} :
                    x.is = "literal" => x.value.kind \in LiteralValues
    BY RowExpressions
  <2>2. \A i \in Leaves(e) : e[i].op \in Orderings => Base(OperandType(e[i].left, Props(on))) # "boolean"
    BY <2>1 DEF OrdersBooleans
  <2>3. \A i \in Leaves(e) : LeafIsExact(e[i], row)
    BY DEF Rounds, LeafIsExact, CastsExactly
  <2>4. \A i \in Leaves(e) : SqlLeaf(e[i], row, ClaimsOf(caller)) = Leaf(e[i], row, ClaimsOf(caller))
    BY <2>1, <2>2, <2>3, ClaimsOfFit, LeafAgrees
  <2> QED
    BY <2>1, <2>4, LeavesDecide
<1> QED
  BY <1>1, SqlShowsIs

-----------------------------------------------------------------------------
(* A claim less. *)

(* An answer that follows from less: undecided, or the same. *)
Vaguer(a, b) == a \in {"undecided", b}

Restricts(less, more) ==
    DOMAIN less \subseteq DOMAIN more /\ \A c \in DOMAIN less : less[c] = more[c]

LEMMA NegationIsMonotone ==
    ASSUME NEW a \in ThreeAnswers, NEW b \in ThreeAnswers, Vaguer(a, b)
    PROVE  Vaguer(KleeneNot(a), KleeneNot(b))
  BY DEF ThreeAnswers, Vaguer, KleeneNot

LEMMA ConnectiveIsMonotone ==
    ASSUME NEW a \in ThreeAnswers, NEW b \in ThreeAnswers, Vaguer(a, b),
           NEW c \in ThreeAnswers, NEW d \in ThreeAnswers, Vaguer(c, d), NEW op \in Connectives
    PROVE  Vaguer(Connect(op, a, c), Connect(op, b, d))
  BY DEF ThreeAnswers, Vaguer, Connect, KleeneNot, Connectives

LEMMA LeafIsMonotone ==
    ASSUME NEW leaf, NEW row, NEW less, NEW more, Restricts(less, more)
    PROVE  /\ Vaguer(Leaf(leaf, row, less), Leaf(leaf, row, more))
           /\ Vaguer(SqlLeaf(leaf, row, less), SqlLeaf(leaf, row, more))
<1>1. CASE NamesIn(leaf, "principal") \subseteq DOMAIN less
  <2>1. NamesIn(leaf, "principal") \subseteq DOMAIN more
    BY <1>1 DEF Restricts
  <2>2. \A x \in {leaf.left, leaf.right} : x.is = "principal" => x.name \in DOMAIN less
    BY <1>1 DEF NamesIn
  <2>3. \A x \in {leaf.left, leaf.right} :
           Operand(x, row, less) = Operand(x, row, more) /\ Substituted(x, less) = Substituted(x, more)
    BY <2>2 DEF Operand, Substituted, Restricts
  <2>4. Leaf(leaf, row, less) = Leaf(leaf, row, more)
    <3>1. /\ Operand(leaf.left, row, less) = Operand(leaf.left, row, more)
          /\ Operand(leaf.right, row, less) = Operand(leaf.right, row, more)
      BY <2>3
    <3> QED
      BY <3>1 DEF Leaf
  <2>5. SqlLeaf(leaf, row, less) = SqlLeaf(leaf, row, more)
    BY <1>1, <2>1, <2>3 DEF SqlLeaf, FoldedLeaf
  <2> QED
    BY <2>4, <2>5 DEF Vaguer
<1>2. CASE ~ (NamesIn(leaf, "principal") \subseteq DOMAIN less)
  BY <1>2, UnfoldedLeafIsUndecided DEF Vaguer
<1> QED
  BY <1>1, <1>2

LEMMA SqlLeafAnswers ==
    ASSUME NEW leaf, leaf.op \in Comparisons, NEW row, NEW claims
    PROVE  SqlLeaf(leaf, row, claims) \in ThreeAnswers
<1>1. FoldedLeaf(leaf, claims).op \in Comparisons
  BY DEF FoldedLeaf, Undecidable, Comparisons, Orderings
<1> QED
  BY <1>1, SqlLeavesAnswer DEF SqlLeaf

LEMMA TruthIsMonotone ==
    ASSUME NEW e, IsTree(e), NEW row, NEW less, NEW more, Restricts(less, more)
    PROVE  Vaguer(Truth(e, row, less), Truth(e, row, more))
<1> DEFINE v == Truths(e, row, less)
           w == Truths(e, row, more)
           Failing == {i \in DOMAIN e : ~ Vaguer(v[i], w[i])}
<1>1. ASSUME NEW i \in Failing
      PROVE  \/ e[i].op = "!" /\ e[i].of \in Failing
             \/ e[i].op \in Connectives /\ (e[i].left \in Failing \/ e[i].right \in Failing)
  <2>1. /\ e[i].op = "!" => e[i].of \in DOMAIN e /\ v[i] = KleeneNot(v[e[i].of])
        /\ e[i].op \in Connectives =>
              /\ e[i].left \in DOMAIN e /\ e[i].right \in DOMAIN e
              /\ v[i] = Connect(e[i].op, v[e[i].left], v[e[i].right])
        /\ i \in Leaves(e) => v[i] = Leaf(e[i], row, less)
    BY TruthsAre
  <2>2. /\ e[i].op = "!" => w[i] = KleeneNot(w[e[i].of])
        /\ e[i].op \in Connectives => w[i] = Connect(e[i].op, w[e[i].left], w[e[i].right])
        /\ i \in Leaves(e) => w[i] = Leaf(e[i], row, more)
    BY TruthsAre
  <2>3. \A j \in DOMAIN e : v[j] \in ThreeAnswers /\ w[j] \in ThreeAnswers
    BY TruthsAnswer
  <2> HIDE DEF v, w
  <2>4. i \notin Leaves(e)
    BY <2>1, <2>2, LeafIsMonotone
  <2>5. CASE e[i].op = "!"
    BY <2>1, <2>2, <2>3, <2>5, NegationIsMonotone
  <2>6. CASE e[i].op \in Connectives
    BY <2>1, <2>2, <2>3, <2>6, ConnectiveIsMonotone
  <2> QED
    BY <2>4, <2>5, <2>6 DEF Leaves
<1>2. Failing \in SUBSET DOMAIN e
  OBVIOUS
<1> HIDE DEF Failing
<1>3. Failing = {}
  BY <1>1, <1>2, NoNodeFails
<1> QED
  BY <1>3, Positions DEF Failing, Truth

LEMMA SqlTruthIsMonotone ==
    ASSUME NEW e, IsTree(e), \A i \in Leaves(e) : e[i].op \in Comparisons,
           NEW row, NEW less, NEW more, Restricts(less, more)
    PROVE  Vaguer(SqlTruth(Fold(e, less), row), SqlTruth(Fold(e, more), row))
<1> DEFINE v == SqlTruths(Fold(e, less), row)
           w == SqlTruths(Fold(e, more), row)
           Failing == {i \in DOMAIN e : ~ (v[i] \in ThreeAnswers /\ w[i] \in ThreeAnswers /\ Vaguer(v[i], w[i]))}
<1>1. ASSUME NEW i \in Failing
      PROVE  \/ e[i].op = "!" /\ e[i].of \in Failing
             \/ e[i].op \in Connectives /\ (e[i].left \in Failing \/ e[i].right \in Failing)
  <2>1. /\ e[i].op = "!" => e[i].of \in DOMAIN e /\ v[i] = KleeneNot(v[e[i].of])
        /\ e[i].op \in Connectives =>
              /\ e[i].left \in DOMAIN e /\ e[i].right \in DOMAIN e
              /\ v[i] = SqlConnect(e[i].op, v[e[i].left], v[e[i].right])
        /\ i \in Leaves(e) => v[i] = SqlLeaf(e[i], row, less)
    BY FoldedTruthsAre
  <2>2. /\ e[i].op = "!" => w[i] = KleeneNot(w[e[i].of])
        /\ e[i].op \in Connectives => w[i] = SqlConnect(e[i].op, w[e[i].left], w[e[i].right])
        /\ i \in Leaves(e) => w[i] = SqlLeaf(e[i], row, more)
    BY FoldedTruthsAre
  <2> HIDE DEF v, w
  <2>3. i \notin Leaves(e)
    BY <2>1, <2>2, LeafIsMonotone, SqlLeafAnswers
  <2>4. CASE e[i].op = "!"
    BY <2>1, <2>2, <2>4, NegationIsMonotone, NegationAnswers
  <2>5. CASE e[i].op \in Connectives
    <3>1. SUFFICES ASSUME e[i].left \notin Failing, e[i].right \notin Failing
                   PROVE  FALSE
      BY <2>5
    <3> DEFINE a == v[e[i].left]
               b == w[e[i].left]
               c == v[e[i].right]
               d == w[e[i].right]
    <3>2. /\ a \in ThreeAnswers /\ b \in ThreeAnswers /\ Vaguer(a, b)
          /\ c \in ThreeAnswers /\ d \in ThreeAnswers /\ Vaguer(c, d)
      BY <2>1, <2>5, <3>1
    <3>3. v[i] = SqlConnect(e[i].op, a, c) /\ w[i] = SqlConnect(e[i].op, b, d)
      BY <2>1, <2>2, <2>5
    <3> HIDE DEF a, b, c, d
    <3>4. v[i] = Connect(e[i].op, a, c) /\ w[i] = Connect(e[i].op, b, d)
      BY <2>5, <3>2, <3>3, ConnectivesAnswer
    <3>5. Connect(e[i].op, a, c) \in ThreeAnswers /\ Connect(e[i].op, b, d) \in ThreeAnswers
      BY <2>5, <3>2, ConnectivesAnswer
    <3>6. Vaguer(Connect(e[i].op, a, c), Connect(e[i].op, b, d))
      BY <2>5, <3>2, ConnectiveIsMonotone
    <3> QED
      BY <3>4, <3>5, <3>6
  <2> QED
    BY <2>3, <2>4, <2>5 DEF Leaves
<1>2. Failing \in SUBSET DOMAIN e
  OBVIOUS
<1> HIDE DEF Failing
<1>3. Failing = {}
  BY <1>1, <1>2, NoNodeFails
<1>4. Len(Fold(e, less)) = Len(e) /\ Len(Fold(e, more)) = Len(e)
  BY FoldIsTree
<1> QED
  BY <1>3, <1>4, Positions DEF Failing, SqlTruth

LEMMA FewerClaimsShowNoMore ==
    ASSUME NEW program, IsProgram(program), NEW less, NEW more,
           Restricts(ClaimsOf(less), ClaimsOf(more)), NEW on, NEW row, SqlShows(program, less, on, row)
    PROVE  SqlShows(program, more, on, row)
<1>1. SUFFICES ASSUME NEW p \in RowPolicies(program, on), Applies(p, ClaimsOf(more)), NEW e \in p.rows
               PROVE  SqlTruth(Fold(e, ClaimsOf(more)), row) = "true"
  BY SqlShowsIs
<1>2. Applies(p, ClaimsOf(less))
  <2>1. ASSUME NEW g \in p.when
        PROVE  Vaguer(GuardTruth(g, ClaimsOf(less)), GuardTruth(g, ClaimsOf(more)))
    <3>1. IsTree(g)
      BY DEF IsProgram, IsExpression, RowPolicies
    <3> QED
      BY <3>1, TruthIsMonotone DEF GuardTruth
  <2> QED
    BY <1>1, <2>1 DEF Applies, Vaguer
<1>3. SqlTruth(Fold(e, ClaimsOf(less)), row) = "true"
  BY <1>2, SqlShowsIs
<1>4. IsTree(e) /\ \A i \in Leaves(e) : e[i].op \in Comparisons
  BY RowExpressions
<1>5. Vaguer(SqlTruth(Fold(e, ClaimsOf(less)), row), SqlTruth(Fold(e, ClaimsOf(more)), row))
  BY <1>4, SqlTruthIsMonotone
<1> QED
  BY <1>3, <1>5 DEF Vaguer

-----------------------------------------------------------------------------
(* The orders an answer may come in. *)

LongerRankings(c, rows, shorter) ==
    UNION {{Append(before, x) : x \in First(c, rows \ Among(before))} : before \in shorter}

LEMMA LongerRankingsHold ==
    ASSUME NEW c, NEW rows, NEW shorter, NEW before \in shorter, NEW x \in First(c, rows \ Among(before))
    PROVE  Append(before, x) \in LongerRankings(c, rows, shorter)
<1>1. Append(before, x) \in {Append(before, y) : y \in First(c, rows \ Among(before))}
  OBVIOUS
<1> QED
  BY <1>1 DEF LongerRankings

AreGrown(c, rows, n, t) == t = [m \in 0..n |-> IF m = 0 THEN {<< >>} ELSE LongerRankings(c, rows, t[m - 1])]

LEMMA ExtendingRankings ==
    ASSUME NEW c, NEW rows, NEW n \in Nat
    PROVE  \E t : AreGrown(c, rows, n, t)
<1> DEFINE Reaches(k) == \E t : t = [m \in 0..k |-> IF m = 0 THEN {<< >>} ELSE LongerRankings(c, rows, t[m - 1])]
           Short == {k \in Nat : ~ Reaches(k)}
<1>1. ASSUME NEW k \in Short
      PROVE  \E j \in Short : j < k
  <2>1. k # 0
    <3> DEFINE t == [m \in 0..0 |-> {<< >>}]
    <3>1. t = [m \in 0..0 |-> IF m = 0 THEN {<< >>} ELSE LongerRankings(c, rows, t[m - 1])]
      OBVIOUS
    <3>2. Reaches(0)
      BY <3>1
    <3> QED
      BY <3>2
  <2>2. SUFFICES ASSUME Reaches(k - 1)
                 PROVE  Reaches(k)
    <3> HIDE DEF Reaches
    <3> QED
      BY <2>1
  <2>20. k \in Nat /\ k # 0 /\ \A m \in 0..k : m # 0 => m - 1 \in 0..(k - 1)
    BY <2>1
  <2>3. PICK t : t = [m \in 0..(k - 1) |-> IF m = 0 THEN {<< >>} ELSE LongerRankings(c, rows, t[m - 1])]
    BY <2>2
  <2> DEFINE u == [m \in 0..k |-> IF m = 0 THEN {<< >>} ELSE LongerRankings(c, rows, t[m - 1])]
  <2>4. \A m \in 0..(k - 1) : u[m] = t[m]
    <3>1. \A m \in 0..(k - 1) : m \in 0..k
      BY <2>20
    <3>2. \A m \in 0..(k - 1) : t[m] = IF m = 0 THEN {<< >>} ELSE LongerRankings(c, rows, t[m - 1])
      BY <2>3, Zenon
    <3> QED
      BY <3>1, <3>2, Zenon
  <2>5. ASSUME NEW m \in 0..k, m # 0
        PROVE  u[m - 1] = t[m - 1]
    <3> HIDE DEF u
    <3> QED
      BY <2>20, <2>4, <2>5
  <2>6. u = [m \in 0..k |-> IF m = 0 THEN {<< >>} ELSE LongerRankings(c, rows, u[m - 1])]
    BY <2>5, Zenon
  <2> HIDE DEF u
  <2> QED
    BY <2>6, Zenon
<1>2. Short \in SUBSET Nat
  OBVIOUS
<1>3. Short = {}
  <2> HIDE DEF Short
  <2> QED
    BY <1>1, <1>2, NoneWithoutLesser
<1> QED
  BY <1>3 DEF AreGrown

(* The rankings of a finite set, and the beginnings they grow from. *)
IsRanked(c, rows, first) ==
    /\ first[0] = {<< >>}
    /\ \A n \in 1..Cardinality(rows) : first[n] = LongerRankings(c, rows, first[n - 1])
    /\ Rankings(c, rows) = first[Cardinality(rows)]

LEMMA RankingsAre ==
    ASSUME NEW c, NEW rows, IsFiniteSet(rows)
    PROVE  \E first : IsRanked(c, rows, first)
<1> DEFINE N == Cardinality(rows)
           first == CHOOSE t : AreGrown(c, rows, N, t)
<1>1. Rankings(c, rows) = first[N]
  BY Zenon DEF Rankings, LongerRankings, AreGrown
<1>2. N \in Nat
  BY FS_CardinalityType
<1> HIDE DEF N
<1>3. \E t : AreGrown(c, rows, N, t)
  BY <1>2, ExtendingRankings
<1>4. AreGrown(c, rows, N, first)
  BY <1>3, Zenon
<1> HIDE DEF first
<1>5. \A m \in 0..N : first[m] = IF m = 0 THEN {<< >>} ELSE LongerRankings(c, rows, first[m - 1])
  BY <1>4, Zenon DEF AreGrown
<1>6. first[0] = {<< >>} /\ \A n \in 1..N : first[n] = LongerRankings(c, rows, first[n - 1])
  BY <1>2, <1>5
<1> QED
  BY <1>1, <1>6 DEF IsRanked, N

LEMMA RankingsAreSequences ==
    ASSUME NEW c, NEW rows, IsFiniteSet(rows), NEW first, IsRanked(c, rows, first)
    PROVE  \A n \in 0..Cardinality(rows) : \A s \in first[n] : s \in Seq(rows) /\ Len(s) = n
<1> DEFINE Failing == {n \in 0..Cardinality(rows) : \E s \in first[n] : ~ (s \in Seq(rows) /\ Len(s) = n)}
<1>1. Cardinality(rows) \in Nat
  BY FS_CardinalityType
<1>2. ASSUME NEW n \in Failing
      PROVE  \E k \in Failing : k < n
  <2>1. n \in 0..Cardinality(rows)
    OBVIOUS
  <2>2. n # 0
    <3>1. \A t \in {<< >>} : t \in Seq(rows) /\ Len(t) = 0
      OBVIOUS
    <3> QED
      BY <3>1 DEF IsRanked
  <2>3. PICK s \in first[n] : ~ (s \in Seq(rows) /\ Len(s) = n)
    OBVIOUS
  <2>30. PICK before \in first[n - 1] : \E x \in First(c, rows \ Among(before)) : s = Append(before, x)
    <3>1. first[n] = LongerRankings(c, rows, first[n - 1])
      BY <1>1, <2>1, <2>2 DEF IsRanked
    <3> QED
      BY <2>3, <3>1, Zenon DEF LongerRankings
  <2>4. PICK x \in First(c, rows \ Among(before)) : s = Append(before, x)
    BY <2>30
  <2>5. x \in rows
    BY <2>4 DEF First
  <2>6. ~ (before \in Seq(rows) /\ Len(before) = n - 1)
    BY <1>1, <2>1, <2>3, <2>4, <2>5
  <2> QED
    BY <1>1, <2>1, <2>2, <2>6
<1>3. Failing \in SUBSET Nat
  BY <1>1
<1> HIDE DEF Failing
<1>4. Failing = {}
  BY <1>2, <1>3, NoneWithoutLesser
<1> QED
  BY <1>4 DEF Failing

LEMMA RankingsRankAll ==
    ASSUME NEW c, NEW rows, IsFiniteSet(rows), NEW s \in Rankings(c, rows)
    PROVE  s \in Seq(rows) /\ Len(s) = Cardinality(rows)
<1>1. PICK first : IsRanked(c, rows, first)
  BY RankingsAre
<1>2. Cardinality(rows) \in 0..Cardinality(rows)
  BY FS_CardinalityType
<1> QED
  BY <1>1, <1>2, RankingsAreSequences DEF IsRanked

(* Rows carried to others one to one, keeping their order: what one may come   *)
(* next, its image may.                                                        *)
Carries(c, rows, others, carry) ==
    /\ others = {carry[x] : x \in rows}
    /\ \A x, y \in rows : carry[x] = carry[y] => x = y
    /\ \A x, y \in rows : Precedes(c, carry[x], carry[y]) <=> Precedes(c, x, y)

LEMMA RankingsCarry ==
    ASSUME NEW c, NEW rows, IsFiniteSet(rows), NEW others, NEW carry, Carries(c, rows, others, carry),
           NEW s \in Rankings(c, rows)
    PROVE  [i \in DOMAIN s |-> carry[s[i]]] \in Rankings(c, others)
<1> DEFINE N == Cardinality(rows)
           Carried(t) == [i \in DOMAIN t |-> carry[t[i]]]
<1>1. N \in Nat
  BY FS_CardinalityType
<1>2. IsFiniteSet(others) /\ Cardinality(others) = N
  <2> DEFINE f == [x \in rows |-> carry[x]]
  <2>1. f \in Bijection(rows, others)
    BY DEF Carries, Bijection, Injection, Surjection, IsInjective
  <2>2. ExistsBijection(rows, others)
    BY <2>1 DEF ExistsBijection
  <2> QED
    BY <2>2, FS_Bijection
<1>3. PICK first : IsRanked(c, rows, first)
  BY RankingsAre
<1>4. PICK second : IsRanked(c, others, second)
  BY <1>2, RankingsAre
<1>30. \A n \in 0..N : \A t \in first[n] : t \in Seq(rows) /\ Len(t) = n
  <2> HIDE DEF N
  <2>1. SUFFICES ASSUME NEW n \in 0..N, NEW t \in first[n]
                 PROVE  t \in Seq(rows) /\ Len(t) = n
    OBVIOUS
  <2> QED
    BY <1>3, RankingsAreSequences DEF N, IsRanked
<1> DEFINE Failing == {n \in 0..N : \E t \in first[n] : Carried(t) \notin second[n]}
<1>5. ASSUME NEW n \in Failing
      PROVE  \E k \in Failing : k < n
  <2>1. n \in 0..N
    OBVIOUS
  <2>2. PICK t \in first[n] : Carried(t) \notin second[n]
    OBVIOUS
  <2>3. n # 0
    <3>1. ASSUME n = 0
          PROVE  FALSE
      <4>1. t = << >> /\ second[n] = {<< >>}
        BY <1>3, <1>4, <2>2, <3>1 DEF IsRanked
      <4>2. Carried(t) = << >>
        BY <4>1
      <4> QED
        BY <2>2, <4>1, <4>2
    <3> QED
      BY <3>1
  <2>30. PICK before \in first[n - 1] : \E x \in First(c, rows \ Among(before)) : t = Append(before, x)
    <3>1. first[n] = LongerRankings(c, rows, first[n - 1])
      BY <1>1, <1>3, <2>1, <2>3 DEF IsRanked
    <3> QED
      BY <2>2, <3>1, Zenon DEF LongerRankings
  <2>4. PICK x \in First(c, rows \ Among(before)) : t = Append(before, x)
    BY <2>30
  <2>5. before \in Seq(rows) /\ Len(before) = n - 1
    <3>1. n - 1 \in 0..N
      BY <1>1, <2>1, <2>3
    <3> QED
      BY <1>30, <2>30, <3>1
  <2>6. x \in rows /\ x \notin Among(before)
    BY <2>4 DEF First
  <2>7. Among(Carried(before)) = {carry[y] : y \in Among(before)}
    BY <2>5 DEF Among
  <2>8. Among(before) \subseteq rows
    BY <2>5 DEF Among
  <2>9. others \ Among(Carried(before)) = {carry[y] : y \in rows \ Among(before)}
    BY <2>7, <2>8 DEF Carries
  <2>10. carry[x] \in First(c, others \ Among(Carried(before)))
    <3>1. \A y \in rows \ Among(before) : ~ Precedes(c, y, x)
      BY <2>4 DEF First
    <3>2. \A y \in rows \ Among(before) : ~ Precedes(c, carry[y], carry[x])
      BY <2>6, <3>1 DEF Carries
    <3> QED
      BY <2>6, <2>9, <3>2 DEF First
  <2>11. Carried(t) = Append(Carried(before), carry[x])
    BY <1>1, <2>1, <2>3, <2>4, <2>5
  <2>12. second[n] = LongerRankings(c, others, second[n - 1])
    BY <1>1, <1>2, <1>4, <2>1, <2>3 DEF IsRanked
  <2>13. Carried(before) \notin second[n - 1]
    <3> HIDE DEF Carried
    <3>1. Append(Carried(before), carry[x]) \notin second[n]
      BY <2>2, <2>11
    <3> DEFINE b == Carried(before)
    <3>2. ASSUME b \in second[n - 1]
          PROVE  Append(b, carry[x]) \in second[n]
      BY <2>10, <2>12, <3>2, LongerRankingsHold
    <3> QED
      BY <3>1, <3>2
  <2>14. n - 1 \in 0..N /\ n - 1 < n
    BY <1>1, <2>1, <2>3
  <2> HIDE DEF Carried
  <2> QED
    BY <2>30, <2>13, <2>14
<1>6. Failing \in SUBSET Nat
  BY <1>1
<1> HIDE DEF Failing
<1>7. Failing = {}
  BY <1>5, <1>6, NoneWithoutLesser
<1>8. s \in first[N] /\ Rankings(c, others) = second[N] /\ N \in 0..N
  BY <1>1, <1>2, <1>3, <1>4 DEF IsRanked
<1> QED
  BY <1>7, <1>8 DEF Failing

-----------------------------------------------------------------------------
(* Calls that compile. *)

Ops == {"get", "search", "list", "traverse", "match"}

IsCompiled(program, c) ==
    /\ c.op \in Ops /\ c.on \in DOMAIN Objects
    /\ PageSize(c) \in 1..MaxPage /\ c.offset \in Nat
    /\ c.op = "traverse" => HasLink(c.on, c.link) /\ Near(c).type = c.on
    /\ c.op = "match" => Objects[c.on].semantic # ""
    /\ c.op = "match" /\ c.link # "" => HasLink(c.on, c.link) /\ Near(c).type = c.on
    /\ \A f \in c.filters : FilterFits(program, TargetType(c), f)
    /\ \A f \in c.via : FilterFits(program, Far(c).type, f)

(* Whether a call follows a link. *)
Follows(c) == c.op = "traverse" \/ (c.op = "match" /\ c.link # "")

LEMMA CompilesIs ==
    ASSUME NEW program, NEW caller, NEW c, NEW tables, Compiles(program, caller, c, tables),
           c.op \in Ops, c.offset \in Int
    PROVE  IsCompiled(program, c)
<1>1. /\ c.on \in DOMAIN Objects /\ PageSize(c) \in 1..MaxPage
      /\ c.op = "traverse" => HasLink(c.on, c.link) /\ Near(c).type = c.on
      /\ c.op = "match" /\ c.link # "" => HasLink(c.on, c.link) /\ Near(c).type = c.on
      /\ \A f \in c.filters : FilterFits(program, TargetType(c), f)
      /\ \A f \in c.via : FilterFits(program, Far(c).type, f)
  BY Zenon DEF Compiles
<1>2. c.offset \in Nat
  <2>1. c.offset >= 0
    BY Zenon DEF Compiles
  <2> QED
    BY <2>1
<1>3. c.op = "match" => Objects[c.on].semantic # ""
  BY Zenon DEF Compiles, Rankable
<1> QED
  BY <1>1, <1>2, <1>3, Zenon DEF IsCompiled

LEMMA AmongOne ==
    ASSUME NEW x
    PROVE  Among(<<x>>) = {x} /\ DOMAIN <<x>> = {1}
<1>1. DOMAIN <<x>> = {1}
  OBVIOUS
<1> QED
  BY <1>1 DEF Among

LEMMA AmongTwo ==
    ASSUME NEW x, NEW y
    PROVE  Among(<<x, y>>) = {x, y} /\ DOMAIN <<x, y>> = {1, 2}
<1>1. DOMAIN <<x, y>> = {1, 2}
  OBVIOUS
<1> QED
  BY <1>1 DEF Among

LEMMA AmongThree ==
    ASSUME NEW x, NEW y, NEW z
    PROVE  Among(<<x, y, z>>) = {x, y, z} /\ DOMAIN <<x, y, z>> = {1, 2, 3}
<1>1. DOMAIN <<x, y, z>> = {1, 2, 3}
  OBVIOUS
<1> QED
  BY <1>1 DEF Among

LEMMA AmongFour ==
    ASSUME NEW x, NEW y, NEW z, NEW w
    PROVE  Among(<<x, y, z, w>>) = {x, y, z, w} /\ DOMAIN <<x, y, z, w>> = {1, 2, 3, 4}
<1>1. DOMAIN <<x, y, z, w>> = {1, 2, 3, 4}
  OBVIOUS
<1> QED
  BY <1>1 DEF Among

LEMMA AliasesAre ==
    ASSUME NEW program, NEW c, IsCompiled(program, c)
    PROVE  /\ "target" \in Among(Aliases(c))
           /\ "source" \in Among(Aliases(c)) <=> c.op = "traverse"
           /\ "vectors" \in Among(Aliases(c)) <=> c.op = "match"
           /\ "link" \in Among(Aliases(c)) <=> c.op = "match" /\ c.link # ""
           /\ "through" \in Among(Aliases(c)) <=> Follows(c) /\ Through(c)
           /\ Aliases(c) \in Seq({"target", "source", "through", "vectors", "link"})
           /\ \A i, j \in DOMAIN Aliases(c) : Aliases(c)[i] = Aliases(c)[j] => i = j
<1>1. CASE c.op = "traverse" /\ Through(c)
  <2>1. Aliases(c) = <<"target", "source", "through">>
    BY <1>1, Zenon DEF Aliases
  <2>2. Among(Aliases(c)) = {"target", "source", "through"} /\ DOMAIN Aliases(c) = {1, 2, 3}
    BY <2>1, AmongThree
  <2>3. Aliases(c) \in Seq({"target", "source", "through", "vectors", "link"})
    BY <2>1
  <2>4. \A i, j \in DOMAIN Aliases(c) : Aliases(c)[i] = Aliases(c)[j] => i = j
    BY <2>1, <2>2
  <2>5. c.op = "traverse" /\ c.op # "match" /\ Follows(c) /\ Through(c)
    <3>1. c.op # "match"
      BY <1>1
    <3> QED
      BY <1>1, <3>1, Zenon DEF Follows
  <2>6. /\ "target" \in Among(Aliases(c)) /\ "source" \in Among(Aliases(c)) /\ "through" \in Among(Aliases(c))
        /\ "vectors" \notin Among(Aliases(c)) /\ "link" \notin Among(Aliases(c))
    BY <2>2
  <2> QED
    BY <2>3, <2>4, <2>5, <2>6, Zenon
<1>2. CASE c.op = "traverse" /\ ~ Through(c)
  <2>1. Aliases(c) = <<"target", "source">>
    BY <1>2, Zenon DEF Aliases
  <2>2. Among(Aliases(c)) = {"target", "source"} /\ DOMAIN Aliases(c) = {1, 2}
    BY <2>1, AmongTwo
  <2>3. Aliases(c) \in Seq({"target", "source", "through", "vectors", "link"})
    BY <2>1
  <2>4. \A i, j \in DOMAIN Aliases(c) : Aliases(c)[i] = Aliases(c)[j] => i = j
    BY <2>1, <2>2
  <2> QED
    BY <1>2, <2>2, <2>3, <2>4 DEF Follows
<1>3. CASE c.op = "match" /\ c.link = ""
  <2>1. Aliases(c) = <<"target", "vectors">>
    BY <1>3, Zenon DEF Aliases
  <2>2. Among(Aliases(c)) = {"target", "vectors"} /\ DOMAIN Aliases(c) = {1, 2}
    BY <2>1, AmongTwo
  <2>3. Aliases(c) \in Seq({"target", "source", "through", "vectors", "link"})
    BY <2>1
  <2>4. \A i, j \in DOMAIN Aliases(c) : Aliases(c)[i] = Aliases(c)[j] => i = j
    BY <2>1, <2>2
  <2> QED
    BY <1>3, <2>2, <2>3, <2>4 DEF Follows
<1>4. CASE c.op = "match" /\ c.link # "" /\ Through(c)
  <2>1. Aliases(c) = <<"target", "vectors", "through", "link">>
    BY <1>4, Zenon DEF Aliases
  <2>2. Among(Aliases(c)) = {"target", "vectors", "through", "link"} /\ DOMAIN Aliases(c) = {1, 2, 3, 4}
    BY <2>1, AmongFour
  <2>3. Aliases(c) \in Seq({"target", "source", "through", "vectors", "link"})
    BY <2>1
  <2>4. \A i, j \in DOMAIN Aliases(c) : Aliases(c)[i] = Aliases(c)[j] => i = j
    BY <2>1, <2>2
  <2> QED
    BY <1>4, <2>2, <2>3, <2>4 DEF Follows
<1>5. CASE c.op = "match" /\ c.link # "" /\ ~ Through(c)
  <2>1. Aliases(c) = <<"target", "vectors", "link">>
    BY <1>5, Zenon DEF Aliases
  <2>2. Among(Aliases(c)) = {"target", "vectors", "link"} /\ DOMAIN Aliases(c) = {1, 2, 3}
    BY <2>1, AmongThree
  <2>3. Aliases(c) \in Seq({"target", "source", "through", "vectors", "link"})
    BY <2>1
  <2>4. \A i, j \in DOMAIN Aliases(c) : Aliases(c)[i] = Aliases(c)[j] => i = j
    BY <2>1, <2>2
  <2> QED
    BY <1>5, <2>2, <2>3, <2>4 DEF Follows
<1>6. CASE c.op \in {"get", "search", "list"}
  <2>1. Aliases(c) = <<"target">>
    BY <1>6, Zenon DEF Aliases
  <2>2. Among(Aliases(c)) = {"target"} /\ DOMAIN Aliases(c) = {1}
    BY <2>1, AmongOne
  <2>3. Aliases(c) \in Seq({"target", "source", "through", "vectors", "link"})
    BY <2>1
  <2>4. \A i, j \in DOMAIN Aliases(c) : Aliases(c)[i] = Aliases(c)[j] => i = j
    BY <2>1, <2>2
  <2> QED
    BY <1>6, <2>2, <2>3, <2>4 DEF Follows
<1> QED
  BY <1>1, <1>2, <1>3, <1>4, <1>5, <1>6 DEF IsCompiled, Ops

LEMMA TablesAre ==
    ASSUME NEW c
    PROVE  /\ TableOf(c, "target") = TargetType(c)
           /\ TableOf(c, "source") = c.on
           /\ TableOf(c, "through") = c.link
           /\ TableOf(c, "link") = Far(c).type
           /\ TableOf(c, "vectors") = Objects[c.on].vectors
<1>1. TableOf(c, "target") = TargetType(c)
  BY Zenon DEF TableOf
<1>2. TableOf(c, "source") = c.on
  BY Zenon DEF TableOf
<1>3. TableOf(c, "through") = c.link
  BY Zenon DEF TableOf
<1>4. TableOf(c, "link") = Far(c).type
  BY Zenon DEF TableOf
<1>5. TableOf(c, "vectors") = Objects[c.on].vectors
  BY Zenon DEF TableOf
<1> QED
  BY <1>1, <1>2, <1>3, <1>4, <1>5

LEMMA EndsAre ==
    ASSUME NEW program, NEW c, IsCompiled(program, c), Follows(c)
    PROVE  /\ c.link \in DOMAIN Links
           /\ \A end \in {Near(c), Far(c)} :
                 /\ end \in LinkEnds /\ end = [type |-> end.type, prop |-> end.prop]
                 /\ end.type \in DOMAIN Objects /\ end.prop \in DOMAIN Props(end.type)
           /\ Near(c).type = c.on
           /\ c.op = "traverse" => TargetType(c) = Far(c).type
<1>1. c.link \in DOMAIN Links /\ Near(c).type = c.on
  BY DEF IsCompiled, Follows, HasLink
<1>2. Near(c) \in {Links[c.link].from, Links[c.link].to} /\ Far(c) \in {Links[c.link].from, Links[c.link].to}
  BY DEF Near, Far
<1> QED
  BY <1>1, <1>2, OntologyAssumption DEF OntologyAssumption, LinkEnds, TargetType

LEMMA GovernedTables ==
    ASSUME NEW program, NEW c, IsCompiled(program, c), NEW a \in Among(Aliases(c)) \cap Governed
    PROVE  TableOf(c, a) \in DOMAIN Objects
<1>1. ASSUME Follows(c)
      PROVE  Far(c).type \in DOMAIN Objects
  BY <1>1, EndsAre
<1>2. TargetType(c) \in DOMAIN Objects
  <2>1. c.on \in DOMAIN Objects
    BY DEF IsCompiled
  <2>2. c.op = "traverse" => Follows(c)
    BY Zenon DEF Follows
  <2> QED
    BY <1>1, <2>1, <2>2 DEF TargetType
<1>3. a = "link" => c.op = "match" /\ c.link # ""
  BY AliasesAre
<1>4. a = "link" => Far(c).type \in DOMAIN Objects
  BY <1>1, <1>3 DEF Follows
<1>5. a \in {"target", "source", "link"} /\ c.on \in DOMAIN Objects
  BY DEF Governed, IsCompiled
<1> QED
  BY <1>2, <1>4, <1>5, TablesAre

-----------------------------------------------------------------------------
(* A masked property's values exchanged. *)

IsShaped(on, r) == r = [p \in DOMAIN Props(on) |-> r[p]]

(* A masked property that no row policy of its type reads. *)
IsUnread(program, on, prop) ==
    /\ prop \in Masked(program, on)
    /\ \A p \in RowPolicies(program, on) : \A e \in p.rows : prop \notin Names(e, "object")

LEMMA MaskedIsNowhere ==
    ASSUME NEW program, IsProgram(program), NEW on, NEW prop \in Masked(program, on)
    PROVE  /\ on \in DOMAIN Objects /\ prop \in DOMAIN Props(on)
           /\ prop # Key(on) /\ prop # Objects[on].semantic
           /\ [type |-> on, prop |-> prop] \notin LinkEnds
<1>1. PICK p \in program : p.on = on /\ prop \in p.mask
  BY DEF Masked
<1>2. on \in DOMAIN Objects /\ MayMask(on, prop)
  BY <1>1 DEF IsProgram, Serves, Binds
<1> QED
  BY <1>2 DEF MayMask, MayMaskSemantic, Key, Props

LEMMA SwappedIs ==
    ASSUME NEW on, NEW prop \in DOMAIN Props(on), NEW r, IsShaped(on, r), NEW v
    PROVE  /\ IsShaped(on, Swapped(r, prop, v))
           /\ \A p \in DOMAIN Props(on) : p # prop => Swapped(r, prop, v)[p] = r[p]
           /\ Swapped(Swapped(r, prop, v), prop, v) = r
<1> DEFINE s == Swapped(r, prop, v)
           D == DOMAIN Props(on)
           other(x) == IF x = Null THEN v ELSE IF x = v THEN Null ELSE x
<1>1. r = [p \in D |-> r[p]]
  BY DEF IsShaped
<1>2. s = [p \in D |-> IF p = prop THEN other(r[p]) ELSE r[p]]
  <2>1. DOMAIN r = D
    BY <1>1
  <2> HIDE DEF D
  <2> QED
    BY <2>1 DEF Swapped
<1> HIDE DEF s
<1>3. DOMAIN s = D /\ \A p \in D : s[p] = IF p = prop THEN other(r[p]) ELSE r[p]
  BY <1>2
<1>4. IsShaped(on, s)
  BY <1>2 DEF IsShaped
<1>5. Swapped(s, prop, v) = [p \in D |-> IF p = prop THEN other(s[p]) ELSE s[p]]
  BY <1>3 DEF Swapped
<1>6. \A x : other(other(x)) = x
  OBVIOUS
<1>7. \A p \in D : (IF p = prop THEN other(s[p]) ELSE s[p]) = r[p]
  BY <1>3, <1>6
<1>8. Swapped(s, prop, v) = r
  BY <1>1, <1>5, <1>7, Zenon
<1> QED
  BY <1>3, <1>4, <1>8 DEF s

(* A predicate answers by the properties it names. *)
LEMMA UnreadTruth ==
    ASSUME NEW e, IsTree(e), NEW claims, NEW r, NEW s,
           \A i \in Leaves(e) : \A x \in {e[i].left, e[i].right} : x.is = "object" => r[x.name] = s[x.name]
    PROVE  SqlTruth(Fold(e, claims), r) = SqlTruth(Fold(e, claims), s)
<1> DEFINE v == SqlTruths(Fold(e, claims), r)
           w == SqlTruths(Fold(e, claims), s)
           Failing == {i \in DOMAIN e : v[i] # w[i]}
<1>1. ASSUME NEW i \in Failing
      PROVE  \/ e[i].op = "!" /\ e[i].of \in Failing
             \/ e[i].op \in Connectives /\ (e[i].left \in Failing \/ e[i].right \in Failing)
  <2>1. /\ e[i].op = "!" => e[i].of \in DOMAIN e /\ v[i] = KleeneNot(v[e[i].of])
        /\ e[i].op \in Connectives =>
              /\ e[i].left \in DOMAIN e /\ e[i].right \in DOMAIN e
              /\ v[i] = SqlConnect(e[i].op, v[e[i].left], v[e[i].right])
        /\ i \in Leaves(e) => v[i] = SqlLeaf(e[i], r, claims)
    BY FoldedTruthsAre
  <2>2. /\ e[i].op = "!" => w[i] = KleeneNot(w[e[i].of])
        /\ e[i].op \in Connectives => w[i] = SqlConnect(e[i].op, w[e[i].left], w[e[i].right])
        /\ i \in Leaves(e) => w[i] = SqlLeaf(e[i], s, claims)
    BY FoldedTruthsAre
  <2> HIDE DEF v, w
  <2>3. ASSUME i \in Leaves(e)
        PROVE  SqlLeaf(e[i], r, claims) = SqlLeaf(e[i], s, claims)
    <3>1. \A x \in {e[i].left, e[i].right} :
             Operand(Substituted(x, claims), r, << >>) = Operand(Substituted(x, claims), s, << >>)
      BY <2>3 DEF Operand, Substituted, Literal
    <3>2. /\ Operand(Undecidable.left, r, << >>) = Operand(Undecidable.left, s, << >>)
          /\ Operand(Undecidable.right, r, << >>) = Operand(Undecidable.right, s, << >>)
      BY DEF Undecidable, Operand, Literal
    <3>3. CASE NamesIn(e[i], "principal") \subseteq DOMAIN claims
      <4>1. FoldedLeaf(e[i], claims) =
               [op |-> e[i].op, left |-> Substituted(e[i].left, claims), right |-> Substituted(e[i].right, claims)]
        BY <3>3 DEF FoldedLeaf
      <4>2. /\ Operand(Substituted(e[i].left, claims), r, << >>) = Operand(Substituted(e[i].left, claims), s, << >>)
            /\ Operand(Substituted(e[i].right, claims), r, << >>) = Operand(Substituted(e[i].right, claims), s, << >>)
        BY <3>1
      <4> QED
        BY <4>1, <4>2 DEF SqlLeaf
    <3>4. CASE ~ (NamesIn(e[i], "principal") \subseteq DOMAIN claims)
      BY <3>4, UnfoldedLeafIsUndecided
    <3> QED
      BY <3>3, <3>4
  <2> QED
    BY <2>1, <2>2, <2>3 DEF Leaves
<1>2. Failing \in SUBSET DOMAIN e
  OBVIOUS
<1> HIDE DEF Failing
<1>3. Failing = {}
  BY <1>1, <1>2, NoNodeFails
<1> QED
  BY <1>3, FoldIsTree, Positions DEF Failing, SqlTruth

LEMMA UnreadIsShownAlike ==
    ASSUME NEW program, IsProgram(program), NEW caller, NEW on, NEW prop, IsUnread(program, on, prop),
           NEW r, IsShaped(on, r), NEW v
    PROVE  SqlShows(program, caller, on, Swapped(r, prop, v)) <=> SqlShows(program, caller, on, r)
<1>1. prop \in DOMAIN Props(on)
  BY MaskedIsNowhere DEF IsUnread
<1>2. ASSUME NEW p \in RowPolicies(program, on), NEW e \in p.rows
      PROVE  SqlTruth(Fold(e, ClaimsOf(caller)), Swapped(r, prop, v)) = SqlTruth(Fold(e, ClaimsOf(caller)), r)
  <2>1. IsTree(e) /\ \A i \in Leaves(e) : ComparisonFits(e[i], Props(on))
    BY RowExpressions
  <2>2. prop \notin Names(e, "object")
    BY DEF IsUnread
  <2>3. ASSUME NEW i \in Leaves(e), NEW x \in {e[i].left, e[i].right}, x.is = "object"
        PROVE  Swapped(r, prop, v)[x.name] = r[x.name]
    <3>1. x.name # prop
      BY <2>2, <2>3 DEF Names, NamesIn
    <3>2. Type("bad").kind = "bad"
      BY DEF Type
    <3>3. x.name \in DOMAIN Props(on)
      BY <2>1, <2>3, <3>2 DEF ComparisonFits, OperandType
    <3> QED
      BY <1>1, <3>1, <3>3, SwappedIs
  <2> QED
    BY <2>1, <2>3, UnreadTruth
<1> QED
  BY <1>2, SqlShowsIs

(* The rows of one alias with the property exchanged, and all others as they are. *)
Disguise(alias, prop, v, a, r) == IF a = alias THEN Swapped(r, prop, v) ELSE r

IsDisguise(c, alias, prop, v, from, other) ==
    \A a \in Among(Aliases(c)) :
        /\ IsFiniteSet(from[a])
        /\ a \in Governed => \A r \in from[a] : IsShaped(TableOf(c, a), r)
        /\ other[a] = {Disguise(alias, prop, v, a, r) : r \in from[a]}

(* What may be exchanged without a trace. *)
IsHidden(program, c, alias, prop) ==
    /\ IsProgram(program) /\ IsCompiled(program, c)
    /\ alias \in Governed /\ alias \in Among(Aliases(c))
    /\ IsUnread(program, TableOf(c, alias), prop)

LEMMA HiddenIsNowhere ==
    ASSUME NEW program, NEW c, NEW alias, NEW prop, IsHidden(program, c, alias, prop)
    PROVE  LET on == TableOf(c, alias)
           IN  /\ IsProgram(program) /\ IsCompiled(program, c) /\ IsUnread(program, on, prop)
               /\ on \in DOMAIN Objects /\ prop \in DOMAIN Props(on)
               /\ prop \in Masked(program, on)
               /\ prop # Key(on) /\ prop # Objects[on].semantic
               /\ [type |-> on, prop |-> prop] \notin LinkEnds
<1>1. /\ IsProgram(program) /\ IsCompiled(program, c) /\ IsUnread(program, TableOf(c, alias), prop)
  BY Zenon DEF IsHidden
<1>2. prop \in Masked(program, TableOf(c, alias))
  BY <1>1, Zenon DEF IsUnread
<1> QED
  BY <1>1, <1>2, MaskedIsNowhere, Zenon

LEMMA DisguisedElsewhere ==
    ASSUME NEW program, NEW c, NEW alias, NEW prop, IsHidden(program, c, alias, prop), NEW v,
           NEW a \in Among(Aliases(c)), NEW r, IsShaped(TableOf(c, a), r),
           NEW p \in DOMAIN Props(TableOf(c, a)), a = alias => p # prop
    PROVE  Disguise(alias, prop, v, a, r)[p] = r[p]
<1>1. a = alias => prop \in DOMAIN Props(TableOf(c, a))
  BY HiddenIsNowhere
<1> QED
  BY <1>1, SwappedIs DEF Disguise

LEMMA DisguiseTwice ==
    ASSUME NEW program, NEW c, NEW alias, NEW prop, IsHidden(program, c, alias, prop), NEW v,
           NEW from, NEW other, IsDisguise(c, alias, prop, v, from, other)
    PROVE  IsDisguise(c, alias, prop, v, other, from)
<1>1. prop \in DOMAIN Props(TableOf(c, alias)) /\ alias \in Governed
  <2>1. alias \in Governed
    BY Zenon DEF IsHidden
  <2> QED
    BY <2>1, HiddenIsNowhere
<1> SUFFICES ASSUME NEW a \in Among(Aliases(c))
             PROVE  /\ IsFiniteSet(other[a])
                    /\ a \in Governed => \A r \in other[a] : IsShaped(TableOf(c, a), r)
                    /\ from[a] = {Disguise(alias, prop, v, a, r) : r \in other[a]}
  BY Zenon DEF IsDisguise
<1>2. /\ IsFiniteSet(from[a])
      /\ a \in Governed => \A r \in from[a] : IsShaped(TableOf(c, a), r)
      /\ other[a] = {Disguise(alias, prop, v, a, r) : r \in from[a]}
  BY Zenon DEF IsDisguise
<1>3. CASE a # alias
  <2>1. other[a] = from[a]
    BY <1>2, <1>3 DEF Disguise
  <2>2. {Disguise(alias, prop, v, a, r) : r \in other[a]} = other[a]
    BY <1>3 DEF Disguise
  <2> QED
    BY <1>2, <2>1, <2>2, Zenon
<1>4. CASE a = alias
  <2>1. \A r \in from[a] : IsShaped(TableOf(c, a), r)
    BY <1>1, <1>2, <1>4
  <2>2. \A r \in from[a] : /\ Disguise(alias, prop, v, a, r) = Swapped(r, prop, v)
                           /\ IsShaped(TableOf(c, a), Swapped(r, prop, v))
                           /\ Disguise(alias, prop, v, a, Swapped(r, prop, v)) = r
    BY <1>1, <1>4, <2>1, SwappedIs DEF Disguise
  <2>3. other[a] = {Swapped(r, prop, v) : r \in from[a]}
    BY <1>2, <2>2
  <2>4. IsFiniteSet(other[a])
    <3> DEFINE f == [r \in from[a] |-> Swapped(r, prop, v)]
    <3>1. f \in Surjection(from[a], other[a])
      BY <2>3 DEF Surjection
    <3> QED
      BY <1>2, <3>1, FS_Surjection
  <2>5. \A r \in other[a] : IsShaped(TableOf(c, a), r)
    BY <2>2, <2>3
  <2>6. from[a] = {Disguise(alias, prop, v, a, r) : r \in other[a]}
    BY <2>2, <2>3
  <2> QED
    BY <2>4, <2>5, <2>6, Zenon
<1> QED
  BY <1>3, <1>4

LEMMA ShownDisguised ==
    ASSUME NEW program, NEW c, NEW alias, NEW prop, IsHidden(program, c, alias, prop), NEW v, NEW caller,
           NEW from, NEW other, IsDisguise(c, alias, prop, v, from, other)
    PROVE  IsDisguise(c, alias, prop, v, Shown(program, caller, c, from), Shown(program, caller, c, other))
<1> DEFINE S == Shown(program, caller, c, from)
           T == Shown(program, caller, c, other)
<1> SUFFICES ASSUME NEW a \in Among(Aliases(c))
             PROVE  /\ IsFiniteSet(S[a])
                    /\ a \in Governed => \A r \in S[a] : IsShaped(TableOf(c, a), r)
                    /\ T[a] = {Disguise(alias, prop, v, a, r) : r \in S[a]}
  BY Zenon DEF IsDisguise
<1>1. /\ IsFiniteSet(from[a])
      /\ a \in Governed => \A r \in from[a] : IsShaped(TableOf(c, a), r)
      /\ other[a] = {Disguise(alias, prop, v, a, r) : r \in from[a]}
  BY Zenon DEF IsDisguise
<1>2. /\ S[a] = {r \in from[a] : a \in Governed => SqlShows(program, caller, TableOf(c, a), r)}
      /\ T[a] = {r \in other[a] : a \in Governed => SqlShows(program, caller, TableOf(c, a), r)}
  BY DEF Shown, Among
<1> HIDE DEF S, T
<1>3. IsFiniteSet(S[a])
  BY <1>1, <1>2, FS_Subset
<1>4. \A r \in from[a] : a \in Governed =>
         (SqlShows(program, caller, TableOf(c, a), Disguise(alias, prop, v, a, r))
             <=> SqlShows(program, caller, TableOf(c, a), r))
  <2> SUFFICES ASSUME NEW r \in from[a], a \in Governed, a = alias
               PROVE  SqlShows(program, caller, TableOf(c, a), Swapped(r, prop, v))
                         <=> SqlShows(program, caller, TableOf(c, a), r)
    BY Zenon DEF Disguise
  <2>1. IsProgram(program) /\ IsUnread(program, TableOf(c, a), prop)
    BY HiddenIsNowhere
  <2> QED
    BY <1>1, <2>1, UnreadIsShownAlike, Zenon
<1>5. T[a] = {Disguise(alias, prop, v, a, r) : r \in S[a]}
  <2> DEFINE d == [r \in from[a] |-> Disguise(alias, prop, v, a, r)]
             shows(r) == a \in Governed => SqlShows(program, caller, TableOf(c, a), r)
  <2>1. other[a] = {d[r] : r \in from[a]} /\ \A r \in from[a] : shows(d[r]) <=> shows(r)
    BY <1>1, <1>4
  <2>2. S[a] = {r \in from[a] : shows(r)} /\ T[a] = {r \in other[a] : shows(r)}
    BY <1>2
  <2>3. T[a] = {d[r] : r \in S[a]}
    <3> HIDE DEF d, shows
    <3> QED
      BY <2>1, <2>2
  <2>4. \A r \in S[a] : d[r] = Disguise(alias, prop, v, a, r)
    BY <2>2
  <2> HIDE DEF d
  <2> QED
    BY <2>3, <2>4
<1> QED
  BY <1>1, <1>2, <1>3, <1>5, Zenon

(* What a call may read of a row: its key, its text, the ends of links and what *)
(* is not masked.                                                              *)
IsReadable(program, on, p) ==
    \/ p \notin Masked(program, on)
    \/ p \in {Key(on), Objects[on].semantic}
    \/ [type |-> on, prop |-> p] \in LinkEnds

KeepsReadable(program, on, r, s) ==
    \A p \in DOMAIN Props(on) : IsReadable(program, on, p) => s[p] = r[p]

LEMMA ReadIsKept ==
    ASSUME NEW program, NEW c, NEW alias, NEW prop, IsHidden(program, c, alias, prop), NEW v,
           NEW a \in Among(Aliases(c)), NEW r, IsShaped(TableOf(c, a), r)
    PROVE  KeepsReadable(program, TableOf(c, a), r, Disguise(alias, prop, v, a, r))
<1>1. SUFFICES ASSUME NEW p \in DOMAIN Props(TableOf(c, a)), IsReadable(program, TableOf(c, a), p)
               PROVE  Disguise(alias, prop, v, a, r)[p] = r[p]
  BY DEF KeepsReadable
<1>2. ASSUME a = alias
      PROVE  p # prop
  BY <1>1, <1>2, HiddenIsNowhere DEF IsReadable
<1> QED
  BY <1>2, DisguisedElsewhere

LEMMA FiltersAnswerAlike ==
    ASSUME NEW program, NEW on, NEW filters, \A f \in filters : FilterFits(program, on, f),
           NEW r, NEW s, \A p \in DOMAIN Props(on) : p \notin Masked(program, on) => r[p] = s[p]
    PROVE  Matches(on, filters, r) <=> Matches(on, filters, s)
<1>1. ASSUME NEW f \in filters
      PROVE  FilterTruth(on, f, r) = FilterTruth(on, f, s)
  <2>1. r[f.prop] = s[f.prop]
    BY Zenon DEF FilterFits
  <2> QED
    BY <2>1, Zenon DEF FilterTruth
<1> QED
  BY <1>1 DEF Matches

AreDisguised(alias, prop, v, a, rows, others) == others = {Disguise(alias, prop, v, a, r) : r \in rows}

LEMMA RemainingDisguised ==
    ASSUME NEW program, NEW c, NEW alias, NEW prop, IsHidden(program, c, alias, prop), NEW v,
           NEW S, NEW T, IsDisguise(c, alias, prop, v, S, T)
    PROVE  AreDisguised(alias, prop, v, "target", Remaining(c, S), Remaining(c, T))
<1> DEFINE d == [r \in S["target"] |-> Disguise(alias, prop, v, "target", r)]
           left(r) == Matches(TargetType(c), c.filters, r)
<1>1. IsCompiled(program, c)
  BY HiddenIsNowhere
<1>2. "target" \in Among(Aliases(c)) /\ "target" \in Governed /\ TableOf(c, "target") = TargetType(c)
  BY <1>1, AliasesAre, TablesAre DEF Governed
<1>3. T["target"] = {d[r] : r \in S["target"]} /\ \A r \in S["target"] : IsShaped(TargetType(c), r)
  BY <1>2 DEF IsDisguise
<1>4. ASSUME NEW r \in S["target"]
      PROVE  left(d[r]) <=> left(r)
  <2>1. \A p \in DOMAIN Props(TargetType(c)) :
           p \notin Masked(program, TargetType(c)) => d[r][p] = r[p]
    <3>1. IsShaped(TableOf(c, "target"), r)
      BY <1>2, <1>3, Zenon
    <3>2. KeepsReadable(program, TableOf(c, "target"), r, Disguise(alias, prop, v, "target", r))
      BY <1>2, <3>1, ReadIsKept, Zenon
    <3> QED
      BY <1>2, <3>2 DEF KeepsReadable, IsReadable
  <2>2. \A f \in c.filters : FilterFits(program, TargetType(c), f)
    BY <1>1 DEF IsCompiled
  <2> HIDE DEF d
  <2> QED
    BY <2>1, <2>2, FiltersAnswerAlike
<1>5. Remaining(c, S) = {r \in S["target"] : left(r)} /\ Remaining(c, T) = {r \in T["target"] : left(r)}
  BY DEF Remaining
<1>6. Remaining(c, T) = {d[r] : r \in Remaining(c, S)}
  <2> HIDE DEF d, left
  <2> QED
    BY <1>3, <1>4, <1>5
<1>7. \A r \in Remaining(c, S) : d[r] = Disguise(alias, prop, v, "target", r)
  BY <1>5
<1> HIDE DEF d
<1> QED
  BY <1>6, <1>7 DEF AreDisguised

LEMMA LinkedDisguised ==
    ASSUME NEW program, NEW c, NEW alias, NEW prop, IsHidden(program, c, alias, prop), NEW v,
           NEW S, NEW T, IsDisguise(c, alias, prop, v, S, T), Follows(c),
           NEW n \in Among(Aliases(c)), n \in Governed, TableOf(c, n) = Near(c).type,
           NEW m \in Among(Aliases(c)), m \in Governed, TableOf(c, m) = Far(c).type,
           NEW near \in S[n], NEW far \in S[m]
    PROVE  Linked(c, Disguise(alias, prop, v, n, near), Disguise(alias, prop, v, m, far), T)
              <=> Linked(c, near, far, S)
<1>1. IsCompiled(program, c)
  BY HiddenIsNowhere
<1>2. \A end \in {Near(c), Far(c)} :
         /\ [type |-> end.type, prop |-> end.prop] \in LinkEnds
         /\ end.prop \in DOMAIN Props(end.type)
  BY <1>1, EndsAre
<1>3. IsShaped(TableOf(c, n), near) /\ IsShaped(TableOf(c, m), far)
  BY Zenon DEF IsDisguise
<1>4. Disguise(alias, prop, v, n, near)[Near(c).prop] = near[Near(c).prop]
  <2>1. KeepsReadable(program, TableOf(c, n), near, Disguise(alias, prop, v, n, near))
    BY <1>3, ReadIsKept, Zenon
  <2> QED
    BY <1>2, <2>1, Zenon DEF KeepsReadable, IsReadable
<1>5. Disguise(alias, prop, v, m, far)[Far(c).prop] = far[Far(c).prop]
  <2>1. KeepsReadable(program, TableOf(c, m), far, Disguise(alias, prop, v, m, far))
    BY <1>3, ReadIsKept, Zenon
  <2> QED
    BY <1>2, <2>1, Zenon DEF KeepsReadable, IsReadable
<1>6. ASSUME Through(c)
      PROVE  T["through"] = S["through"]
  <2>1. "through" \in Among(Aliases(c)) /\ "through" # alias
    <3>1. "through" \in Among(Aliases(c))
      BY <1>1, <1>6, AliasesAre, Zenon
    <3>2. alias \in {"target", "source", "link"}
      BY Zenon DEF IsHidden, Governed
    <3> QED
      BY <3>1, <3>2
  <2>2. T["through"] = {Disguise(alias, prop, v, "through", r) : r \in S["through"]}
    BY <2>1, Zenon DEF IsDisguise
  <2> QED
    BY <2>1, <2>2 DEF Disguise
<1> QED
  BY <1>4, <1>5, <1>6, Zenon DEF Linked

KeepsRow(program, on, r, s) ==
    /\ KeepsReadable(program, on, r, s)
    /\ s[Key(on)] = r[Key(on)]
    /\ Objects[on].semantic # "" => s[Objects[on].semantic] = r[Objects[on].semantic]

KeepsRows(program, c, alias, prop, v, a, rows) ==
    /\ \A r \in rows : KeepsRow(program, TableOf(c, a), r, Disguise(alias, prop, v, a, r))
    /\ \A r, s \in rows : Disguise(alias, prop, v, a, r) = Disguise(alias, prop, v, a, s) => r = s

LEMMA RowsDisguised ==
    ASSUME NEW program, NEW c, NEW alias, NEW prop, IsHidden(program, c, alias, prop), NEW v,
           NEW S, NEW T, IsDisguise(c, alias, prop, v, S, T), NEW a \in Among(Aliases(c)), a \in Governed
    PROVE  KeepsRows(program, c, alias, prop, v, a, S[a])
<1> DEFINE on == TableOf(c, a)
<1>1. IsCompiled(program, c)
  BY HiddenIsNowhere
<1>2. on \in DOMAIN Objects
  BY <1>1, GovernedTables
<1>3. Key(on) \in DOMAIN Props(on) /\ Objects[on].semantic \in DOMAIN Props(on) \cup {""}
  BY <1>2, OntologyAssumption DEF OntologyAssumption
<1>4. \A r \in S[a] : IsShaped(on, r)
  BY Zenon DEF IsDisguise
<1>5. \A r \in S[a] : KeepsReadable(program, on, r, Disguise(alias, prop, v, a, r))
  BY <1>4, ReadIsKept, Zenon
<1>6. ASSUME NEW r \in S[a]
      PROVE  KeepsRow(program, on, r, Disguise(alias, prop, v, a, r))
  BY <1>3, <1>5 DEF KeepsRow, KeepsReadable, IsReadable
<1>7. ASSUME NEW r \in S[a], NEW s \in S[a], Disguise(alias, prop, v, a, r) = Disguise(alias, prop, v, a, s)
      PROVE  r = s
  <2>1. CASE a # alias
    BY <1>7, <2>1 DEF Disguise
  <2>2. CASE a = alias
    <3>1. prop \in DOMAIN Props(on)
      BY <2>2, HiddenIsNowhere
    <3>2. Swapped(r, prop, v) = Swapped(s, prop, v)
      BY <1>7, <2>2 DEF Disguise
    <3>3. Swapped(Swapped(r, prop, v), prop, v) = r /\ Swapped(Swapped(s, prop, v), prop, v) = s
      BY <1>4, <3>1, SwappedIs
    <3> QED
      BY <3>2, <3>3
  <2> QED
    BY <2>1, <2>2
<1> QED
  BY <1>6, <1>7, Zenon DEF KeepsRows

(* What is found among the rows shown, with the same rows disguised. *)
Carried(c, alias, prop, v, z) ==
    CASE c.op = "traverse" ->
            <<Disguise(alias, prop, v, "target", z[1]), Disguise(alias, prop, v, "source", z[2])>>
      [] c.op = "match" -> <<Disguise(alias, prop, v, "target", z[1]), z[2]>>
      [] OTHER -> <<Disguise(alias, prop, v, "target", z[1])>>

(* One row of the target at a time. *)
LEMMA RowsAre ==
    ASSUME NEW c, c.op \in {"get", "search", "list"}, NEW X
    PROVE  Answering(c, X) = {<<r>> : r \in {x \in Remaining(c, X) : c.op = "get" => Joins(x[Key(c.on)], c.key)}}
<1>1. CASE c.op = "get"
  <2>1. Answering(c, X) = {<<r>> : r \in {x \in Remaining(c, X) : Joins(x[Key(c.on)], c.key)}}
    BY <1>1, Zenon DEF Answering
  <2> QED
    BY <1>1, <2>1
<1>2. CASE c.op \in {"search", "list"}
  <2>1. c.op # "get"
    BY <1>2
  <2>2. Answering(c, X) = {<<r>> : r \in Remaining(c, X)}
    BY <1>2, <2>1, Zenon DEF Answering
  <2>3. {x \in Remaining(c, X) : c.op = "get" => Joins(x[Key(c.on)], c.key)} = Remaining(c, X)
    BY <2>1
  <2> QED
    BY <2>2, <2>3
<1> QED
  BY <1>1, <1>2

LEMMA RowsAnswerDisguised ==
    ASSUME NEW program, NEW c, NEW alias, NEW prop, IsHidden(program, c, alias, prop), NEW v,
           NEW S, NEW T, IsDisguise(c, alias, prop, v, S, T), c.op \in {"get", "search", "list"}
    PROVE  /\ Answering(c, T) = {Carried(c, alias, prop, v, z) : z \in Answering(c, S)}
           /\ \A z \in Answering(c, S) : z = <<z[1]>> /\ z[1] \in S["target"]
<1> DEFINE d == [r \in S["target"] |-> Disguise(alias, prop, v, "target", r)]
           takes(r) == c.op = "get" => Joins(r[Key(c.on)], c.key)
           all(X) == {r \in Remaining(c, X) : takes(r)}
<1>1. IsCompiled(program, c)
  BY HiddenIsNowhere
<1>2. "target" \in Among(Aliases(c)) /\ "target" \in Governed /\ TableOf(c, "target") = c.on
  BY <1>1, AliasesAre, TablesAre DEF Governed, TargetType
<1>3. \A r \in S["target"] : takes(d[r]) <=> takes(r)
  <2>1. \A r \in S["target"] : d[r][Key(c.on)] = r[Key(c.on)]
    <3>1. KeepsRows(program, c, alias, prop, v, "target", S["target"])
      BY <1>2, RowsDisguised, Zenon
    <3> QED
      BY <1>2, <3>1 DEF KeepsRows, KeepsRow
  <2> HIDE DEF d
  <2> QED
    BY <2>1, Zenon
<1>4. Remaining(c, S) \subseteq S["target"]
  BY DEF Remaining
<1>5. Remaining(c, T) = {d[r] : r \in Remaining(c, S)}
  <2>1. AreDisguised(alias, prop, v, "target", Remaining(c, S), Remaining(c, T))
    BY RemainingDisguised, Zenon
  <2>2. \A r \in Remaining(c, S) : d[r] = Disguise(alias, prop, v, "target", r)
    BY <1>4
  <2> HIDE DEF d
  <2> QED
    BY <2>1, <2>2 DEF AreDisguised
<1>6. all(T) = {d[r] : r \in all(S)}
  <2> HIDE DEF d, takes
  <2> QED
    BY <1>3, <1>4, <1>5
<1>7. /\ Answering(c, S) = {<<r>> : r \in all(S)}
      /\ Answering(c, T) = {<<r>> : r \in all(T)}
  BY RowsAre
<1>8. \A r \in S["target"] : Carried(c, alias, prop, v, <<r>>) = <<d[r]>>
  <2>1. c.op # "traverse" /\ c.op # "match"
    OBVIOUS
  <2> SUFFICES ASSUME NEW r \in S["target"]
               PROVE  Carried(c, alias, prop, v, <<r>>) = <<Disguise(alias, prop, v, "target", r)>>
    OBVIOUS
  <2>2. <<r>>[1] = r
    OBVIOUS
  <2> QED
    BY <2>1, <2>2, Zenon DEF Carried
<1>9. all(S) \subseteq S["target"]
  BY <1>4
<1> HIDE DEF d, all
<1>10. Answering(c, T) = {<<d[r]>> : r \in all(S)}
  BY <1>6, <1>7
<1>11. {Carried(c, alias, prop, v, z) : z \in Answering(c, S)} = {<<d[r]>> : r \in all(S)}
  <2>1. Answering(c, S) = {<<r>> : r \in all(S)}
    BY <1>7
  <2>2. {Carried(c, alias, prop, v, z) : z \in Answering(c, S)} = {Carried(c, alias, prop, v, <<r>>) : r \in all(S)}
    BY <2>1
  <2> QED
    BY <2>2, <1>8, <1>9
<1>12. \A z \in Answering(c, S) : z = <<z[1]>> /\ z[1] \in S["target"]
  BY <1>7, <1>9
<1> QED
  BY <1>10, <1>11, <1>12

(* Pairs whose sides are carried each by its own. *)
AreCarried(f, g, P, Q) == Q = {<<f[q[1]], g[q[2]]>> : q \in P}

LEMMA PairsCarried ==
    ASSUME NEW A, NEW B, NEW f, NEW g, NEW P \in SUBSET (A \X B),
           NEW Q \in SUBSET ({f[x] : x \in A} \X {g[y] : y \in B}),
           \A x \in A, y \in B : <<f[x], g[y]>> \in Q <=> <<x, y>> \in P
    PROVE  AreCarried(f, g, P, Q)
<1>1. ASSUME NEW q \in P
      PROVE  <<f[q[1]], g[q[2]]>> \in Q
  <2>1. q[1] \in A /\ q[2] \in B /\ q = <<q[1], q[2]>>
    OBVIOUS
  <2> QED
    BY <2>1
<1>2. ASSUME NEW r \in Q
      PROVE  \E q \in P : r = <<f[q[1]], g[q[2]]>>
  <2>1. PICK x \in A, y \in B : r = <<f[x], g[y]>>
    OBVIOUS
  <2>2. <<x, y>> \in P
    BY <2>1
  <2>3. <<x, y>>[1] = x /\ <<x, y>>[2] = y
    OBVIOUS
  <2> QED
    BY <2>1, <2>2, <2>3
<1> QED
  BY <1>1, <1>2 DEF AreCarried

LEMMA TraverseIs ==
    ASSUME NEW c, c.op = "traverse", NEW X
    PROVE  Answering(c, X) = {q \in Remaining(c, X) \X X["source"] :
              Joins(q[2][Key(c.on)], c.key) /\ Linked(c, q[2], q[1], X)}
<1> DEFINE P == {q \in Remaining(c, X) \X X["source"] :
                    Joins(q[2][Key(c.on)], c.key) /\ Linked(c, q[2], q[1], X)}
<1>1. Answering(c, X) = {<<p[1], p[2]>> : p \in P}
  <2>1. c.op # "get" /\ c.op \notin {"search", "list"}
    OBVIOUS
  <2> QED
    BY <2>1, Zenon DEF Answering
<1>2. \A p \in P : <<p[1], p[2]>> = p
  OBVIOUS
<1> HIDE DEF P
<1>3. Answering(c, X) = P
  BY <1>1, <1>2
<1> QED
  BY <1>3 DEF P

LEMMA TraverseDisguised ==
    ASSUME NEW program, NEW c, NEW alias, NEW prop, IsHidden(program, c, alias, prop), NEW v,
           NEW S, NEW T, IsDisguise(c, alias, prop, v, S, T), c.op = "traverse"
    PROVE  /\ Answering(c, T) = {Carried(c, alias, prop, v, z) : z \in Answering(c, S)}
           /\ \A z \in Answering(c, S) : z = <<z[1], z[2]>> /\ z[1] \in S["target"] /\ z[2] \in S["source"]
<1> DEFINE f == [r \in S["target"] |-> Disguise(alias, prop, v, "target", r)]
           g == [r \in S["source"] |-> Disguise(alias, prop, v, "source", r)]
           A == Remaining(c, S)
           B == S["source"]
           P == Answering(c, S)
           Q == Answering(c, T)
<1>1. IsCompiled(program, c) /\ Follows(c)
  BY HiddenIsNowhere DEF Follows
<1>2. /\ "target" \in Among(Aliases(c)) /\ "target" \in Governed
      /\ "source" \in Among(Aliases(c)) /\ "source" \in Governed
      /\ TableOf(c, "target") = Far(c).type /\ TableOf(c, "source") = c.on /\ Near(c).type = c.on
  BY <1>1, AliasesAre, TablesAre, EndsAre DEF Governed
<1>3. A \subseteq S["target"]
  BY DEF Remaining
<1>4. Remaining(c, T) = {f[x] : x \in A}
  <2>1. AreDisguised(alias, prop, v, "target", Remaining(c, S), Remaining(c, T))
    BY RemainingDisguised, Zenon
  <2> QED
    BY <1>3, <2>1 DEF AreDisguised
<1>5. T["source"] = {g[y] : y \in B}
  BY <1>2 DEF IsDisguise
<1>6. \A y \in B : g[y][Key(c.on)] = y[Key(c.on)]
  <2>1. KeepsRows(program, c, alias, prop, v, "source", S["source"])
    BY <1>2, RowsDisguised, Zenon
  <2> QED
    BY <1>2, <2>1 DEF KeepsRows, KeepsRow
<1>7. ASSUME NEW x \in A, NEW y \in B
      PROVE  Linked(c, g[y], f[x], T) <=> Linked(c, y, x, S)
  <2>1. Linked(c, Disguise(alias, prop, v, "source", y), Disguise(alias, prop, v, "target", x), T)
           <=> Linked(c, y, x, S)
    BY <1>1, <1>2, <1>3, LinkedDisguised, Zenon
  <2>2. f[x] = Disguise(alias, prop, v, "target", x) /\ g[y] = Disguise(alias, prop, v, "source", y)
    BY <1>3
  <2> HIDE DEF f, g
  <2> QED
    BY <2>1, <2>2, Zenon
<1>8. /\ P = {q \in A \X B : Joins(q[2][Key(c.on)], c.key) /\ Linked(c, q[2], q[1], S)}
      /\ Q = {q \in Remaining(c, T) \X T["source"] : Joins(q[2][Key(c.on)], c.key) /\ Linked(c, q[2], q[1], T)}
  BY TraverseIs
<1>9. ASSUME NEW z \in P
      PROVE  z = <<z[1], z[2]>> /\ z[1] \in A /\ z[2] \in B
  <2> HIDE DEF P, Q, A, B
  <2> QED
    BY <1>8, <1>9
<1>10. ASSUME NEW z \in P
       PROVE  Carried(c, alias, prop, v, z) = <<f[z[1]], g[z[2]]>>
  <2>1. f[z[1]] = Disguise(alias, prop, v, "target", z[1]) /\ g[z[2]] = Disguise(alias, prop, v, "source", z[2])
    BY <1>3, <1>9, <1>10
  <2> HIDE DEF f, g
  <2> QED
    BY <2>1, Zenon DEF Carried
<1> HIDE DEF f, g, A, B, P, Q
<1>11. Q = {<<f[z[1]], g[z[2]]>> : z \in P}
  <2>1. P \in SUBSET (A \X B) /\ Q \in SUBSET ({f[x] : x \in A} \X {g[y] : y \in B})
    BY <1>4, <1>5, <1>8
  <2>2. ASSUME NEW x \in A, NEW y \in B
        PROVE  <<f[x], g[y]>> \in Q <=> <<x, y>> \in P
    <3>1. <<f[x], g[y]>> \in Q <=> Joins(g[y][Key(c.on)], c.key) /\ Linked(c, g[y], f[x], T)
      BY <1>4, <1>5, <1>8
    <3>2. <<x, y>> \in P <=> Joins(y[Key(c.on)], c.key) /\ Linked(c, y, x, S)
      BY <1>8
    <3> QED
      BY <1>6, <1>7, <3>1, <3>2, Zenon
  <2>3. AreCarried(f, g, P, Q)
    BY <2>1, <2>2, PairsCarried, Zenon
  <2> QED
    BY <2>3 DEF AreCarried
<1>12. Q = {Carried(c, alias, prop, v, z) : z \in P}
  BY <1>10, <1>11
<1> QED
  BY <1>3, <1>9, <1>12 DEF P, Q, A, B

IsLinked(c, r, from) ==
    \E far \in from["link"] : Linked(c, r, far, from) /\ Matches(Far(c).type, c.via, far)

LEMMA MatchIs ==
    ASSUME NEW c, c.op = "match", NEW X
    PROVE  Answering(c, X) = {q \in Remaining(c, X) \X X["vectors"] :
              /\ Joins(q[1][Key(c.on)], q[2]["key"])
              /\ SqlSame(q[2]["model"], c.model) = "true"
              /\ c.link # "" => IsLinked(c, q[1], X)}
<1> DEFINE P == {q \in Remaining(c, X) \X X["vectors"] :
                    /\ Joins(q[1][Key(c.on)], q[2]["key"])
                    /\ SqlSame(q[2]["model"], c.model) = "true"
                    /\ c.link # "" => IsLinked(c, q[1], X)}
<1>1. Answering(c, X) = {<<p[1], p[2]>> : p \in P}
  <2>1. c.op # "get" /\ c.op \notin {"search", "list"} /\ c.op # "traverse"
    OBVIOUS
  <2>2. Answering(c, X) = Nearest(c, X)
    BY <2>1, Zenon DEF Answering
  <2> QED
    BY <2>2, Zenon DEF Nearest, IsLinked
<1>2. \A p \in P : <<p[1], p[2]>> = p
  <2>1. \A p \in Remaining(c, X) \X X["vectors"] : <<p[1], p[2]>> = p
    OBVIOUS
  <2> QED
    BY <2>1, Zenon
<1> HIDE DEF P
<1>3. Answering(c, X) = P
  BY <1>1, <1>2
<1> QED
  BY <1>3 DEF P

LEMMA IsLinkedDisguised ==
    ASSUME NEW program, NEW c, NEW alias, NEW prop, IsHidden(program, c, alias, prop), NEW v,
           NEW S, NEW T, IsDisguise(c, alias, prop, v, S, T), c.op = "match", c.link # "",
           NEW r \in S["target"]
    PROVE  IsLinked(c, Disguise(alias, prop, v, "target", r), T) <=> IsLinked(c, r, S)
<1> DEFINE on == Far(c).type
           d(far) == Disguise(alias, prop, v, "link", far)
<1>1. IsCompiled(program, c) /\ Follows(c)
  BY HiddenIsNowhere DEF Follows
<1>2. /\ "target" \in Among(Aliases(c)) /\ "target" \in Governed
      /\ "link" \in Among(Aliases(c)) /\ "link" \in Governed
      /\ TableOf(c, "target") = Near(c).type /\ TableOf(c, "link") = on
  BY <1>1, AliasesAre, TablesAre, EndsAre DEF Governed, TargetType
<1>3. T["link"] = {d(far) : far \in S["link"]}
  BY <1>2 DEF IsDisguise
<1>4. ASSUME NEW far \in S["link"]
      PROVE  Linked(c, Disguise(alias, prop, v, "target", r), d(far), T) <=> Linked(c, r, far, S)
  BY <1>1, <1>2, LinkedDisguised, Zenon
<1>5. ASSUME NEW far \in S["link"]
      PROVE  Matches(on, c.via, d(far)) <=> Matches(on, c.via, far)
  <2>1. KeepsRows(program, c, alias, prop, v, "link", S["link"])
    BY <1>2, RowsDisguised, Zenon
  <2>2. \A p \in DOMAIN Props(on) : p \notin Masked(program, on) => d(far)[p] = far[p]
    BY <1>2, <2>1 DEF KeepsRows, KeepsRow, KeepsReadable, IsReadable
  <2>3. \A f \in c.via : FilterFits(program, on, f)
    BY <1>1 DEF IsCompiled
  <2> HIDE DEF d, on
  <2> QED
    BY <2>2, <2>3, FiltersAnswerAlike
<1> HIDE DEF d
<1>6. IsLinked(c, Disguise(alias, prop, v, "target", r), T) <=>
         \E far \in S["link"] : Linked(c, Disguise(alias, prop, v, "target", r), d(far), T)
                                   /\ Matches(on, c.via, d(far))
  BY <1>3 DEF IsLinked
<1> QED
  BY <1>4, <1>5, <1>6, Zenon DEF IsLinked

LEMMA MatchDisguised ==
    ASSUME NEW program, NEW c, NEW alias, NEW prop, IsHidden(program, c, alias, prop), NEW v,
           NEW S, NEW T, IsDisguise(c, alias, prop, v, S, T), c.op = "match"
    PROVE  /\ Answering(c, T) = {Carried(c, alias, prop, v, z) : z \in Answering(c, S)}
           /\ \A z \in Answering(c, S) : z = <<z[1], z[2]>> /\ z[1] \in S["target"] /\ z[2] \in S["vectors"]
<1> DEFINE f == [r \in S["target"] |-> Disguise(alias, prop, v, "target", r)]
           g == [r \in S["vectors"] |-> r]
           A == Remaining(c, S)
           B == S["vectors"]
           P == Answering(c, S)
           Q == Answering(c, T)
           near(y) == SqlSame(y["model"], c.model) = "true"
           linked(x, X) == c.link # "" => IsLinked(c, x, X)
<1>1. IsCompiled(program, c)
  BY HiddenIsNowhere
<1>2. /\ "target" \in Among(Aliases(c)) /\ "target" \in Governed /\ "vectors" \in Among(Aliases(c))
      /\ TableOf(c, "target") = c.on
  BY <1>1, AliasesAre, TablesAre DEF Governed, TargetType
<1>3. A \subseteq S["target"]
  BY DEF Remaining
<1>4. Remaining(c, T) = {f[x] : x \in A}
  <2>1. AreDisguised(alias, prop, v, "target", Remaining(c, S), Remaining(c, T))
    BY RemainingDisguised, Zenon
  <2> QED
    BY <1>3, <2>1 DEF AreDisguised
<1>5. T["vectors"] = {g[y] : y \in B} /\ \A y \in B : g[y] = y
  <2>1. alias # "vectors"
    BY Zenon DEF IsHidden, Governed
  <2>2. T["vectors"] = {Disguise(alias, prop, v, "vectors", r) : r \in S["vectors"]}
    BY <1>2 DEF IsDisguise
  <2> QED
    BY <2>1, <2>2 DEF Disguise
<1>6. \A x \in A : f[x][Key(c.on)] = x[Key(c.on)]
  <2>1. KeepsRows(program, c, alias, prop, v, "target", S["target"])
    BY <1>2, RowsDisguised, Zenon
  <2> QED
    BY <1>2, <1>3, <2>1 DEF KeepsRows, KeepsRow
<1>7. ASSUME NEW x \in A
      PROVE  linked(f[x], T) <=> linked(x, S)
  <2>1. c.link # "" => (IsLinked(c, Disguise(alias, prop, v, "target", x), T) <=> IsLinked(c, x, S))
    BY <1>3, IsLinkedDisguised, Zenon
  <2>2. f[x] = Disguise(alias, prop, v, "target", x)
    BY <1>3
  <2> HIDE DEF f
  <2> QED
    BY <2>1, <2>2, Zenon
<1>8. /\ P = {q \in A \X B : /\ Joins(q[1][Key(c.on)], q[2]["key"])
                             /\ near(q[2])
                             /\ linked(q[1], S)}
      /\ Q = {q \in Remaining(c, T) \X T["vectors"] : /\ Joins(q[1][Key(c.on)], q[2]["key"])
                                                      /\ near(q[2])
                                                      /\ linked(q[1], T)}
  BY MatchIs
<1>9. ASSUME NEW z \in P
      PROVE  z = <<z[1], z[2]>> /\ z[1] \in A /\ z[2] \in B
  <2> HIDE DEF P, Q, A, B, near, linked
  <2> QED
    BY <1>8, <1>9
<1>10. ASSUME NEW z \in P
       PROVE  Carried(c, alias, prop, v, z) = <<f[z[1]], g[z[2]]>>
  <2>1. f[z[1]] = Disguise(alias, prop, v, "target", z[1]) /\ g[z[2]] = z[2]
    BY <1>3, <1>9, <1>10
  <2>2. c.op # "traverse"
    OBVIOUS
  <2> HIDE DEF f, g
  <2> QED
    BY <2>1, <2>2, Zenon DEF Carried
<1> HIDE DEF f, g, A, B, P, Q, near, linked
<1>11. Q = {<<f[z[1]], g[z[2]]>> : z \in P}
  <2>1. P \in SUBSET (A \X B) /\ Q \in SUBSET ({f[x] : x \in A} \X {g[y] : y \in B})
    BY <1>4, <1>5, <1>8
  <2>2. ASSUME NEW x \in A, NEW y \in B
        PROVE  <<f[x], g[y]>> \in Q <=> <<x, y>> \in P
    <3>1. <<f[x], g[y]>> \in Q <=> Joins(f[x][Key(c.on)], g[y]["key"]) /\ near(g[y]) /\ linked(f[x], T)
      BY <1>4, <1>5, <1>8
    <3>2. <<x, y>> \in P <=> Joins(x[Key(c.on)], y["key"]) /\ near(y) /\ linked(x, S)
      BY <1>8
    <3>3. f[x][Key(c.on)] = x[Key(c.on)] /\ g[y] = y
      BY <1>5, <1>6
    <3> QED
      BY <1>7, <3>1, <3>2, <3>3, Zenon
  <2>3. AreCarried(f, g, P, Q)
    BY <2>1, <2>2, PairsCarried, Zenon
  <2> QED
    BY <2>3 DEF AreCarried
<1>12. Q = {Carried(c, alias, prop, v, z) : z \in P}
  BY <1>10, <1>11
<1> QED
  BY <1>3, <1>9, <1>12 DEF P, Q, A, B

LEMMA AnsweringIsFinite ==
    ASSUME NEW program, NEW c, IsCompiled(program, c), NEW X, \A a \in Among(Aliases(c)) : IsFiniteSet(X[a])
    PROVE  IsFiniteSet(Answering(c, X))
<1>1. IsFiniteSet(X["target"]) /\ IsFiniteSet(Remaining(c, X))
  <2>1. IsFiniteSet(X["target"])
    BY AliasesAre
  <2>2. Remaining(c, X) \subseteq X["target"]
    BY DEF Remaining
  <2> QED
    BY <2>1, <2>2, FS_Subset
<1>2. CASE c.op \in {"get", "search", "list"}
  <2> DEFINE R == {x \in Remaining(c, X) : c.op = "get" => Joins(x[Key(c.on)], c.key)}
             f == [r \in R |-> <<r>>]
  <2>1. IsFiniteSet(R)
    BY <1>1, FS_Subset
  <2>2. Answering(c, X) = {<<r>> : r \in R}
    BY <1>2, RowsAre
  <2> HIDE DEF R
  <2>3. f \in Surjection(R, Answering(c, X))
    BY <2>2 DEF Surjection
  <2> QED
    BY <2>1, <2>3, FS_Surjection
<1>3. CASE c.op = "traverse"
  <2>1. IsFiniteSet(X["source"])
    BY <1>3, AliasesAre
  <2>2. IsFiniteSet(Remaining(c, X) \X X["source"])
    BY <1>1, <2>1, FS_Product
  <2>3. Answering(c, X) \subseteq Remaining(c, X) \X X["source"]
    BY <1>3, TraverseIs
  <2> QED
    BY <2>2, <2>3, FS_Subset
<1>4. CASE c.op = "match"
  <2>1. IsFiniteSet(X["vectors"])
    BY <1>4, AliasesAre
  <2>2. IsFiniteSet(Remaining(c, X) \X X["vectors"])
    BY <1>1, <2>1, FS_Product
  <2>3. Answering(c, X) \subseteq Remaining(c, X) \X X["vectors"]
    <3> DEFINE all == Remaining(c, X) \X X["vectors"]
               takes(q) == /\ Joins(q[1][Key(c.on)], q[2]["key"])
                           /\ SqlSame(q[2]["model"], c.model) = "true"
                           /\ c.link # "" => IsLinked(c, q[1], X)
    <3>1. Answering(c, X) = {q \in all : takes(q)}
      BY <1>4, MatchIs
    <3> HIDE DEF all, takes
    <3>2. Answering(c, X) \subseteq all
      BY <3>1
    <3> QED
      BY <3>2 DEF all
  <2> QED
    BY <2>2, <2>3, FS_Subset
<1> QED
  BY <1>2, <1>3, <1>4 DEF IsCompiled, Ops

IsCarried(c, alias, prop, v, S, T) ==
    /\ Answering(c, T) = {Carried(c, alias, prop, v, z) : z \in Answering(c, S)}
    /\ \A z \in Answering(c, S) :
          /\ z[1] \in S["target"]
          /\ c.op = "traverse" => z = <<z[1], z[2]>> /\ z[2] \in S["source"]
          /\ c.op = "match" => z = <<z[1], z[2]>>
          /\ c.op \notin {"traverse", "match"} => z = <<z[1]>>

LEMMA AnsweringDisguised ==
    ASSUME NEW program, NEW c, NEW alias, NEW prop, IsHidden(program, c, alias, prop), NEW v,
           NEW S, NEW T, IsDisguise(c, alias, prop, v, S, T)
    PROVE  IsCarried(c, alias, prop, v, S, T)
<1>1. c.op \in Ops
  BY HiddenIsNowhere DEF IsCompiled
<1>2. CASE c.op \in {"get", "search", "list"}
  <2>1. /\ Answering(c, T) = {Carried(c, alias, prop, v, z) : z \in Answering(c, S)}
        /\ \A z \in Answering(c, S) : z = <<z[1]>> /\ z[1] \in S["target"]
    BY <1>2, RowsAnswerDisguised, Zenon
  <2> QED
    BY <1>2, <2>1 DEF IsCarried
<1>3. CASE c.op = "traverse"
  <2>1. /\ Answering(c, T) = {Carried(c, alias, prop, v, z) : z \in Answering(c, S)}
        /\ \A z \in Answering(c, S) : z = <<z[1], z[2]>> /\ z[1] \in S["target"] /\ z[2] \in S["source"]
    BY <1>3, TraverseDisguised, Zenon
  <2> QED
    BY <1>3, <2>1 DEF IsCarried
<1>4. CASE c.op = "match"
  <2>1. /\ Answering(c, T) = {Carried(c, alias, prop, v, z) : z \in Answering(c, S)}
        /\ \A z \in Answering(c, S) : z = <<z[1], z[2]>> /\ z[1] \in S["target"] /\ z[2] \in S["vectors"]
    BY <1>4, MatchDisguised, Zenon
  <2> QED
    BY <1>4, <2>1 DEF IsCarried
<1> QED
  BY <1>1, <1>2, <1>3, <1>4 DEF Ops

IsAlike(program, c, carry, found) ==
    /\ \A x, y \in found : carry[x] = carry[y] => x = y
    /\ \A x, y \in found : Precedes(c, carry[x], carry[y]) <=> Precedes(c, x, y)
    /\ \A x \in found : Projected(program, c, carry[x]) = Projected(program, c, x)

(* Nothing of an answer tells the rows from the disguised ones. *)
LEMMA CarriedIsAlike ==
    ASSUME NEW program, NEW c, NEW alias, NEW prop, IsHidden(program, c, alias, prop), NEW v,
           NEW S, NEW T, IsDisguise(c, alias, prop, v, S, T)
    PROVE  IsAlike(program, c, [z \in Answering(c, S) |-> Carried(c, alias, prop, v, z)], Answering(c, S))
<1> DEFINE found == Answering(c, S)
           carry == [z \in found |-> Carried(c, alias, prop, v, z)]
           on == TargetType(c)
<1>1. IsCompiled(program, c)
  BY HiddenIsNowhere
<1>2. IsCarried(c, alias, prop, v, S, T)
  BY AnsweringDisguised, Zenon
<1>3. /\ "target" \in Among(Aliases(c)) /\ "target" \in Governed /\ TableOf(c, "target") = on
      /\ c.op = "traverse" => "source" \in Among(Aliases(c)) /\ "source" \in Governed
  BY <1>1, AliasesAre, TablesAre DEF Governed
<1>4. KeepsRows(program, c, alias, prop, v, "target", S["target"])
  BY <1>3, RowsDisguised, Zenon
<1>5. c.op = "traverse" => KeepsRows(program, c, alias, prop, v, "source", S["source"])
  BY <1>3, RowsDisguised, Zenon
<1>6. ASSUME NEW z \in found
      PROVE  /\ z[1] \in S["target"]
             /\ carry[z][1] = Disguise(alias, prop, v, "target", z[1])
             /\ c.op = "traverse" => carry[z][2] = Disguise(alias, prop, v, "source", z[2])
             /\ c.op = "match" => carry[z][2] = z[2]
  <2>1. z[1] \in S["target"] /\ carry[z] = Carried(c, alias, prop, v, z)
    BY <1>2 DEF IsCarried
  <2> HIDE DEF carry
  <2>2. CASE c.op = "traverse"
    <3>1. carry[z] = <<Disguise(alias, prop, v, "target", z[1]), Disguise(alias, prop, v, "source", z[2])>>
      BY <2>1, <2>2, Zenon DEF Carried
    <3> QED
      BY <2>1, <2>2, <3>1
  <2>3. CASE c.op = "match"
    <3>0. c.op # "traverse"
      BY <2>3
    <3>1. carry[z] = <<Disguise(alias, prop, v, "target", z[1]), z[2]>>
      BY <2>1, <2>3, <3>0, Zenon DEF Carried
    <3> QED
      BY <2>1, <2>3, <3>0, <3>1
  <2>4. CASE c.op \notin {"traverse", "match"}
    <3>0. c.op # "traverse" /\ c.op # "match"
      BY <2>4
    <3>1. carry[z] = <<Disguise(alias, prop, v, "target", z[1])>>
      BY <2>1, <3>0, Zenon DEF Carried
    <3> QED
      BY <2>1, <3>0, <3>1
  <2> QED
    BY <2>2, <2>3, <2>4
<1>7. ASSUME NEW z \in found
      PROVE  KeepsRow(program, on, z[1], carry[z][1])
  BY <1>3, <1>4, <1>6 DEF KeepsRows
<1>8. ASSUME NEW x \in found, NEW y \in found, carry[x] = carry[y]
      PROVE  x = y
  <2>1. x[1] = y[1]
    <3>1. Disguise(alias, prop, v, "target", x[1]) = Disguise(alias, prop, v, "target", y[1])
      BY <1>6, <1>8
    <3> QED
      BY <1>4, <1>6, <3>1, Zenon DEF KeepsRows
  <2>2. ASSUME c.op = "traverse"
        PROVE  x[2] = y[2]
    <3>1. Disguise(alias, prop, v, "source", x[2]) = Disguise(alias, prop, v, "source", y[2])
      BY <1>6, <1>8, <2>2
    <3>2. x[2] \in S["source"] /\ y[2] \in S["source"]
      BY <1>2, <2>2 DEF IsCarried
    <3> QED
      BY <1>5, <2>2, <3>1, <3>2, Zenon DEF KeepsRows
  <2>3. ASSUME c.op = "match"
        PROVE  x[2] = y[2]
    BY <1>6, <1>8, <2>3
  <2> QED
    BY <1>2, <2>1, <2>2, <2>3 DEF IsCarried
<1> HIDE DEF carry, found
<1>9. ASSUME NEW x \in found, NEW y \in found
      PROVE  Precedes(c, carry[x], carry[y]) <=> Precedes(c, x, y)
  <2>1. carry[x][1][Key(on)] = x[1][Key(on)] /\ carry[y][1][Key(on)] = y[1][Key(on)]
    BY <1>7 DEF KeepsRow
  <2>2. c.op = "match" => carry[x][2] = x[2] /\ carry[y][2] = y[2]
    BY <1>6
  <2> QED
    BY <2>1, <2>2 DEF Precedes
<1>10. ASSUME NEW x \in found
       PROVE  Projected(program, c, carry[x]) = Projected(program, c, x)
  <2>1. KeepsRow(program, on, x[1], carry[x][1])
    BY <1>7
  <2>2. \A p \in DOMAIN Props(on) \ Masked(program, on) : carry[x][1][p] = x[1][p]
    BY <2>1 DEF KeepsRow, KeepsReadable, IsReadable
  <2>3. c.op = "match" => /\ carry[x][2] = x[2]
                          /\ carry[x][1][Objects[on].semantic] = x[1][Objects[on].semantic]
    <3>1. c.op = "match" => Objects[on].semantic # ""
      BY <1>1 DEF IsCompiled, TargetType
    <3> QED
      BY <1>6, <2>1, <3>1 DEF KeepsRow
  <2> QED
    BY <2>2, <2>3 DEF Projected
<1> QED
  BY <1>8, <1>9, <1>10 DEF IsAlike, carry, found

-----------------------------------------------------------------------------
(* Pages of an answer. *)

Skipped(c) == IF c.op = "get" THEN 0 ELSE c.offset
PageLength(c, n) ==
    IF c.op = "get" THEN n
    ELSE IF n <= c.offset THEN 0 ELSE IF c.offset + PageSize(c) < n THEN PageSize(c) ELSE n - c.offset

LEMMA PagedIs ==
    ASSUME NEW program, NEW c, IsCompiled(program, c), NEW R, NEW s \in Seq(R)
    PROVE  /\ Paged(c, s) \in Seq(R)
           /\ Len(Paged(c, s)) = PageLength(c, Len(s))
           /\ \A i \in 1..Len(Paged(c, s)) : i + Skipped(c) \in 1..Len(s) /\ Paged(c, s)[i] = s[i + Skipped(c)]
<1>1. CASE c.op = "get"
  BY <1>1 DEF Paged, Skipped, PageLength
<1>2. CASE c.op # "get"
  <2> DEFINE size == PageSize(c)
             last == IF c.offset + size < Len(s) THEN c.offset + size ELSE Len(s)
             page == SubSeq(s, c.offset + 1, last)
  <2>1. size \in Nat /\ size > 0 /\ c.offset \in Nat
    <3>1. PageSize(c) \in 1..MaxPage /\ c.offset \in Nat
      BY Zenon DEF IsCompiled
    <3>2. MaxPage \in Nat
      BY OntologyAssumption, Zenon DEF OntologyAssumption
    <3> QED
      BY <3>1, <3>2
  <2>2. Paged(c, s) = page /\ Skipped(c) = c.offset
    BY <1>2 DEF Paged, Skipped
  <2>3. PageLength(c, Len(s)) =
           IF Len(s) <= c.offset THEN 0 ELSE IF c.offset + size < Len(s) THEN size ELSE Len(s) - c.offset
    BY <1>2 DEF PageLength
  <2> HIDE DEF size
  <2>4. last \in Int /\ c.offset + 1 \in Int /\ \A i \in (c.offset + 1)..last : i \in 1..Len(s) /\ s[i] \in R
    BY <2>1
  <2> HIDE DEF last
  <2>5. /\ page \in Seq(R)
        /\ Len(page) = IF c.offset + 1 <= last THEN last - (c.offset + 1) + 1 ELSE 0
        /\ \A i \in 1..(last - (c.offset + 1) + 1) : page[i] = s[(c.offset + 1) + i - 1]
    BY <2>4, SubSeqProperties
  <2> HIDE DEF page
  <2>6. Len(page) = PageLength(c, Len(s))
    BY <2>1, <2>3, <2>5 DEF last
  <2>7. \A i \in 1..Len(page) : i + c.offset \in 1..Len(s) /\ page[i] = s[i + c.offset]
    <3> SUFFICES ASSUME NEW i \in 1..Len(page)
                 PROVE  i + c.offset \in 1..Len(s) /\ page[i] = s[i + c.offset]
      OBVIOUS
    <3>1. c.offset + 1 <= last /\ i \in 1..(last - (c.offset + 1) + 1)
      BY <2>1, <2>4, <2>5
    <3>2. page[i] = s[(c.offset + 1) + i - 1] /\ (c.offset + 1) + i - 1 = i + c.offset
      BY <2>1, <2>5, <3>1
    <3>3. i + c.offset \in (c.offset + 1)..last
      BY <2>1, <2>4, <3>1
    <3> QED
      BY <2>4, <3>2, <3>3
  <2> QED
    BY <2>2, <2>5, <2>6, <2>7
<1> QED
  BY <1>1, <1>2

(* A ranking of rows and the same of rows nothing tells from them answer alike. *)
IsAnsweredAlike(program, c, s, carry) ==
    Result(program, c, [i \in DOMAIN s |-> carry[s[i]]]) = Result(program, c, s)

LEMMA ResultCarried ==
    ASSUME NEW program, NEW c, IsCompiled(program, c), NEW rows, NEW s \in Seq(rows), NEW carry,
           IsAlike(program, c, carry, rows)
    PROVE  IsAnsweredAlike(program, c, s, carry)
<1> DEFINE t == [i \in DOMAIN s |-> carry[s[i]]]
           others == {carry[x] : x \in rows}
           page == Paged(c, s)
           paget == Paged(c, t)
<1>1. t \in Seq(others) /\ Len(t) = Len(s) /\ \A i \in 1..Len(s) : s[i] \in rows /\ t[i] = carry[s[i]]
  OBVIOUS
<1> HIDE DEF t, others
<1>2. /\ page \in Seq(rows) /\ Len(page) = PageLength(c, Len(s))
      /\ \A i \in 1..Len(page) : i + Skipped(c) \in 1..Len(s) /\ page[i] = s[i + Skipped(c)]
  BY PagedIs
<1>3. /\ paget \in Seq(others) /\ Len(paget) = PageLength(c, Len(t))
      /\ \A i \in 1..Len(paget) : i + Skipped(c) \in 1..Len(t) /\ paget[i] = t[i + Skipped(c)]
  BY <1>1, PagedIs
<1> HIDE DEF page, paget
<1>4. Len(paget) = Len(page) /\ DOMAIN paget = DOMAIN page
  BY <1>1, <1>2, <1>3
<1>5. \A i \in DOMAIN page : page[i] \in rows /\ paget[i] = carry[page[i]]
  BY <1>1, <1>2, <1>3, <1>4
<1>6. \A i \in DOMAIN page : Projected(program, c, paget[i]) = Projected(program, c, page[i])
  BY <1>5 DEF IsAlike
<1>7. [i \in DOMAIN paget |-> Projected(program, c, paget[i])] = [i \in DOMAIN page |-> Projected(program, c, page[i])]
  BY <1>4, <1>6
<1>8. CASE c.op = "get" /\ Len(s) > 1
  BY <1>1, <1>8 DEF Result, t, IsAnsweredAlike
<1>9. CASE ~ (c.op = "get" /\ Len(s) > 1)
  <2>1. Result(program, c, s) = [status |-> "rows",
                                 rows |-> [i \in DOMAIN page |-> Projected(program, c, page[i])],
                                 more |-> c.op # "get" /\ Len(page) = PageSize(c)]
    BY <1>9 DEF Result, page
  <2>2. Result(program, c, t) = [status |-> "rows",
                                 rows |-> [i \in DOMAIN paget |-> Projected(program, c, paget[i])],
                                 more |-> c.op # "get" /\ Len(paget) = PageSize(c)]
    BY <1>1, <1>9 DEF Result, paget
  <2> QED
    BY <1>4, <1>7, <2>1, <2>2 DEF t, IsAnsweredAlike
<1> QED
  BY <1>8, <1>9

LEMMA AnswersDisguised ==
    ASSUME NEW program, NEW c, NEW alias, NEW prop, IsHidden(program, c, alias, prop), NEW v, NEW caller,
           NEW from, NEW other, IsDisguise(c, alias, prop, v, from, other)
    PROVE  Answers(program, caller, c, from) \subseteq Answers(program, caller, c, other)
<1> DEFINE S == Shown(program, caller, c, from)
           T == Shown(program, caller, c, other)
           rows == Answering(c, S)
           others == Answering(c, T)
           carry == [z \in rows |-> Carried(c, alias, prop, v, z)]
<1>1. IsCompiled(program, c)
  BY HiddenIsNowhere
<1>2. IsDisguise(c, alias, prop, v, S, T)
  BY ShownDisguised, Zenon
<1>3. IsFiniteSet(rows)
  <2>1. \A a \in Among(Aliases(c)) : IsFiniteSet(S[a])
    BY <1>2, Zenon DEF IsDisguise
  <2> HIDE DEF S
  <2> QED
    BY <1>1, <2>1, AnsweringIsFinite, Zenon
<1>4. IsAlike(program, c, carry, rows)
  <2> HIDE DEF S, T
  <2> QED
    BY <1>2, CarriedIsAlike, Zenon
<1>5. IsCarried(c, alias, prop, v, S, T)
  <2> HIDE DEF S, T
  <2> QED
    BY <1>2, AnsweringDisguised, Zenon
<1>6. others = {carry[x] : x \in rows}
  BY <1>5 DEF IsCarried
<1> HIDE DEF S, T, rows, others, carry
<1>7. Carries(c, rows, others, carry)
  BY <1>4, <1>6, Zenon DEF Carries, IsAlike
<1>8. ASSUME NEW s \in Rankings(c, rows)
      PROVE  \E t \in Rankings(c, others) : Result(program, c, t) = Result(program, c, s)
  <2>1. [i \in DOMAIN s |-> carry[s[i]]] \in Rankings(c, others)
    BY <1>3, <1>7, RankingsCarry, Zenon
  <2>2. s \in Seq(rows)
    BY <1>3, RankingsRankAll
  <2>3. Result(program, c, [i \in DOMAIN s |-> carry[s[i]]]) = Result(program, c, s)
    <3>1. IsAnsweredAlike(program, c, s, carry)
      BY <1>1, <1>4, <2>2, ResultCarried, Zenon
    <3> QED
      BY <3>1 DEF IsAnsweredAlike
  <2> QED
    BY <2>1, <2>3, Zenon
<1>9. /\ Answers(program, caller, c, from) = {Result(program, c, s) : s \in Rankings(c, rows)}
      /\ Answers(program, caller, c, other) = {Result(program, c, s) : s \in Rankings(c, others)}
  BY DEF Answers, rows, others, S, T
<1> QED
  BY <1>8, <1>9

-----------------------------------------------------------------------------
(* What is always so of the serving process. *)

(* Every table is the deployment's or another writer's, and every one of its   *)
(* columns is there.                                                           *)
IsDeployed ==
    \E c \in Cases :
        /\ Serves(c.program)
        /\ case = [program |-> c.program, caller |-> c.caller, tables |-> c.tables, calls |-> case.calls]
        /\ case.calls \subseteq c.calls
        /\ DOMAIN table = DOMAIN c.tables
        /\ \A t \in DOMAIN table : IsTable(t, table[t])

(* What a call reads is there to be scanned. *)
IsAsked ==
    /\ IsCompiled(case.program, call)
    /\ \A a \in Among(Aliases(call)) : TableOf(call, a) \in DOMAIN table

(* Of the aliases of a call, those not left to scan hold what a scan of a table *)
(* of this call's time brought back, however they were registered before.      *)
IsScanned ==
    /\ pending \in Seq(Among(pending))
    /\ Among(pending) \cup DOMAIN seen = Among(Aliases(call))
    /\ \A a \in DOMAIN seen :
          /\ IsTable(TableOf(call, a), seen[a])
          /\ a \in DOMAIN con /\ con[a] \in Fetched(call, a, seen[a])

IsExecuted == pending = << >> /\ answer \in Answers(case.program, case.caller, call, con)

IsServing ==
    \/ call = NoCall /\ answer = NoAnswer /\ pending = << >>
    \/ answer = Refused /\ pending = << >>
    \/ IsAsked /\ IsScanned /\ (answer = NoAnswer \/ IsExecuted)

Serving == IsDeployed /\ IsServing

LEMMA TablesThere ==
    ASSUME NEW program, NEW caller, NEW c, NEW tables, Compiles(program, caller, c, tables), IsCompiled(program, c),
           DOMAIN Objects \cup {l \in DOMAIN Links : Links[l].through} \subseteq DOMAIN tables
    PROVE  \A a \in Among(Aliases(c)) : TableOf(c, a) \in DOMAIN tables
<1> SUFFICES ASSUME NEW a \in Among(Aliases(c))
             PROVE  TableOf(c, a) \in DOMAIN tables
  OBVIOUS
<1>1. a \in {"target", "source", "through", "vectors", "link"}
  <2>1. Aliases(c) \in Seq({"target", "source", "through", "vectors", "link"})
    BY AliasesAre, Zenon
  <2> QED
    BY <2>1 DEF Among
<1>2. CASE a \in Governed
  BY <1>2, GovernedTables
<1>3. CASE a = "through"
  <2>1. Follows(c) /\ Through(c)
    <3>1. "through" \in Among(Aliases(c)) <=> Follows(c) /\ Through(c)
      BY AliasesAre, Zenon
    <3> QED
      BY <1>3, <3>1, Zenon
  <2>2. c.link \in DOMAIN Links
    BY <2>1, EndsAre, Zenon
  <2>3. Links[c.link].through
    BY <2>1, Zenon DEF Through
  <2>4. c.link \in {l \in DOMAIN Links : Links[l].through}
    BY <2>2, <2>3, Zenon
  <2> QED
    BY <1>3, <2>4, TablesAre
<1>4. CASE a = "vectors"
  <2>1. c.op = "match"
    BY <1>4, AliasesAre
  <2>2. Objects[c.on].vectors \in DOMAIN tables
    BY <2>1, Zenon DEF Compiles, Rankable
  <2> QED
    BY <1>4, <2>2, TablesAre
<1> QED
  BY <1>1, <1>2, <1>3, <1>4 DEF Governed

LEMMA AmongHeadAndTail ==
    ASSUME NEW s, s \in Seq(Among(s)), s # << >>
    PROVE  /\ Tail(s) \in Seq(Among(Tail(s)))
           /\ Among(s) = {Head(s)} \cup Among(Tail(s))
<1>1. /\ Len(s) \in Nat \ {0} /\ DOMAIN s = 1..Len(s) /\ Head(s) = s[1]
      /\ Len(Tail(s)) = Len(s) - 1 /\ DOMAIN Tail(s) = 1..(Len(s) - 1)
      /\ Tail(s) \in Seq(Among(s))
      /\ \A i \in 1..(Len(s) - 1) : Tail(s)[i] = s[i + 1]
  OBVIOUS
<1>2. Tail(s) \in Seq(Among(Tail(s)))
  <2> DEFINE t == Tail(s)
  <2>1. t \in Seq(Among(s))
    BY <1>1
  <2> HIDE DEF t
  <2>2. t \in Seq(Among(t))
    BY <2>1 DEF Among
  <2> QED
    BY <2>2 DEF t
<1>3. \A i \in DOMAIN s : s[i] \in {Head(s)} \cup Among(Tail(s))
  <2> SUFFICES ASSUME NEW i \in DOMAIN s, i # 1
               PROVE  s[i] \in Among(Tail(s))
    BY <1>1
  <2>1. i - 1 \in DOMAIN Tail(s) /\ Tail(s)[i - 1] = s[i]
    BY <1>1
  <2> QED
    BY <2>1 DEF Among
<1>4. Among(Tail(s)) \subseteq Among(s) /\ Head(s) \in Among(s)
  BY <1>1 DEF Among
<1> QED
  BY <1>2, <1>3, <1>4 DEF Among

LEMMA DeployedCase ==
    ASSUME IsDeployed
    PROVE  /\ IsProgram(case.program)
           /\ case = [program |-> case.program, caller |-> case.caller, tables |-> case.tables, calls |-> case.calls]
           /\ case.caller = [attested |-> case.caller.attested, token |-> case.caller.token]
           /\ DOMAIN Objects \cup {l \in DOMAIN Links : Links[l].through} \subseteq DOMAIN table
           /\ \A t \in DOMAIN table : IsTable(t, table[t])
           /\ \A c \in case.calls : c.op \in Ops /\ c.offset \in Int
<1>1. PICK c \in Cases :
        /\ Serves(c.program)
        /\ case = [program |-> c.program, caller |-> c.caller, tables |-> c.tables, calls |-> case.calls]
        /\ case.calls \subseteq c.calls
        /\ DOMAIN table = DOMAIN c.tables
        /\ \A t \in DOMAIN table : IsTable(t, table[t])
  BY Zenon DEF IsDeployed
<1>2. /\ \A p \in c.program : \A e \in p.rows \cup p.when : IsExpression(e)
      /\ \A p \in c.program : \A e, f \in p.rows : e = f
      /\ c.caller = [attested |-> c.caller.attested, token |-> c.caller.token]
      /\ DOMAIN Objects \cup {l \in DOMAIN Links : Links[l].through} \subseteq DOMAIN c.tables
      /\ \A d \in c.calls : d.op \in Ops /\ d.offset \in Int
  BY CasesAssumption, Zenon DEF CasesAssumption, Ops
<1>3. case.program = c.program /\ case.caller = c.caller /\ case.tables = c.tables
  <2> DEFINE calls == case.calls
  <2>1. case = [program |-> c.program, caller |-> c.caller, tables |-> c.tables, calls |-> calls]
    BY <1>1
  <2> HIDE DEF calls
  <2> QED
    BY <2>1
<1>4. IsProgram(case.program)
  BY <1>1, <1>2, <1>3, Zenon DEF IsProgram
<1>5. \A d \in case.calls : d.op \in Ops /\ d.offset \in Int
  BY <1>1, <1>2
<1> QED
  BY <1>1, <1>2, <1>3, <1>4, <1>5, Zenon

LEMMA InitServes ==
    ASSUME Init
    PROVE  Serving
<1>1. PICK c \in Cases : Serves(c.program) /\ case = c /\ table = c.tables
  BY Zenon DEF Init
<1>2. /\ c = [program |-> c.program, caller |-> c.caller, tables |-> c.tables, calls |-> c.calls]
      /\ \A t \in DOMAIN c.tables : IsTable(t, c.tables[t])
  BY CasesAssumption, Zenon DEF CasesAssumption
<1>3. IsDeployed
  <2>1. case.calls \subseteq c.calls
    BY <1>1
  <2>2. case = [program |-> c.program, caller |-> c.caller, tables |-> c.tables, calls |-> case.calls]
    BY <1>1, <1>2, Zenon
  <2> QED
    BY <1>1, <1>2, <2>1, <2>2, Zenon DEF IsDeployed
<1>4. call = NoCall /\ answer = NoAnswer /\ pending = << >>
  BY Zenon DEF Init
<1> QED
  BY <1>3, <1>4, Zenon DEF Serving, IsServing

LEMMA AskServes ==
    ASSUME Serving, NEW c \in case.calls, Ask(c)
    PROVE  Serving'
<1>1. IsDeployed
  BY Zenon DEF Serving
<1>2. /\ case' = [case EXCEPT !.calls = @ \ {c}]
      /\ call' = c /\ seen' = << >> /\ UNCHANGED <<table, con>>
  BY Zenon DEF Ask
<1>3. /\ case'.calls \subseteq case.calls /\ case'.program = case.program
      /\ case' = [program |-> case.program, caller |-> case.caller, tables |-> case.tables, calls |-> case'.calls]
  <2> DEFINE program == case.program
             caller == case.caller
             tables == case.tables
             calls == case.calls
  <2>1. case = [program |-> program, caller |-> caller, tables |-> tables, calls |-> calls]
    BY <1>1, DeployedCase, Zenon
  <2>2. case' = [case EXCEPT !.calls = calls \ {c}]
    BY <1>2
  <2> HIDE DEF program, caller, tables, calls
  <2>3. /\ case'.calls = calls \ {c} /\ case'.program = program
        /\ case' = [program |-> program, caller |-> caller, tables |-> tables, calls |-> case'.calls]
    BY <2>1, <2>2
  <2> QED
    BY <2>3 DEF program, caller, tables, calls
<1>4. IsDeployed'
  <2>1. PICK d \in Cases :
          /\ Serves(d.program)
          /\ case = [program |-> d.program, caller |-> d.caller, tables |-> d.tables, calls |-> case.calls]
          /\ case.calls \subseteq d.calls
          /\ DOMAIN table = DOMAIN d.tables
          /\ \A t \in DOMAIN table : IsTable(t, table[t])
    BY <1>1, Zenon DEF IsDeployed
  <2>2. case.program = d.program /\ case.caller = d.caller /\ case.tables = d.tables
    <3> DEFINE calls == case.calls
    <3>1. case = [program |-> d.program, caller |-> d.caller, tables |-> d.tables, calls |-> calls]
      BY <2>1
    <3> HIDE DEF calls
    <3> QED
      BY <3>1
  <2>3. /\ case' = [program |-> d.program, caller |-> d.caller, tables |-> d.tables, calls |-> case'.calls]
        /\ case'.calls \subseteq d.calls
        /\ table' = table
    BY <1>2, <1>3, <2>1, <2>2
  <2> QED
    BY <2>1, <2>3, Zenon DEF IsDeployed
<1>5. CASE Compiles(case.program, case.caller, c, table) /\ pending' = Aliases(c) /\ answer' = NoAnswer
  <2>1. IsCompiled(case.program, c)
    BY <1>1, <1>5, DeployedCase, CompilesIs, Zenon
  <2>2. \A a \in Among(Aliases(c)) : TableOf(c, a) \in DOMAIN table
    BY <1>1, <1>5, <2>1, DeployedCase, TablesThere, Zenon
  <2>3. IsAsked'
    BY <1>2, <1>3, <2>1, <2>2, Zenon DEF IsAsked
  <2>4. Aliases(c) \in Seq(Among(Aliases(c)))
    <3>1. Aliases(c) \in Seq({"target", "source", "through", "vectors", "link"})
      BY <2>1, AliasesAre
    <3> QED
      BY <3>1 DEF Among
  <2>5. IsScanned'
    <3>1. pending' = Aliases(c) /\ call' = c /\ seen' = << >> /\ DOMAIN seen' = {}
      BY <1>2, <1>5
    <3>2. Among(pending') \cup DOMAIN seen' = Among(Aliases(call')) /\ pending' \in Seq(Among(pending'))
      BY <2>4, <3>1
    <3>3. \A a \in DOMAIN seen' : a \in {}
      BY <3>1
    <3> QED
      BY <3>2, <3>3, Zenon DEF IsScanned
  <2> QED
    BY <1>4, <1>5, <2>3, <2>5, Zenon DEF Serving, IsServing
<1>6. CASE pending' = << >> /\ answer' = Refused
  BY <1>4, <1>6, Zenon DEF Serving, IsServing
<1> QED
  BY <1>5, <1>6, Zenon DEF Ask

LEMMA ScanServes ==
    ASSUME Serving, Scan
    PROVE  Serving'
<1>1. IsDeployed /\ IsAsked /\ IsScanned /\ answer = NoAnswer /\ pending # << >>
  BY Zenon DEF Serving, IsServing, IsExecuted, Scan
<1>2. UNCHANGED <<case, table, call, answer>> /\ pending' = Tail(pending)
  BY Zenon DEF Scan
<1> DEFINE alias == Head(pending)
           rows == table[TableOf(call, alias)]
<1>3. PICK fetched \in Fetched(call, alias, rows) : con' = Registered(con, alias, fetched)
  BY Zenon DEF Scan
<1>4. seen' = Registered(seen, alias, rows)
  BY Zenon DEF Scan
<1>5. /\ pending' \in Seq(Among(pending')) /\ Among(pending) = {alias} \cup Among(pending')
      /\ Among(pending) \cup DOMAIN seen = Among(Aliases(call))
  BY <1>1, <1>2, AmongHeadAndTail DEF IsScanned
<1>6. IsTable(TableOf(call, alias), rows)
  <2>1. TableOf(call, alias) \in DOMAIN table
    BY <1>1, <1>5 DEF IsAsked
  <2> QED
    BY <1>1, <2>1, DeployedCase, Zenon
<1> HIDE DEF alias, rows
<1>7. /\ DOMAIN seen' = {alias} \cup DOMAIN seen
      /\ \A a \in DOMAIN seen' : seen'[a] = IF a = alias THEN rows ELSE seen[a]
  BY <1>4 DEF Registered
<1>8. /\ DOMAIN con' = {alias} \cup DOMAIN con
      /\ \A a \in DOMAIN con' : con'[a] = IF a = alias THEN fetched ELSE con[a]
  BY <1>3 DEF Registered
<1>9. IsScanned'
  <2>1. Among(pending') \cup DOMAIN seen' = Among(Aliases(call'))
    BY <1>2, <1>5, <1>7
  <2>2. ASSUME NEW a \in DOMAIN seen'
        PROVE  IsTable(TableOf(call', a), seen'[a]) /\ a \in DOMAIN con' /\ con'[a] \in Fetched(call', a, seen'[a])
    <3>0. call' = call
      BY <1>2
    <3>1. CASE a = alias
      <4>1. seen'[a] = rows /\ a \in DOMAIN con' /\ con'[a] = fetched
        BY <1>7, <1>8, <3>1
      <4> QED
        BY <1>6, <3>0, <3>1, <4>1, Zenon
    <3>2. CASE a # alias
      <4>1. a \in DOMAIN seen /\ seen'[a] = seen[a]
        BY <1>7, <2>2, <3>2
      <4>2. IsTable(TableOf(call, a), seen[a]) /\ a \in DOMAIN con /\ con[a] \in Fetched(call, a, seen[a])
        BY <1>1, <4>1, Zenon DEF IsScanned
      <4>3. a \in DOMAIN con' /\ con'[a] = con[a]
        BY <1>8, <3>2, <4>2
      <4> QED
        BY <3>0, <4>1, <4>2, <4>3, Zenon
    <3> QED
      BY <3>1, <3>2
  <2> QED
    BY <1>5, <2>1, <2>2, Zenon DEF IsScanned
<1>10. IsDeployed' /\ IsAsked' /\ answer' = NoAnswer
  <2>1. case' = case /\ table' = table /\ call' = call /\ answer' = answer
    BY <1>2
  <2> QED
    BY <1>1, <2>1, Zenon DEF IsDeployed, IsAsked
<1> QED
  BY <1>9, <1>10, Zenon DEF Serving, IsServing

LEMMA ExecuteServes ==
    ASSUME Serving, Execute
    PROVE  Serving'
<1>1. IsDeployed /\ IsAsked /\ IsScanned /\ pending = << >>
  <2>1. call # NoCall /\ answer = NoAnswer /\ pending = << >>
    BY Zenon DEF Execute
  <2>2. NoAnswer # Refused
    BY DEF NoAnswer, Refused
  <2> QED
    BY <2>1, <2>2, Zenon DEF Serving, IsServing
<1>2. /\ case' = case /\ table' = table /\ con' = con /\ call' = call /\ seen' = seen /\ pending' = pending
      /\ answer' \in Answers(case.program, case.caller, call, con)
  BY Zenon DEF Execute
<1> QED
  BY <1>1, <1>2, Zenon DEF Serving, IsServing, IsDeployed, IsAsked, IsScanned, IsExecuted

LEMMA EditServes ==
    ASSUME Serving, NEW e \in Edits, Edit(e)
    PROVE  Serving'
<1>1. /\ case' = case /\ con' = con /\ call' = call /\ seen' = seen /\ pending' = pending /\ answer' = answer
      /\ e.table \in DOMAIN table /\ table' = [table EXCEPT ![e.table] = e.rows]
  BY Zenon DEF Edit
<1>2. DOMAIN table' = DOMAIN table /\ \A t \in DOMAIN table : table'[t] = IF t = e.table THEN e.rows ELSE table[t]
  BY <1>1
<1>3. IsDeployed /\ IsServing /\ IsTable(e.table, e.rows)
  BY CasesAssumption, Zenon DEF Serving, CasesAssumption
<1>4. \A t \in DOMAIN table' : IsTable(t, table'[t])
  BY <1>2, <1>3, DeployedCase, Zenon
<1>5. IsDeployed'
  BY <1>1, <1>2, <1>3, <1>4, Zenon DEF IsDeployed
<1>6. IsServing'
  BY <1>1, <1>2, <1>3, Zenon DEF IsServing, IsAsked, IsScanned, IsExecuted
<1> QED
  BY <1>5, <1>6, Zenon DEF Serving

(* What a call is answered from was read while it was being answered, of the   *)
(* tables as they then were, whatever other calls left on the connection.      *)
THEOREM ServingAlways == Spec => []Serving
<1>1. Init => Serving
  BY InitServes
<1>2. Serving /\ [Next]_vars => Serving'
  <2> SUFFICES ASSUME Serving, [Next]_vars
               PROVE  Serving'
    OBVIOUS
  <2>1. CASE \E c \in case.calls : Ask(c)
    BY <2>1, AskServes
  <2>2. CASE Scan
    BY <2>2, ScanServes
  <2>3. CASE Execute
    BY <2>3, ExecuteServes
  <2>4. CASE \E e \in Edits : Edit(e)
    BY <2>4, EditServes
  <2>5. CASE UNCHANGED vars
    BY <2>5, Zenon DEF vars, Serving, IsServing, IsDeployed, IsAsked, IsScanned, IsExecuted
  <2> QED
    BY <2>1, <2>2, <2>3, <2>4, <2>5, Zenon DEF Next
<1> QED
  BY <1>1, <1>2, PTL DEF Spec

LEMMA AnsweredIs ==
    ASSUME Serving, Answered
    PROVE  /\ IsDeployed /\ IsAsked /\ IsScanned
           /\ answer \in Answers(case.program, case.caller, call, con)
           /\ DOMAIN seen = Among(Aliases(call))
<1>1. answer # NoAnswer /\ answer # Refused
  BY DEF Answered, NoAnswer, Refused
<1>2. /\ IsDeployed /\ IsAsked /\ IsScanned
      /\ pending = << >> /\ answer \in Answers(case.program, case.caller, call, con)
  BY <1>1, Zenon DEF Serving, IsServing, IsExecuted
<1>3. Among(pending) = {}
  BY <1>2 DEF Among
<1>4. Among(pending) \cup DOMAIN seen = Among(Aliases(call))
  BY <1>2, Zenon DEF IsScanned
<1>5. DOMAIN seen = Among(Aliases(call))
  BY <1>3, <1>4
<1> QED
  BY <1>2, <1>5, Zenon

(* The rows a call saw are rows of their types. *)
LEMMA SeenAre ==
    ASSUME Serving, Answered, NEW a \in DOMAIN seen
    PROVE  /\ IsFiniteSet(seen[a])
           /\ a \in Governed => TableOf(call, a) \in DOMAIN Objects /\ \A r \in seen[a] : IsRow(TableOf(call, a), r)
<1>1. IsTable(TableOf(call, a), seen[a]) /\ IsCompiled(case.program, call) /\ a \in Among(Aliases(call))
  BY AnsweredIs, Zenon DEF IsScanned, IsAsked
<1>2. a \in Governed => TableOf(call, a) \in DOMAIN Objects
  <2>1. a \in Governed => a \in Among(Aliases(call)) \cap Governed
    BY <1>1
  <2> QED
    BY <1>1, <2>1, GovernedTables, Zenon
<1> QED
  BY <1>1, <1>2, Zenon DEF IsTable

-----------------------------------------------------------------------------
(* A token that carries a claim less never shows a row more: each of its       *)
(* predicates and guards answers the same or is left undecided, an undecided   *)
(* guard applies its policy, and an undecided predicate shows nothing.         *)
THEOREM MissingClaimShowsNoMoreHolds == Spec => []MissingClaimShowsNoMore
<1>1. Serving => MissingClaimShowsNoMore
  <2>1. SUFFICES ASSUME Serving, Answered, case.caller.attested, NEW c \in DOMAIN case.caller.token,
                        NEW on, NEW row,
                        SqlShows(case.program,
                                 [case.caller EXCEPT !.token = [d \in DOMAIN case.caller.token \ {c} |-> case.caller.token[d]]],
                                 on, row)
                 PROVE  SqlShows(case.program, case.caller, on, row)
    BY Zenon DEF MissingClaimShowsNoMore
  <2> DEFINE caller == case.caller
             token == caller.token
             fewer == [d \in DOMAIN token \ {c} |-> token[d]]
             less == [caller EXCEPT !.token = fewer]
  <2>2. IsProgram(case.program) /\ caller = [attested |-> caller.attested, token |-> caller.token]
    BY <2>1, DeployedCase, Zenon DEF Serving
  <2>3. caller.attested /\ SqlShows(case.program, less, on, row)
    BY <2>1
  <2> HIDE DEF caller
  <2>4. less = [attested |-> caller.attested, token |-> fewer]
    <3> DEFINE is == caller.attested
               has == caller.token
    <3>1. caller = [attested |-> is, token |-> has]
      BY <2>2
    <3> HIDE DEF is, has, fewer
    <3>2. less = [attested |-> is, token |-> fewer]
      BY <3>1
    <3> QED
      BY <3>2 DEF is
  <2>5. ClaimsOf(less) = ReadableClaims(fewer) /\ ClaimsOf(caller) = ReadableClaims(token)
    <3>1. less.attested = caller.attested /\ less.token = fewer
      BY <2>4
    <3> HIDE DEF less, fewer, token
    <3>2. ClaimsOf(less) = ReadableClaims(fewer)
      BY <2>3, <3>1, Zenon DEF ClaimsOf
    <3>3. ClaimsOf(caller) = ReadableClaims(token)
      BY <2>3, Zenon DEF ClaimsOf, token
    <3> QED
      BY <3>2, <3>3
  <2>6. DOMAIN fewer \subseteq DOMAIN token /\ \A d \in DOMAIN fewer : fewer[d] = token[d]
    OBVIOUS
  <2> HIDE DEF less, fewer, token
  <2>7. Restricts(ReadableClaims(fewer), ReadableClaims(token))
    BY <2>6 DEF Restricts, ReadableClaims
  <2> QED
    BY <2>2, <2>3, <2>5, <2>7, FewerClaimsShowNoMore, Zenon DEF caller
<1> QED
  BY <1>1, ServingAlways, PTL

-----------------------------------------------------------------------------
(* No call answers otherwise for what a mask withholds: the rows with the      *)
(* values exchanged are shown, filtered, joined, ordered and projected alike,  *)
(* so every ranking of the one has its counterpart among the other's.          *)
THEOREM MaskedIsUnreadableAlways == Spec => []MaskedIsUnreadable
<1>1. Serving => MaskedIsUnreadable
  <2>1. SUFFICES ASSUME Serving, Answered, NEW alias \in DOMAIN seen \cap Governed,
                        NEW prop \in Withheld(TableOf(call, alias)), NEW v
                 PROVE  Answers(case.program, case.caller, call, Registered(seen, alias, Disguised(seen[alias], prop, v)))
                           = Answers(case.program, case.caller, call, seen)
    BY Zenon DEF MaskedIsUnreadable
  <2> DEFINE other == Registered(seen, alias, Disguised(seen[alias], prop, v))
  <2>2. IsHidden(case.program, call, alias, prop)
    <3>1. IsProgram(case.program) /\ IsCompiled(case.program, call)
      BY <2>1, AnsweredIs, DeployedCase, Zenon DEF IsAsked
    <3>2. alias \in Governed /\ alias \in Among(Aliases(call))
      BY <2>1, AnsweredIs
    <3>3. IsUnread(case.program, TableOf(call, alias), prop)
      <4> DEFINE on == TableOf(call, alias)
      <4>1. /\ prop \in Masked(case.program, on)
            /\ prop \notin UNION {Names(e, "object") : e \in UNION {p.rows : p \in RowPolicies(case.program, on)}}
        BY <2>1, Zenon DEF Withheld
      <4> HIDE DEF on
      <4>2. \A p \in RowPolicies(case.program, on) : \A e \in p.rows : prop \notin Names(e, "object")
        BY <4>1
      <4> QED
        BY <4>1, <4>2, Zenon DEF IsUnread, on
    <3> QED
      BY <3>1, <3>2, <3>3, Zenon DEF IsHidden
  <2>3. IsDisguise(call, alias, prop, v, seen, other)
    <3> SUFFICES ASSUME NEW a \in Among(Aliases(call))
                 PROVE  /\ IsFiniteSet(seen[a])
                        /\ a \in Governed => \A r \in seen[a] : IsShaped(TableOf(call, a), r)
                        /\ other[a] = {Disguise(alias, prop, v, a, r) : r \in seen[a]}
      BY Zenon DEF IsDisguise
    <3>1. a \in DOMAIN seen
      BY <2>1, AnsweredIs
    <3>2. IsFiniteSet(seen[a]) /\ (a \in Governed => \A r \in seen[a] : IsShaped(TableOf(call, a), r))
      BY <2>1, <3>1, SeenAre, Zenon DEF IsRow, IsShaped
    <3>3. other[a] = IF a = alias THEN Disguised(seen[alias], prop, v) ELSE seen[a]
      BY <3>1 DEF Registered
    <3> HIDE DEF other
    <3>4. CASE a = alias
      <4>1. {Disguise(alias, prop, v, a, r) : r \in seen[a]} = {Swapped(r, prop, v) : r \in seen[a]}
        BY <3>4 DEF Disguise
      <4>2. other[a] = {Swapped(r, prop, v) : r \in seen[a]}
        BY <3>3, <3>4 DEF Disguised
      <4> QED
        BY <3>2, <4>1, <4>2, Zenon
    <3>5. CASE a # alias
      <4>1. {Disguise(alias, prop, v, a, r) : r \in seen[a]} = seen[a]
        BY <3>5 DEF Disguise
      <4> QED
        BY <3>2, <3>3, <3>5, <4>1, Zenon
    <3> QED
      BY <3>4, <3>5, Zenon
  <2> HIDE DEF other
  <2>4. IsDisguise(call, alias, prop, v, other, seen)
    BY <2>2, <2>3, DisguiseTwice, Zenon
  <2>5. Answers(case.program, case.caller, call, seen) \subseteq Answers(case.program, case.caller, call, other)
    BY <2>2, <2>3, AnswersDisguised, Zenon
  <2>6. Answers(case.program, case.caller, call, other) \subseteq Answers(case.program, case.caller, call, seen)
    BY <2>2, <2>4, AnswersDisguised, Zenon
  <2> QED
    BY <2>5, <2>6 DEF other
<1> QED
  BY <1>1, ServingAlways, PTL

-----------------------------------------------------------------------------
(* The equalities a scan carries lose no row of the answer: the query asks     *)
(* each of them again.                                                         *)

Meets(c, alias, r) == \A h \in Pushed(c, alias) : SqlSame(r[h.prop], h.value) = "true"

IsNarrowed(c, X, Y) == \A a \in Among(Aliases(c)) : Y[a] = {r \in X[a] : Meets(c, a, r)}

LEMMA HintsAreMet ==
    ASSUME NEW on, NEW filters, NEW r, Matches(on, filters, r), NEW h \in Hints(on, filters)
    PROVE  SqlSame(r[h.prop], h.value) = "true"
<1>1. PICK f \in filters :
         /\ Operator(Props(on)[f.prop], f.op) = "eq"
         /\ h = [prop |-> f.prop, value |-> CHOOSE v \in f.values : TRUE]
  BY DEF Hints
<1> DEFINE value == CHOOSE v \in f.values : TRUE
<1>2. FilterTruth(on, f, r) = "true"
  BY Zenon DEF Matches
<1>3. FilterTruth(on, f, r) = SqlCompare(SqlOp("eq"), r[f.prop], value)
  BY <1>1, Zenon DEF FilterTruth
<1>4. SqlOp("eq") = "=="
  BY DEF SqlOp
<1>5. SqlCompare("==", r[f.prop], value) = SqlSame(r[f.prop], value)
  <2>1. "==" \notin Orderings
    BY DEF Orderings
  <2> QED
    BY <2>1, Zenon DEF SqlCompare
<1>6. h.prop = f.prop /\ h.value = value
  BY <1>1
<1> QED
  BY <1>2, <1>3, <1>4, <1>5, <1>6, Zenon

LEMMA PushedAre ==
    ASSUME NEW c, c.op \in Ops
    PROVE  /\ c.op = "get" => Pushed(c, "target") = {[prop |-> Key(c.on), value |-> c.key]}
           /\ c.op \in {"search", "match"} => Pushed(c, "target") = Hints(c.on, c.filters)
           /\ c.op \in {"list", "traverse"} => Pushed(c, "target") = {}
           /\ Pushed(c, "source") = {[prop |-> Key(c.on), value |-> c.key]}
           /\ Pushed(c, "vectors") = {[prop |-> "model", value |-> c.model]}
           /\ Pushed(c, "link") = Hints(Far(c).type, c.via)
           /\ Pushed(c, "through") = {}
<1>1. c.op = "get" => Pushed(c, "target") = {[prop |-> Key(c.on), value |-> c.key]}
  BY Zenon DEF Pushed
<1>2. c.op \in {"search", "match"} => Pushed(c, "target") = Hints(c.on, c.filters)
  <2>1. c.op \in {"search", "match"} => c.op # "get"
    OBVIOUS
  <2> QED
    BY <2>1, Zenon DEF Pushed
<1>3. c.op \in {"list", "traverse"} => Pushed(c, "target") = {}
  <2>1. c.op \in {"list", "traverse"} => c.op # "get" /\ c.op \notin {"search", "match"}
    OBVIOUS
  <2> QED
    BY <2>1, Zenon DEF Pushed
<1>4. Pushed(c, "source") = {[prop |-> Key(c.on), value |-> c.key]}
  BY Zenon DEF Pushed
<1>5. Pushed(c, "vectors") = {[prop |-> "model", value |-> c.model]}
  BY Zenon DEF Pushed
<1>6. Pushed(c, "link") = Hints(Far(c).type, c.via)
  BY Zenon DEF Pushed
<1>7. Pushed(c, "through") = {}
  BY Zenon DEF Pushed
<1> QED
  BY <1>1, <1>2, <1>3, <1>4, <1>5, <1>6, <1>7, Zenon

(* The target rows the filters leave, a get's key among them, meet what is pushed. *)
LEMMA TargetMeets ==
    ASSUME NEW c, c.op \in Ops, NEW r, Matches(TargetType(c), c.filters, r),
           c.op = "get" => Joins(r[Key(c.on)], c.key)
    PROVE  Meets(c, "target", r)
<1>1. CASE c.op = "get"
  <2>1. SqlSame(r[Key(c.on)], c.key) = "true"
    BY <1>1, Zenon DEF Joins
  <2>2. Pushed(c, "target") = {[prop |-> Key(c.on), value |-> c.key]}
    BY <1>1, PushedAre
  <2> QED
    BY <2>1, <2>2 DEF Meets
<1>2. CASE c.op \in {"search", "match"}
  <2>1. c.op # "traverse"
    BY <1>2
  <2>2. TargetType(c) = c.on
    BY <2>1, Zenon DEF TargetType
  <2>3. Pushed(c, "target") = Hints(c.on, c.filters)
    BY <1>2, PushedAre, Zenon
  <2>4. Matches(c.on, c.filters, r)
    BY <2>2, Zenon
  <2> QED
    BY <2>3, <2>4, HintsAreMet, Zenon DEF Meets
<1>3. CASE c.op \in {"list", "traverse"}
  BY <1>3, PushedAre, Zenon DEF Meets
<1> QED
  BY <1>1, <1>2, <1>3 DEF Ops

LEMMA RemainingNarrowed ==
    ASSUME NEW c, c.op \in Ops, c.op # "get", NEW X, NEW Y, Y["target"] = {r \in X["target"] : Meets(c, "target", r)}
    PROVE  Remaining(c, Y) = Remaining(c, X)
<1>1. \A r : Matches(TargetType(c), c.filters, r) => Meets(c, "target", r)
  BY TargetMeets
<1> DEFINE matches(r) == Matches(TargetType(c), c.filters, r)
           meets(r) == Meets(c, "target", r)
<1>2. /\ Remaining(c, X) = {r \in X["target"] : matches(r)}
      /\ Remaining(c, Y) = {r \in Y["target"] : matches(r)}
      /\ Y["target"] = {r \in X["target"] : meets(r)}
      /\ \A r : matches(r) => meets(r)
  BY <1>1 DEF Remaining
<1> HIDE DEF matches, meets
<1> QED
  BY <1>2

LEMMA LinkedNarrowed ==
    ASSUME NEW program, NEW c, IsCompiled(program, c), Follows(c), NEW X, NEW Y, IsNarrowed(c, X, Y),
           NEW near, NEW far
    PROVE  Linked(c, near, far, Y) <=> Linked(c, near, far, X)
<1>1. CASE Through(c)
  <2>1. "through" \in Among(Aliases(c))
    <3>1. "through" \in Among(Aliases(c)) <=> Follows(c) /\ Through(c)
      BY AliasesAre, Zenon
    <3> QED
      BY <1>1, <3>1, Zenon
  <2>2. c.op \in Ops
    BY Zenon DEF IsCompiled
  <2>3. \A r : Meets(c, "through", r)
    <3>1. Pushed(c, "through") = {}
      BY <2>2, PushedAre
    <3> QED
      BY <3>1 DEF Meets
  <2>4. Y["through"] = {r \in X["through"] : Meets(c, "through", r)}
    BY <2>1, Zenon DEF IsNarrowed
  <2>5. Y["through"] = X["through"]
    <3> DEFINE meets(r) == Meets(c, "through", r)
    <3>1. Y["through"] = {r \in X["through"] : meets(r)} /\ \A r : meets(r)
      BY <2>3, <2>4
    <3> HIDE DEF meets
    <3> QED
      BY <3>1
  <2> QED
    BY <1>1, <2>5, Zenon DEF Linked
<1>2. CASE ~ Through(c)
  BY <1>2, Zenon DEF Linked
<1> QED
  BY <1>1, <1>2

LEMMA IsLinkedNarrowed ==
    ASSUME NEW program, NEW c, IsCompiled(program, c), c.op = "match", c.link # "",
           NEW X, NEW Y, IsNarrowed(c, X, Y), NEW r
    PROVE  IsLinked(c, r, Y) <=> IsLinked(c, r, X)
<1>1. Follows(c)
  BY DEF Follows
<1>2. \A far : Linked(c, r, far, Y) <=> Linked(c, r, far, X)
  BY <1>1, LinkedNarrowed, Zenon
<1>3. "link" \in Among(Aliases(c)) /\ c.op \in Ops
  BY AliasesAre DEF Ops
<1>4. ASSUME NEW far, Matches(Far(c).type, c.via, far)
      PROVE  Meets(c, "link", far)
  <2>1. Pushed(c, "link") = Hints(Far(c).type, c.via)
    BY <1>3, PushedAre, Zenon
  <2> QED
    BY <1>4, <2>1, HintsAreMet, Zenon DEF Meets
<1>5. Y["link"] = {far \in X["link"] : Meets(c, "link", far)}
  BY <1>3, Zenon DEF IsNarrowed
<1> DEFINE linked(far) == Linked(c, r, far, X)
           matches(far) == Matches(Far(c).type, c.via, far)
           meets(far) == Meets(c, "link", far)
<1>6. /\ IsLinked(c, r, X) <=> \E far \in X["link"] : linked(far) /\ matches(far)
      /\ IsLinked(c, r, Y) <=> \E far \in Y["link"] : linked(far) /\ matches(far)
  BY <1>2, Zenon DEF IsLinked
<1>7. Y["link"] = {far \in X["link"] : meets(far)} /\ \A far : matches(far) => meets(far)
  BY <1>4, <1>5
<1> HIDE DEF linked, matches, meets
<1> QED
  BY <1>6, <1>7

LEMMA PushedDownLosesNothing ==
    ASSUME NEW program, NEW c, IsCompiled(program, c), NEW X, NEW Y, IsNarrowed(c, X, Y)
    PROVE  Answering(c, Y) = Answering(c, X)
<1>1. c.op \in Ops
  BY Zenon DEF IsCompiled
<1>2. Y["target"] = {r \in X["target"] : Meets(c, "target", r)}
  <2>1. "target" \in Among(Aliases(c))
    BY AliasesAre, Zenon
  <2> QED
    BY <2>1, Zenon DEF IsNarrowed
<1>3. CASE c.op \in {"get", "search", "list"}
  <2> DEFINE matches(r) == Matches(TargetType(c), c.filters, r)
             meets(r) == Meets(c, "target", r)
             takes(r) == c.op = "get" => Joins(r[Key(c.on)], c.key)
             all(Z) == {r \in Remaining(c, Z) : takes(r)}
  <2>1. \A r : matches(r) /\ takes(r) => meets(r)
    BY <1>1, TargetMeets
  <2>2. /\ Remaining(c, X) = {r \in X["target"] : matches(r)}
        /\ Remaining(c, Y) = {r \in Y["target"] : matches(r)}
        /\ Y["target"] = {r \in X["target"] : meets(r)}
    BY <1>2 DEF Remaining
  <2>3. all(Y) = all(X)
    <3> HIDE DEF matches, meets, takes
    <3> QED
      BY <2>1, <2>2
  <2>4. Answering(c, X) = {<<r>> : r \in all(X)} /\ Answering(c, Y) = {<<r>> : r \in all(Y)}
    BY <1>3, RowsAre
  <2> HIDE DEF all
  <2> QED
    BY <2>3, <2>4
<1>4. CASE c.op = "traverse"
  <2> DEFINE takes(q) == Joins(q[Key(c.on)], c.key)
             meets(q) == Meets(c, "source", q)
             linked(q) == Linked(c, q[2], q[1], X)
             all == Remaining(c, X)
  <2>1. all = Remaining(c, Y)
    BY <1>1, <1>2, <1>4, RemainingNarrowed
  <2>2. Y["source"] = {r \in X["source"] : meets(r)}
    <3>1. "source" \in Among(Aliases(c))
      BY <1>4, AliasesAre
    <3> QED
      BY <3>1, Zenon DEF IsNarrowed
  <2>3. \A q : takes(q) => meets(q)
    <3>1. Pushed(c, "source") = {[prop |-> Key(c.on), value |-> c.key]}
      BY <1>1, PushedAre, Zenon
    <3> QED
      BY <3>1 DEF Meets, Joins
  <2>4. \A q : Linked(c, q[2], q[1], Y) <=> linked(q)
    <3>1. Follows(c)
      BY <1>4 DEF Follows
    <3> QED
      BY <3>1, LinkedNarrowed, Zenon
  <2>5. Answering(c, X) = {q \in all \X X["source"] : takes(q[2]) /\ linked(q)}
    BY <1>4, TraverseIs
  <2>6. Answering(c, Y) = {q \in all \X Y["source"] : takes(q[2]) /\ Linked(c, q[2], q[1], Y)}
    BY <1>4, <2>1, TraverseIs
  <2>7. Answering(c, Y) = {q \in all \X Y["source"] : takes(q[2]) /\ linked(q)}
    <3> DEFINE also(q) == Linked(c, q[2], q[1], Y)
    <3>1. Answering(c, Y) = {q \in all \X Y["source"] : takes(q[2]) /\ also(q)} /\ \A q : also(q) <=> linked(q)
      BY <2>4, <2>6
    <3> HIDE DEF takes, linked, also, all
    <3> QED
      BY <3>1
  <2> HIDE DEF takes, meets, linked, all
  <2>8. \A q \in all \X X["source"] : takes(q[2]) => q \in all \X Y["source"]
    BY <2>2, <2>3
  <2>9. \A q \in all \X Y["source"] : q \in all \X X["source"]
    BY <2>2
  <2> QED
    BY <2>5, <2>7, <2>8, <2>9
<1>5. CASE c.op = "match"
  <2> DEFINE near(q) == SqlSame(q["model"], c.model) = "true"
             meets(q) == Meets(c, "vectors", q)
             takes(q) == /\ Joins(q[1][Key(c.on)], q[2]["key"])
                         /\ SqlSame(q[2]["model"], c.model) = "true"
                         /\ c.link # "" => IsLinked(c, q[1], X)
             also(q) == /\ Joins(q[1][Key(c.on)], q[2]["key"])
                        /\ SqlSame(q[2]["model"], c.model) = "true"
                        /\ c.link # "" => IsLinked(c, q[1], Y)
             all == Remaining(c, X)
  <2>1. all = Remaining(c, Y)
    BY <1>1, <1>2, <1>5, RemainingNarrowed
  <2>2. Y["vectors"] = {r \in X["vectors"] : meets(r)}
    <3>1. "vectors" \in Among(Aliases(c))
      BY <1>5, AliasesAre
    <3> QED
      BY <3>1, Zenon DEF IsNarrowed
  <2>3. \A q : near(q) => meets(q)
    <3>1. Pushed(c, "vectors") = {[prop |-> "model", value |-> c.model]}
      BY <1>1, PushedAre, Zenon
    <3> QED
      BY <3>1 DEF Meets
  <2>4. \A q : (also(q) <=> takes(q)) /\ (takes(q) => near(q[2]))
    BY <1>5, IsLinkedNarrowed, Zenon
  <2>5. Answering(c, X) = {q \in all \X X["vectors"] : takes(q)}
    BY <1>5, MatchIs
  <2>6. Answering(c, Y) = {q \in all \X Y["vectors"] : also(q)}
    BY <1>5, <2>1, MatchIs
  <2> HIDE DEF near, meets, takes, also, all
  <2>8. \A q \in all \X X["vectors"] : near(q[2]) => q \in all \X Y["vectors"]
    BY <2>2, <2>3
  <2>9. \A q \in all \X Y["vectors"] : q \in all \X X["vectors"]
    BY <2>2
  <2> QED
    BY <2>4, <2>5, <2>6, <2>8, <2>9
<1> QED
  BY <1>1, <1>3, <1>4, <1>5 DEF Ops

-----------------------------------------------------------------------------
(* A read shows what the caller's actions may touch. *)

LEMMA ActionsAdmitIs ==
    ASSUME NEW on, NEW row
    PROVE  ActionsAdmit(on, row) <=>
              \A p \in RowPolicies(case.program, on) :
                 Applies(p, ClaimsOf(case.caller)) => \A e \in p.rows : Truth(e, row, ClaimsOf(case.caller)) = "true"
<1>1. CallerClaims = ClaimsOf(case.caller)
  BY Zenon DEF CallerClaims, ClaimsOf
<1> QED
  BY <1>1, Zenon DEF ActionsAdmit

LEMMA SeenAreAdmittedAlike ==
    ASSUME Serving, Answered, PlanesShareAnOrder, NEW a \in DOMAIN seen \cap Governed, NEW r \in seen[a]
    PROVE  SqlShows(case.program, case.caller, TableOf(call, a), r) <=> ActionsAdmit(TableOf(call, a), r)
<1>1. IsProgram(case.program)
  BY DeployedCase, Zenon DEF Serving
<1>2. IsRow(TableOf(call, a), r)
  <2>1. a \in DOMAIN seen /\ a \in Governed
    OBVIOUS
  <2> QED
    BY <2>1, SeenAre, Zenon
<1>3. /\ \A p \in DOMAIN r : r[p].kind # "nan"
      /\ \A p \in case.program : \A e \in p.rows : ~ OrdersBooleans(e, Props(p.on))
      /\ \A p \in RowPolicies(case.program, TableOf(call, a)) : \A e \in p.rows : ~ Rounds(e, r)
  BY Zenon DEF PlanesShareAnOrder
<1> QED
  BY <1>1, <1>2, <1>3, RowsAgree, ActionsAdmitIs, Zenon

(* A scan brought back every row that met the equalities it carried. *)
LEMMA ScannedWhole ==
    ASSUME Serving, Answered, ReadsAllOfItsKey, NEW a \in DOMAIN seen
    PROVE  con[a] = Meeting(call, a, seen[a])
<1>1. con[a] \in Fetched(call, a, seen[a]) /\ IsCompiled(case.program, call) /\ a \in Among(Aliases(call))
  BY AnsweredIs, Zenon DEF IsScanned, IsAsked
<1>2. ASSUME call.op = "get"
      PROVE  a = "target"
  <2>1. Aliases(call) \in Seq({"target", "source", "through", "vectors", "link"})
    BY <1>1, AliasesAre, Zenon
  <2>2. a \in {"target", "source", "through", "vectors", "link"}
    BY <1>1, <2>1 DEF Among
  <2>3. ~ Follows(call)
    BY <1>2 DEF Follows
  <2>4. /\ "source" \in Among(Aliases(call)) <=> call.op = "traverse"
        /\ "vectors" \in Among(Aliases(call)) <=> call.op = "match"
        /\ "link" \in Among(Aliases(call)) <=> call.op = "match" /\ call.link # ""
        /\ "through" \in Among(Aliases(call)) <=> Follows(call) /\ Through(call)
    BY <1>1, AliasesAre, Zenon
  <2>5. call.op # "traverse" /\ call.op # "match"
    BY <1>2
  <2>6. a # "source" /\ a # "vectors" /\ a # "link" /\ a # "through"
    BY <1>1, <2>3, <2>4, <2>5, Zenon
  <2> QED
    BY <2>2, <2>6
<1>3. call.op # "get" \/ Cardinality(Meeting(call, a, seen[a])) <= GetLimit
  BY <1>2, Zenon DEF ReadsAllOfItsKey
<1>4. Fetched(call, a, seen[a]) = {Meeting(call, a, seen[a])}
  BY <1>3, Zenon DEF Fetched
<1> QED
  BY <1>1, <1>4

LEMMA ShownIsAdmitted ==
    ASSUME Serving, Answered, PlanesShareAnOrder, ReadsAllOfItsKey
    PROVE  IsNarrowed(call, Admitted, Shown(case.program, case.caller, call, con))
<1> DEFINE S == Shown(case.program, case.caller, call, con)
<1> SUFFICES ASSUME NEW a \in Among(Aliases(call))
             PROVE  S[a] = {r \in Admitted[a] : Meets(call, a, r)}
  BY Zenon DEF IsNarrowed
<1> DEFINE shows(r) == a \in Governed => SqlShows(case.program, case.caller, TableOf(call, a), r)
           admits(r) == a \in Governed => ActionsAdmit(TableOf(call, a), r)
           meets(r) == Meets(call, a, r)
<1>1. a \in DOMAIN seen
  BY AnsweredIs
<1>2. S[a] = {r \in con[a] : shows(r)}
  BY DEF Shown, Among
<1>3. Admitted[a] = {r \in seen[a] : admits(r)}
  BY <1>1 DEF Admitted
<1>4. con[a] = {r \in seen[a] : meets(r)}
  <2>1. Meeting(call, a, seen[a]) = {r \in seen[a] : meets(r)}
    BY Zenon DEF Meeting, Meets
  <2> QED
    BY <1>1, <2>1, ScannedWhole, Zenon
<1>5. ASSUME NEW r \in seen[a]
      PROVE  shows(r) <=> admits(r)
  <2>1. a \in Governed => a \in DOMAIN seen \cap Governed
    BY <1>1
  <2> QED
    BY <2>1, SeenAreAdmittedAlike, Zenon
<1> HIDE DEF S, shows, admits, meets
<1>6. S[a] = {r \in Admitted[a] : meets(r)}
  BY <1>2, <1>3, <1>4, <1>5
<1> QED
  BY <1>6 DEF meets

(* What one ranking of the whole result answers. *)
IsAnswerOf(program, c, all, given) ==
    IF c.op = "get" /\ Cardinality(all) > 1 THEN given.status = "error"
    ELSE /\ given.status = "rows"
         /\ \E ranking \in Rankings(c, all) :
               LET page == Paged(c, ranking)
               IN  given.rows = [i \in DOMAIN page |-> Projected(program, c, page[i])]
         /\ ~ given.more /\ c.op # "get" => Cardinality(all) <= c.offset + Len(given.rows)

LEMMA ResultIsAnswer ==
    ASSUME NEW program, NEW c, IsCompiled(program, c), NEW all, IsFiniteSet(all), NEW s \in Rankings(c, all)
    PROVE  IsAnswerOf(program, c, all, Result(program, c, s))
<1> DEFINE given == Result(program, c, s)
           page == Paged(c, s)
           rows == [i \in DOMAIN page |-> Projected(program, c, page[i])]
           n == Cardinality(all)
           size == PageSize(c)
<1>1. s \in Seq(all) /\ Len(s) = n
  BY RankingsRankAll
<1>2. n \in Nat
  BY FS_CardinalityType
<1>3. size \in 1..MaxPage /\ c.offset \in Nat
  BY Zenon DEF IsCompiled
<1>4. size \in Nat
  <2>1. MaxPage \in Nat
    BY OntologyAssumption, Zenon DEF OntologyAssumption
  <2> HIDE DEF size
  <2> QED
    BY <1>3, <2>1
<1>5. /\ page \in Seq(all)
      /\ Len(page) = PageLength(c, Len(s))
  BY <1>1, PagedIs, Zenon
<1> HIDE DEF page
<1>6. Len(rows) = Len(page)
  BY <1>5
<1>7. CASE c.op = "get" /\ n > 1
  <2>1. given = [status |-> "error", rows |-> << >>, more |-> FALSE]
    BY <1>1, <1>7 DEF Result
  <2>2. given.status = "error"
    BY <2>1
  <2> HIDE DEF given, n
  <2> QED
    BY <1>7, <2>2, Zenon DEF IsAnswerOf, given, n
<1>8. CASE ~ (c.op = "get" /\ n > 1)
  <2>1. given = [status |-> "rows", rows |-> rows, more |-> c.op # "get" /\ Len(page) = size]
    BY <1>1, <1>8 DEF Result, page
  <2>2. given.status = "rows" /\ given.rows = rows /\ given.more = (c.op # "get" /\ Len(page) = size)
    <3> HIDE DEF given, rows, size
    <3> QED
      BY <2>1
  <2>3. \E ranking \in Rankings(c, all) :
           LET paged == Paged(c, ranking)
           IN  given.rows = [i \in DOMAIN paged |-> Projected(program, c, paged[i])]
    BY <2>2, Zenon DEF page
  <2>4. ASSUME ~ given.more, c.op # "get"
        PROVE  n <= c.offset + Len(given.rows)
    <3>1. Len(page) # size
      BY <2>2, <2>4
    <3>2. Len(given.rows) = PageLength(c, n)
      BY <1>1, <1>5, <1>6, <2>2
    <3>3. PageLength(c, n) =
             IF n <= c.offset THEN 0 ELSE IF c.offset + size < n THEN size ELSE n - c.offset
      BY <2>4 DEF PageLength
    <3>4. PageLength(c, n) # size
      BY <1>1, <1>5, <3>1
    <3> HIDE DEF given, n, size
    <3> QED
      BY <1>2, <1>3, <1>4, <3>2, <3>3, <3>4
  <2> HIDE DEF given, n
  <2> QED
    BY <1>8, <2>2, <2>3, <2>4, Zenon DEF IsAnswerOf, given, n
<1> QED
  BY <1>7, <1>8

(* A read answers exactly what the same caller's actions may touch of the rows *)
(* its scans found: each object's predicates hold in the SQL where the write   *)
(* plane's evaluator says so, the equalities a scan carries are asked again,   *)
(* a get with one row too many is an error, and a page that says it is the     *)
(* last one is.                                                                *)
THEOREM AnswersWhatActionsAdmitAlways == Spec => []AnswersWhatActionsAdmit
<1>1. Serving => AnswersWhatActionsAdmit
  <2>1. SUFFICES ASSUME Serving, Answered, PlanesShareAnOrder, ReadsAllOfItsKey
                 PROVE  AnsweredAsActionsWould
    BY Zenon DEF AnswersWhatActionsAdmit
  <2> DEFINE all == Answering(call, Admitted)
             S == Shown(case.program, case.caller, call, con)
  <2>2. IsCompiled(case.program, call)
    BY <2>1, AnsweredIs, Zenon DEF IsAsked
  <2>3. IsNarrowed(call, Admitted, S)
    BY <2>1, ShownIsAdmitted, Zenon
  <2>4. Answering(call, S) = all
    <3> HIDE DEF S
    <3> QED
      BY <2>2, <2>3, PushedDownLosesNothing, Zenon
  <2>5. IsFiniteSet(all)
    <3>1. \A a \in Among(Aliases(call)) : IsFiniteSet(Admitted[a])
      <4> SUFFICES ASSUME NEW a \in Among(Aliases(call))
                   PROVE  IsFiniteSet(Admitted[a])
        OBVIOUS
      <4>1. a \in DOMAIN seen
        BY <2>1, AnsweredIs
      <4>2. IsFiniteSet(seen[a])
        BY <2>1, <4>1, SeenAre, Zenon
      <4>3. Admitted[a] \subseteq seen[a]
        BY <4>1 DEF Admitted
      <4> QED
        BY <4>2, <4>3, FS_Subset
    <3> QED
      BY <2>2, <3>1, AnsweringIsFinite, Zenon
  <2>6. answer \in {Result(case.program, call, ranking) : ranking \in Rankings(call, Answering(call, S))}
    BY <2>1, AnsweredIs, Zenon DEF Answers
  <2> HIDE DEF S, all
  <2>7. PICK s \in Rankings(call, all) : answer = Result(case.program, call, s)
    BY <2>4, <2>6
  <2>8. IsAnswerOf(case.program, call, all, answer)
    BY <2>2, <2>5, <2>7, ResultIsAnswer, Zenon
  <2> QED
    BY <2>8, Zenon DEF IsAnswerOf, AnsweredAsActionsWould, PageOf, all
<1> QED
  BY <1>1, ServingAlways, PTL

=============================================================================
