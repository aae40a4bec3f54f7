------------------------- MODULE ActionRuntimeProof -------------------------
(* Proofs about ActionRuntime, for any runs, writers, jobs and bounds.         *)
EXTENDS ActionRuntime, FiniteSetTheorems, TLAPS

-----------------------------------------------------------------------------
(* What the pure rules return. *)

(* Effects and carried cells are cells. *)
LEMMA CellTypes ==
    ASSUME NEW job \in Job, NEW row \in Row, NEW was \in SUBSET Columns, NEW now \in SUBSET Columns
    PROVE  /\ PropertyOf(row, was) \in Cell
           /\ ModifiedCells(job, row, was, now) \in [Columns -> Cell]
           /\ CreatedCells(job, now) \in [Columns -> Cell]
<1>1. Null \in Cell
  BY DEF Cell
<1>2. row.cells \in [Columns -> Cell] /\ job.effect \in [Cell -> Cell]
  BY DEF Row, Job
<1>3. PropertyOf(row, was) \in Cell
  BY <1>1, <1>2 DEF PropertyOf, Columns
<1>4. \A c \in Columns : Carried(row, c, was, now) \in Cell
  BY <1>1, <1>2 DEF Carried
<1>5. ModifiedCells(job, row, was, now) \in [Columns -> Cell]
  BY <1>2, <1>3, <1>4 DEF ModifiedCells
<1>6. CreatedCells(job, now) \in [Columns -> Cell]
  BY <1>1, <1>2 DEF CreatedCells
<1> QED
  BY <1>3, <1>5, <1>6

(* A write leaves a set of rows, and the rows it adds are its own. *)
LEMMA RewriteType ==
    ASSUME NEW job \in Job, NEW r \in Runs, NEW R, R \subseteq Row, NEW found, found \subseteq Row,
           NEW was \in SUBSET Columns, NEW now \in SUBSET Columns
    PROVE  /\ Rewrite(R, job, r, found, was, now) \subseteq Row
           /\ \A x \in Rewrite(R, job, r, found, was, now) \ R : x.by = r /\ x.key = job.key
<1> DEFINE W == Written(job, r, found, was, now)
<1>1. job.op \in {"create", "modify", "delete"} /\ job.key \in Keys /\ r \in Authors
  BY DEF Job, Authors
<1>2. CreatedCells(job, now) \in [Columns -> Cell]
      /\ \A x \in found : ModifiedCells(job, x, was, now) \in [Columns -> Cell]
  <2>1. \A x \in found : ModifiedCells(job, x, was, now) \in [Columns -> Cell]
    BY CellTypes
  <2>2. CreatedCells(job, now) \in [Columns -> Cell]
    BY DEF CreatedCells, Job, Cell
  <2> QED
    BY <2>1, <2>2
<1>3. W \subseteq Row /\ \A x \in W : x.by = r /\ x.key = job.key
  <2>1. CASE job.op = "create"
    BY <2>1, <1>1, <1>2 DEF Written, Row
  <2>2. CASE job.op = "modify"
    BY <2>2, <1>1, <1>2 DEF Written, Row
  <2>3. CASE job.op = "delete"
    BY <2>3 DEF Written
  <2> QED
    BY <2>1, <2>2, <2>3, <1>1
<1> QED
  BY <1>3 DEF Rewrite

-----------------------------------------------------------------------------
(* Type correctness. *)

(* A run that concludes keeps its type. *)
LEMMA ConcludesType ==
    ASSUME run \in [Runs -> RunState], NEW r \in Runs, NEW outcome \in Outcomes, Concludes(r, outcome)
    PROVE  run' \in [Runs -> RunState]
<1>1. run[r] \in RunState
  OBVIOUS
<1>2. "record" \in PCs
  BY DEF PCs
<1> QED
  BY <1>1, <1>2 DEF Concludes, RunState

(* The steps of a run keep the types. *)
LEMMA RunStepType ==
    ASSUME TypeOK, NEW r \in Runs, RunStep(r)
    PROVE  TypeOK'
<1> USE RuntimeAssumption, RulesAssumption
<1> DEFINE S == run[r]
<1>0. S \in RunState /\ run \in [Runs -> RunState] /\ S.job \subseteq Job
  BY DEF TypeOK, RunState
<1>1. CASE ReadSnapshot(r)
  <2>1. Snapshot \in Nat
    BY DEF TypeOK, Snapshot
  <2>2. run' \in [Runs -> RunState]
    BY <1>0, <1>1, <2>1 DEF ReadSnapshot, RunState, PCs
  <2> QED
    BY <1>1, <2>2 DEF ReadSnapshot, TypeOK, table
<1>2. ASSUME NEW job \in Jobs, ReadRow(r, job)
      PROVE  TypeOK'
  <2>1. PICK probe \in BOOLEAN :
           LET found == {x \in rows : x.key = job.key /\ probe}
               decision == Decision(job, found, renamed)
               outcome == IF decision # "go" THEN decision
                          ELSE IF job.dry THEN "previewed" ELSE "none"
           IN  run' = [run EXCEPT
                    ![r].found = found,
                    ![r].under = renamed,
                    ![r].outcome = outcome,
                    ![r].pc = IF outcome # "none" THEN Concluded(job, outcome)
                              ELSE IF job.op = "delete" /\ Semantic THEN "prune"
                              ELSE "commit"]
    BY <1>2 DEF ReadRow
  <2> DEFINE found == {x \in rows : x.key = job.key /\ probe}
             decision == Decision(job, found, renamed)
             outcome == IF decision # "go" THEN decision
                        ELSE IF job.dry THEN "previewed" ELSE "none"
             pc == IF outcome # "none" THEN Concluded(job, outcome)
                   ELSE IF job.op = "delete" /\ Semantic THEN "prune" ELSE "commit"
  <2>2. found \subseteq Row /\ renamed \subseteq Renamable
    BY DEF TypeOK
  <2>3. decision \in Refusals \cup {"go"}
    BY DEF Decision, Refusals
  <2>4. outcome \in Outcomes
    BY <2>3 DEF Outcomes, Refusals
  <2>5. pc \in PCs
    BY DEF PCs, Concluded
  <2>6. run' = [run EXCEPT ![r].found = found, ![r].under = renamed, ![r].outcome = outcome,
                           ![r].pc = pc]
    BY <2>1
  <2>7. run' \in [Runs -> RunState]
    <3> HIDE DEF found, outcome, pc
    <3> QED
      BY <1>0, <2>2, <2>4, <2>5, <2>6 DEF RunState
  <2> QED
    BY <1>2, <2>7 DEF ReadRow, TypeOK, table
<1>3. ASSUME NEW job \in Jobs, Prune(r, job)
      PROVE  TypeOK'
  <2>1. CASE run' = [run EXCEPT ![r].pc = "commit"]
    <3>1. run' \in [Runs -> RunState]
      BY <1>0, <2>1 DEF RunState, PCs
    <3> QED
      BY <1>3, <3>1 DEF Prune, TypeOK, table
  <2>2. CASE Concludes(r, "write_failed")
    <3>1. run' \in [Runs -> RunState]
      BY <1>0, <2>2, ConcludesType DEF Outcomes
    <3> QED
      BY <1>3, <3>1 DEF Prune, TypeOK, table
  <2> QED
    BY <1>3, <2>1, <2>2 DEF Prune
<1>4. ASSUME NEW job \in Jobs, CommitLands(r, job)
      PROVE  TypeOK'
  <2>1. run' \in [Runs -> RunState]
    BY <1>0, <1>4, ConcludesType DEF CommitLands, Outcomes
  <2>2. rows' \subseteq Row
    <3>1. job \in Job /\ S.found \subseteq Row /\ S.under \in SUBSET Columns
      BY <1>0 DEF RunState
    <3>2. renamed \in SUBSET Columns /\ rows \subseteq Row
      BY DEF TypeOK
    <3>3. rows' = Rewrite(rows, job, r, S.found, S.under, renamed)
      BY <1>4 DEF CommitLands, Writes
    <3> QED
      BY <3>1, <3>2, <3>3, RewriteType
  <2>3. [stamp |-> r, base |-> S.snap] \in Commit
    BY <1>0 DEF Commit, RunState, Authors
  <2>4. history' \in Seq(Commit)
    BY <1>4, <2>3 DEF CommitLands, Writes, TypeOK
  <2> QED
    BY <1>4, <2>1, <2>2, <2>4 DEF CommitLands, Writes, TypeOK
<1>5. CASE CommitConflicts(r)
  <2>1. CASE /\ S.attempt < MaxAttempts
             /\ run' = [run EXCEPT ![r].attempt = @ + 1, ![r].snap = 0, ![r].found = {},
                                   ![r].under = {}, ![r].pc = "snapshot"]
    <3>1. S.attempt + 1 \in 1..MaxAttempts
      BY <1>0, <2>1 DEF RunState
    <3>2. run' \in [Runs -> RunState]
      BY <1>0, <2>1, <3>1 DEF RunState, PCs
    <3> QED
      BY <1>5, <3>2 DEF CommitConflicts, Overtaken, TypeOK, table
  <2>2. CASE Concludes(r, "conflict")
    <3>1. run' \in [Runs -> RunState]
      BY <1>0, <2>2, ConcludesType DEF Outcomes
    <3> QED
      BY <1>5, <3>1 DEF CommitConflicts, Overtaken, TypeOK, table
  <2> QED
    BY <1>5, <2>1, <2>2 DEF CommitConflicts
<1>6. CASE CommitFails(r)
  <2>1. run' \in [Runs -> RunState]
    BY <1>0, <1>6, ConcludesType DEF CommitFails, Outcomes
  <2> QED
    BY <1>6, <2>1 DEF CommitFails, TypeOK, table
<1>7. Entry(r) \in EditRecords
  BY <1>0 DEF Entry, EditRecords, RunState
<1>8. CASE RecordLands(r)
  <2>1. run' \in [Runs -> RunState]
    BY <1>0, <1>8 DEF RecordLands, RunState, PCs
  <2>2. editLog' \in Seq(EditRecords)
    BY <1>7, <1>8 DEF RecordLands, TypeOK
  <2> QED
    BY <1>8, <2>1, <2>2 DEF RecordLands, TypeOK, table
<1>9. CASE RecordErrs(r)
  <2>1. S.tries + 1 <= MaxLogAttempts => S.tries + 1 \in 0..MaxLogAttempts
    BY <1>0 DEF RunState
  <2>2. run' \in [Runs -> RunState]
    BY <1>0, <1>9, <2>1 DEF RecordErrs, RunState, PCs
  <2>3. editLog' \in Seq(EditRecords)
    <3>1. editLog' \in {editLog, Append(editLog, Entry(r))}
      BY <1>9 DEF RecordErrs, AppendErrs
    <3>2. editLog \in Seq(EditRecords)
      BY DEF TypeOK
    <3> QED
      BY <1>7, <3>1, <3>2
  <2> QED
    BY <1>9, <2>2, <2>3 DEF RecordErrs, AppendErrs, TypeOK, table
<1> QED
  BY <1>1, <1>2, <1>3, <1>4, <1>5, <1>6, <1>8, <1>9 DEF RunStep

(* Every state of every behaviour has its type. *)
THEOREM TypeCorrect == Spec => []TypeOK
<1> USE RuntimeAssumption, RulesAssumption
<1>1. Init => TypeOK
  <2> SUFFICES ASSUME Init PROVE TypeOK
    OBVIOUS
  <2>1. run \in [Runs -> RunState]
    BY DEF Init, Idle, RunState, PCs, Outcomes
  <2>2. rows \subseteq Row /\ history \in Seq(Commit) /\ exists \in BOOLEAN
    <3>1. CASE exists \in BOOLEAN /\ rows = {} /\ history = << >>
      BY <3>1
    <3>2. CASE \E o \in Outsiders, k \in Keys, cells \in Contents :
                  /\ exists = TRUE
                  /\ rows = {[key |-> k, by |-> o, cells |-> cells]}
                  /\ history = << [stamp |-> o, base |-> 0] >>
      BY <3>2 DEF Row, Authors, Commit
    <3> QED
      BY <3>1, <3>2 DEF Init
  <2>3. vectors \subseteq Keys
    BY <2>2 DEF Init, Row
  <2> QED
    BY <2>1, <2>2, <2>3 DEF Init, TypeOK
<1>2. TypeOK /\ [Next]_vars => TypeOK'
  <2> SUFFICES ASSUME TypeOK, [Next]_vars PROVE TypeOK'
    OBVIOUS
  <2>1. ASSUME NEW r \in Runs, RunStep(r) PROVE TypeOK'
    BY <2>1, RunStepType
  <2>2. ASSUME NEW r \in Runs, Die(r) PROVE TypeOK'
    <3>1. run' \in [Runs -> RunState]
      <4>1. run[r] \in RunState /\ "dead" \in PCs
        BY DEF TypeOK, PCs
      <4>2. run' = [run EXCEPT ![r].pc = "dead"]
        BY <2>2 DEF Die
      <4> QED
        BY <4>1, <4>2 DEF TypeOK, RunState
    <3> QED
      BY <2>2, <3>1 DEF Die, TypeOK, table
  <2>3. ASSUME NEW r \in Runs, NEW job \in Jobs, Start(r, job) PROVE TypeOK'
    <3>1. run' \in [Runs -> RunState]
      <4>1. run[r] \in RunState /\ run \in [Runs -> RunState]
        BY DEF TypeOK
      <4>2. \A pc \in PCs, outcome \in Outcomes :
               [run[r] EXCEPT !.job = {job}, !.outcome = outcome, !.pc = pc] \in RunState
        BY <4>1 DEF RunState
      <4>3. (IF job.binds THEN "none" ELSE "unbound") \in Outcomes
            /\ (IF job.binds THEN "snapshot" ELSE "done") \in PCs
        BY DEF Outcomes, PCs
      <4> QED
        BY <2>3, <4>1, <4>2, <4>3 DEF Start
    <3> QED
      BY <2>3, <3>1 DEF Start, TypeOK, table
  <2>4. CASE CreateTable
    BY <2>4 DEF CreateTable, TypeOK
  <2>5. ASSUME NEW c \in Columns, RenameColumn(c) PROVE TypeOK'
    BY <2>5 DEF RenameColumn, TypeOK
  <2>6. ASSUME NEW o \in Outsiders, OutsideCommit(o) PROVE TypeOK'
    <3>1. PICK k \in Keys, gone \in BOOLEAN, new \in {{}} \cup {{c} : c \in Contents} :
             rows' = {x \in rows : x.key = k => ~ gone}
                        \cup {[key |-> k, by |-> o, cells |-> cells] : cells \in new}
      BY <2>6 DEF OutsideCommit
    <3>2. new \subseteq [Columns -> Cell]
      OBVIOUS
    <3>3. rows' \subseteq Row
      BY <3>1, <3>2 DEF TypeOK, Row, Authors
    <3>4. [stamp |-> o, base |-> Snapshot] \in Commit
      BY DEF Commit, Authors, Snapshot, TypeOK
    <3>5. history' \in Seq(Commit)
      BY <2>6, <3>4 DEF OutsideCommit, TypeOK
    <3> QED
      BY <2>6, <3>3, <3>5 DEF OutsideCommit, TypeOK
  <2>7. CASE UNCHANGED vars
    BY <2>7 DEF vars, TypeOK
  <2> QED
    BY <2>1, <2>2, <2>3, <2>4, <2>5, <2>6, <2>7 DEF Next
<1> QED
  BY <1>1, <1>2, PTL DEF Spec

-----------------------------------------------------------------------------
(* What the steps of a run do to its record. *)

LEMMA ConcludesEffect ==
    ASSUME run \in [Runs -> RunState], NEW r \in Runs, NEW outcome, Concludes(r, outcome)
    PROVE  /\ run'[r].pc = "record" /\ run'[r].outcome = outcome
           /\ run'[r].job = run[r].job /\ run'[r].snap = run[r].snap
  BY DEF Concludes, RunState

(* A read that goes ahead leads to the write, any other outcome ends the run. *)
LEMMA ReadRowEffect ==
    ASSUME run \in [Runs -> RunState], NEW r \in Runs, NEW job \in Jobs, ReadRow(r, job)
    PROVE  \E probe \in BOOLEAN :
              LET found == {x \in rows : x.key = job.key /\ probe}
                  decision == Decision(job, found, renamed)
              IN  /\ Probe(probe)
                  /\ run'[r].found = found /\ run'[r].under = renamed
                  /\ run'[r].snap = run[r].snap /\ run'[r].job = run[r].job
                  /\ run'[r].attempt = run[r].attempt
                  /\ run'[r].outcome = IF decision # "go" THEN decision
                                       ELSE IF job.dry THEN "previewed" ELSE "none"
                  /\ run'[r].pc \in IF run'[r].outcome = "none" THEN {"prune", "commit"}
                                    ELSE {"record", "done"}
                  /\ run'[r].outcome # "none" => run'[r].pc = Concluded(job, run'[r].outcome)
<1>1. PICK probe \in BOOLEAN :
         LET found == {x \in rows : x.key = job.key /\ probe}
             decision == Decision(job, found, renamed)
             outcome == IF decision # "go" THEN decision
                        ELSE IF job.dry THEN "previewed" ELSE "none"
         IN  /\ Probe(probe)
             /\ run' = [run EXCEPT
                  ![r].found = found,
                  ![r].under = renamed,
                  ![r].outcome = outcome,
                  ![r].pc = IF outcome # "none" THEN Concluded(job, outcome)
                            ELSE IF job.op = "delete" /\ Semantic THEN "prune"
                            ELSE "commit"]
  BY DEF ReadRow
<1> DEFINE found == {x \in rows : x.key = job.key /\ probe}
           decision == Decision(job, found, renamed)
           outcome == IF decision # "go" THEN decision
                      ELSE IF job.dry THEN "previewed" ELSE "none"
           pc == IF outcome # "none" THEN Concluded(job, outcome)
                 ELSE IF job.op = "delete" /\ Semantic THEN "prune" ELSE "commit"
<1>2. /\ pc \in IF outcome = "none" THEN {"prune", "commit"} ELSE {"record", "done"}
      /\ outcome # "none" => pc = Concluded(job, outcome)
  BY DEF Concluded
<1>3. run' = [run EXCEPT ![r].found = found, ![r].under = renamed, ![r].outcome = outcome,
                         ![r].pc = pc]
  BY <1>1
<1>4. /\ run'[r].found = found /\ run'[r].under = renamed
      /\ run'[r].snap = run[r].snap /\ run'[r].job = run[r].job /\ run'[r].attempt = run[r].attempt
      /\ run'[r].outcome = outcome /\ run'[r].pc = pc
  <2> HIDE DEF found, outcome, pc
  <2> QED
    BY <1>3 DEF RunState
<1>5. Probe(probe)
  BY <1>1
<1> HIDE DEF pc
<1> QED
  BY <1>2, <1>4, <1>5

-----------------------------------------------------------------------------
(* A run decides on the rows it commits over. *)

(* What a run holds is its own: a step of one leaves every other alone. *)
LEMMA OthersKeep ==
    ASSUME TypeOK, NEW r \in Runs,
           RunStep(r) \/ Die(r) \/ \E job \in Jobs : Start(r, job)
    PROVE  \A q \in Runs \ {r} : run'[q] = run[q]
<1> SUFFICES ASSUME NEW q \in Runs \ {r} PROVE run'[q] = run[q]
  OBVIOUS
<1>0. run \in [Runs -> RunState]
  BY DEF TypeOK
<1>1. CASE ReadSnapshot(r)
  BY <1>0, <1>1 DEF ReadSnapshot
<1>2. ASSUME NEW job \in Jobs, ReadRow(r, job) PROVE run'[q] = run[q]
  BY <1>0, <1>2 DEF ReadRow
<1>3. ASSUME NEW job \in Jobs, Prune(r, job) PROVE run'[q] = run[q]
  BY <1>0, <1>3 DEF Prune, Concludes
<1>4. ASSUME NEW job \in Jobs, CommitLands(r, job) PROVE run'[q] = run[q]
  BY <1>0, <1>4 DEF CommitLands, Concludes
<1>5. CASE CommitConflicts(r)
  BY <1>0, <1>5 DEF CommitConflicts, Concludes
<1>6. CASE CommitFails(r)
  BY <1>0, <1>6 DEF CommitFails, Concludes
<1>7. CASE RecordLands(r)
  BY <1>0, <1>7 DEF RecordLands
<1>8. CASE RecordErrs(r)
  BY <1>0, <1>8 DEF RecordErrs
<1>9. CASE Die(r)
  BY <1>0, <1>9 DEF Die
<1>10. ASSUME NEW job \in Jobs, Start(r, job) PROVE run'[q] = run[q]
  BY <1>0, <1>10 DEF Start
<1> QED
  BY <1>1, <1>2, <1>3, <1>4, <1>5, <1>6, <1>7, <1>8, <1>9, <1>10 DEF RunStep

(* The strengthening of ReadIsCurrent. A table that was not created is empty;  *)
(* a snapshot that was read is not ahead of the table's; a run has one job.    *)
ReadIsCurrentOf(r) ==
    \A job \in run[r].job :
        run[r].pc \in {"prune", "commit"} /\ run[r].snap = Snapshot
            => run[r].found = Matching(job) /\ Decision(job, Matching(job), run[r].under) = "go"

ReadInvOf(r) ==
    /\ run[r].snap <= Snapshot
    /\ \A j, k \in run[r].job : j = k
    /\ run[r].pc = "idle" => run[r].job = {}
    /\ ReadIsCurrentOf(r)

ReadInv ==
    /\ exists \/ (rows = {} /\ history = << >>)
    /\ \A r \in Runs : ReadInvOf(r)

(* A step that leaves the table alone leaves what a resting run knows intact. *)
LEMMA ReadInvFrame ==
    ASSUME TypeOK, TypeOK', NEW q \in Runs, ReadInvOf(q), run'[q] = run[q],
           \/ UNCHANGED <<rows, history>>
           \/ \E c \in Commit : history' = Append(history, c)
    PROVE  ReadInvOf(q)'
<1>1. Snapshot \in Nat /\ run[q].snap \in Nat
  BY DEF TypeOK, Snapshot, RunState
<1>2. CASE UNCHANGED <<rows, history>>
  BY <1>2 DEF ReadInvOf, ReadIsCurrentOf, Snapshot, Matching
<1>3. CASE \E c \in Commit : history' = Append(history, c)
  <2>1. Snapshot' = Snapshot + 1
    BY <1>3 DEF Snapshot, TypeOK
  <2>2. run'[q].snap # Snapshot' /\ run'[q].snap <= Snapshot'
    BY <1>1, <2>1 DEF ReadInvOf
  <2> QED
    BY <2>2 DEF ReadInvOf, ReadIsCurrentOf
<1> QED
  BY <1>2, <1>3

(* A step of a run keeps the invariant, as long as the existence probe tells   *)
(* the truth.                                                                  *)
LEMMA ReadInvRunStep ==
    ASSUME ~ FlakyProbe, TypeOK, TypeOK', ReadInv, NEW r \in Runs, RunStep(r)
    PROVE  ReadInv'
<1> USE RuntimeAssumption, RulesAssumption
<1>0. run \in [Runs -> RunState] /\ run[r] \in RunState /\ Snapshot \in Nat /\ ReadInvOf(r)
  BY DEF TypeOK, Snapshot, ReadInv
<1>1. \A q \in Runs \ {r} : run'[q] = run[q]
  BY OthersKeep
<1>a. ASSUME UNCHANGED table, ReadInvOf(r)' PROVE ReadInv'
  <2>1. \A q \in Runs \ {r} : ReadInvOf(q)'
    BY <1>a, <1>1, ReadInvFrame DEF ReadInv, table
  <2> QED
    BY <1>a, <2>1 DEF ReadInv, table
<1>b. ASSUME UNCHANGED table,
             run'[r].snap = run[r].snap, run'[r].job = run[r].job,
             run'[r].pc \in {"record", "done"}
      PROVE  ReadInvOf(r)'
  BY <1>0, <1>b DEF ReadInvOf, ReadIsCurrentOf, Snapshot, table
<1>2. CASE ReadSnapshot(r)
  <2>1. /\ run'[r].snap \in {0, Snapshot} /\ run'[r].pc = "row" /\ run'[r].job = run[r].job
        /\ UNCHANGED table
    BY <1>0, <1>2 DEF ReadSnapshot, RunState
  <2>2. ReadInvOf(r)'
    BY <1>0, <2>1 DEF ReadInvOf, ReadIsCurrentOf, Snapshot, table
  <2> QED
    BY <1>a, <2>1, <2>2
<1>3. ASSUME NEW job \in Jobs, ReadRow(r, job)
      PROVE  ReadInv'
  <2>1. PICK probe \in BOOLEAN :
           LET found == {x \in rows : x.key = job.key /\ probe}
               decision == Decision(job, found, renamed)
           IN  /\ Probe(probe)
               /\ run'[r].found = found /\ run'[r].under = renamed
               /\ run'[r].snap = run[r].snap /\ run'[r].job = run[r].job
               /\ run'[r].outcome = IF decision # "go" THEN decision
                                    ELSE IF job.dry THEN "previewed" ELSE "none"
               /\ run'[r].pc \in IF run'[r].outcome = "none" THEN {"prune", "commit"}
                                 ELSE {"record", "done"}
    BY <1>0, <1>3, ReadRowEffect
  <2> DEFINE found == {x \in rows : x.key = job.key /\ probe}
             decision == Decision(job, found, renamed)
  <2>2. run[r].job = {job} /\ UNCHANGED table
    <3>1. job \in run[r].job /\ UNCHANGED table
      BY <1>3 DEF ReadRow
    <3> QED
      BY <1>0, <3>1 DEF ReadInvOf
  <2>3. found = Matching(job)
    <3>1. probe = exists
      BY <2>1 DEF Probe, TypeOK
    <3> QED
      BY <3>1 DEF Matching, ReadInv
  <2>4. /\ run'[r].found = found /\ run'[r].under = renamed
        /\ run'[r].snap = run[r].snap /\ run'[r].job = run[r].job
        /\ run'[r].pc \in {"prune", "commit"} => decision = "go"
        /\ run'[r].pc # "idle"
    <3>1. decision # "go" => decision # "none"
      BY DEF Decision
    <3> HIDE DEF decision, found
    <3> QED
      BY <2>1, <3>1 DEF decision, found
  <2>5. ReadInvOf(r)'
    <3>1. Snapshot' = Snapshot /\ Matching(job)' = Matching(job) /\ renamed' = renamed
      BY <2>2 DEF Snapshot, Matching, table
    <3>2. ReadIsCurrentOf(r)'
      BY <2>2, <2>3, <2>4, <3>1 DEF ReadIsCurrentOf
    <3> QED
      BY <1>0, <2>2, <2>4, <3>1, <3>2 DEF ReadInvOf
  <2> QED
    BY <1>a, <2>2, <2>5
<1>4. ASSUME NEW job \in Jobs, Prune(r, job)
      PROVE  ReadInv'
  <2>1. CASE run' = [run EXCEPT ![r].pc = "commit"]
    <3>1. /\ run'[r].snap = run[r].snap /\ run'[r].job = run[r].job /\ run'[r].found = run[r].found
          /\ run'[r].under = run[r].under /\ run'[r].pc = "commit" /\ run[r].pc = "prune"
          /\ UNCHANGED table
      BY <1>0, <1>4, <2>1 DEF Prune, RunState
    <3>2. ReadInvOf(r)'
      BY <1>0, <3>1 DEF ReadInvOf, ReadIsCurrentOf, Matching, Snapshot, table
    <3> QED
      BY <1>a, <3>1, <3>2
  <2>2. CASE Concludes(r, "write_failed")
    <3>1. /\ run'[r].snap = run[r].snap /\ run'[r].job = run[r].job /\ run'[r].pc = "record"
          /\ UNCHANGED table
      BY <1>0, <1>4, <2>2 DEF Prune, Concludes, RunState
    <3> QED
      BY <1>a, <1>b, <3>1
  <2> QED
    BY <1>4, <2>1, <2>2 DEF Prune
<1>5. ASSUME NEW job \in Jobs, CommitLands(r, job)
      PROVE  ReadInv'
  <2>1. /\ run'[r].snap = run[r].snap /\ run'[r].job = run[r].job /\ run'[r].pc = "record"
        /\ exists /\ exists' = exists
    BY <1>0, <1>5 DEF CommitLands, Writes, Concludes, RunState
  <2>2. \E c \in Commit : history' = Append(history, c)
    BY <1>0, <1>5 DEF CommitLands, Writes, Commit, Authors, RunState
  <2>3. Snapshot' = Snapshot + 1
    BY <2>2 DEF Snapshot, TypeOK
  <2>4. \A q \in Runs \ {r} : ReadInvOf(q)'
    BY <1>1, <2>2, ReadInvFrame DEF ReadInv
  <2>5. run[r].snap \in Nat /\ run[r].snap <= Snapshot' 
    BY <1>0, <2>3 DEF ReadInvOf, RunState
  <2>6. ReadInvOf(r)'
    BY <1>0, <2>1, <2>5 DEF ReadInvOf, ReadIsCurrentOf
  <2> QED
    BY <2>1, <2>4, <2>6 DEF ReadInv
<1>6. CASE CommitConflicts(r)
  <2>1. CASE run' = [run EXCEPT ![r].attempt = @ + 1, ![r].snap = 0, ![r].found = {},
                                ![r].under = {}, ![r].pc = "snapshot"]
    <3>1. run'[r].snap = 0 /\ run'[r].pc = "snapshot" /\ run'[r].job = run[r].job /\ UNCHANGED table
      BY <1>0, <1>6, <2>1 DEF CommitConflicts, Overtaken, RunState
    <3>2. ReadInvOf(r)'
      BY <1>0, <3>1 DEF ReadInvOf, ReadIsCurrentOf, Snapshot, table
    <3> QED
      BY <1>a, <3>1, <3>2
  <2>2. CASE Concludes(r, "conflict")
    <3>1. /\ run'[r].snap = run[r].snap /\ run'[r].job = run[r].job /\ run'[r].pc = "record"
          /\ UNCHANGED table
      BY <1>0, <1>6, <2>2 DEF CommitConflicts, Overtaken, Concludes, RunState
    <3> QED
      BY <1>a, <1>b, <3>1
  <2> QED
    BY <1>6, <2>1, <2>2 DEF CommitConflicts
<1>7. CASE CommitFails(r)
  <2>1. /\ run'[r].snap = run[r].snap /\ run'[r].job = run[r].job /\ run'[r].pc = "record"
        /\ UNCHANGED table
    BY <1>0, <1>7 DEF CommitFails, Concludes, RunState
  <2> QED
    BY <1>a, <1>b, <2>1
<1>8. CASE RecordLands(r)
  <2>1. /\ run'[r].snap = run[r].snap /\ run'[r].job = run[r].job /\ run'[r].pc = "done"
        /\ UNCHANGED table
    BY <1>0, <1>8 DEF RecordLands, RunState
  <2> QED
    BY <1>a, <1>b, <2>1
<1>9. CASE RecordErrs(r)
  <2>1. /\ run'[r].snap = run[r].snap /\ run'[r].job = run[r].job
        /\ run'[r].pc \in {"record", "done"} /\ UNCHANGED table
    BY <1>0, <1>9 DEF RecordErrs, AppendErrs, RunState
  <2> QED
    BY <1>a, <1>b, <2>1
<1> QED
  BY <1>2, <1>3, <1>4, <1>5, <1>6, <1>7, <1>8, <1>9 DEF RunStep

(* So does every step. *)
LEMMA ReadInvNext ==
    ASSUME ~ FlakyProbe, TypeOK, TypeOK', ReadInv, [Next]_vars
    PROVE  ReadInv'
<1> USE RuntimeAssumption, RulesAssumption
<1>0. run \in [Runs -> RunState] /\ Snapshot \in Nat
  BY DEF TypeOK, Snapshot
<1>1. ASSUME NEW r \in Runs, RunStep(r) PROVE ReadInv'
  BY <1>1, ReadInvRunStep
<1>2. ASSUME NEW r \in Runs, NEW pc, NEW job \in SUBSET Jobs, pc \notin {"prune", "commit", "idle"},
             UNCHANGED table, \A j, k \in job : j = k,
             run'[r].snap = run[r].snap, run'[r].job = job, run'[r].pc = pc,
             \A q \in Runs \ {r} : run'[q] = run[q]
      PROVE  ReadInv'
  <2>1. ReadInvOf(r)'
    BY <1>2 DEF ReadInvOf, ReadIsCurrentOf, ReadInv, Snapshot, table
  <2>2. \A q \in Runs \ {r} : ReadInvOf(q)'
    BY <1>2, ReadInvFrame DEF ReadInv, table
  <2> QED
    BY <1>2, <2>1, <2>2 DEF ReadInv, table
<1>3. ASSUME NEW r \in Runs, Die(r) PROVE ReadInv'
  <2>1. run' = [run EXCEPT ![r].pc = "dead"] /\ UNCHANGED table /\ run[r] \in RunState
    BY <1>0, <1>3 DEF Die
  <2>2. /\ run'[r].snap = run[r].snap /\ run'[r].job = run[r].job /\ run'[r].pc = "dead"
        /\ run[r].job \in SUBSET Jobs
    BY <1>0, <2>1 DEF RunState
  <2>3. \A j, k \in run[r].job : j = k
    BY DEF ReadInv, ReadInvOf
  <2>4. \A q \in Runs \ {r} : run'[q] = run[q]
    BY <1>3, OthersKeep
  <2> QED
    BY <1>2, <2>1, <2>2, <2>3, <2>4
<1>4. ASSUME NEW r \in Runs, NEW job \in Jobs, Start(r, job) PROVE ReadInv'
  <2>1. run[r] \in RunState /\ UNCHANGED table
    BY <1>0, <1>4 DEF Start
  <2>2. /\ run'[r].snap = run[r].snap /\ run'[r].job = {job}
        /\ run'[r].pc \in {"snapshot", "done"}
    BY <1>0, <1>4, <2>1 DEF Start, RunState
  <2>3. \A q \in Runs \ {r} : run'[q] = run[q]
    BY <1>4, OthersKeep
  <2>4. \A j, k \in {job} : j = k
    OBVIOUS
  <2>5. {job} \in SUBSET Jobs
    OBVIOUS
  <2> QED
    BY <1>2, <2>1, <2>2, <2>3, <2>4, <2>5
<1>5. CASE CreateTable
  <2>1. exists' = TRUE /\ UNCHANGED <<rows, history, run>>
    BY <1>5 DEF CreateTable
  <2>2. \A q \in Runs : ReadInvOf(q)'
    BY <2>1, ReadInvFrame DEF ReadInv
  <2> QED
    BY <2>1, <2>2 DEF ReadInv
<1>6. ASSUME NEW c \in Columns, RenameColumn(c) PROVE ReadInv'
  <2>1. UNCHANGED <<exists, rows, history, run>>
    BY <1>6 DEF RenameColumn
  <2>2. \A q \in Runs : ReadInvOf(q)'
    BY <2>1, ReadInvFrame DEF ReadInv
  <2> QED
    BY <2>1, <2>2 DEF ReadInv
<1>7. ASSUME NEW o \in Outsiders, OutsideCommit(o) PROVE ReadInv'
  <2>1. exists /\ UNCHANGED <<exists, run>>
    BY <1>7 DEF OutsideCommit
  <2>2. [stamp |-> o, base |-> Snapshot] \in Commit
    BY <1>0 DEF Commit, Authors
  <2>3. \E c \in Commit : history' = Append(history, c)
    BY <1>7, <2>2 DEF OutsideCommit
  <2>4. \A q \in Runs : ReadInvOf(q)'
    BY <2>1, <2>3, ReadInvFrame DEF ReadInv
  <2> QED
    BY <2>1, <2>4 DEF ReadInv
<1>8. CASE UNCHANGED vars
  <2>1. UNCHANGED <<exists, rows, history, run>>
    BY <1>8 DEF vars
  <2>2. \A q \in Runs : ReadInvOf(q)'
    BY <2>1, ReadInvFrame DEF ReadInv
  <2> QED
    BY <2>1, <2>2 DEF ReadInv
<1> QED
  BY <1>1, <1>3, <1>4, <1>5, <1>6, <1>7, <1>8 DEF Next

LEMMA ReadInvInit == Init => ReadInv
<1> SUFFICES ASSUME Init PROVE ReadInv
  OBVIOUS
<1>1. exists \/ (rows = {} /\ history = << >>)
  BY DEF Init
<1>2. Snapshot \in Nat
  BY DEF Init, Snapshot
<1>3. \A r \in Runs : run[r] = Idle
  BY DEF Init
<1>4. \A r \in Runs : ReadInvOf(r)
  BY <1>2, <1>3 DEF ReadInvOf, ReadIsCurrentOf, Idle
<1> QED
  BY <1>1, <1>4 DEF ReadInv

LEMMA ReadInvAlways == ASSUME ~ FlakyProbe PROVE Spec => [](TypeOK /\ ReadInv)
<1>1. TypeOK /\ TypeOK' /\ ReadInv /\ [Next]_vars => ReadInv'
  BY ReadInvNext
<1> QED
  BY <1>1, TypeCorrect, ReadInvInit, PTL DEF Spec

(* With a truthful existence probe, the rows a run decided on are the table's  *)
(* whenever the snapshot it asserts is.                                        *)
THEOREM ReadStaysCurrent == ASSUME ~ FlakyProbe PROVE Spec => []ReadIsCurrent
<1>1. TypeOK /\ ReadInv => ReadIsCurrent
  BY DEF ReadInv, ReadInvOf, ReadIsCurrentOf, ReadIsCurrent
<1> QED
  BY <1>1, ReadInvAlways, PTL

-----------------------------------------------------------------------------
(* What a run reports agrees with the table. *)

(* The strengthening: an outcome is decided once, by the step that makes it so. *)
OutcomeInvOf(r) ==
    /\ \A i, j \in CommitsOf(r) : i = j
    /\ run[r].outcome = "applied" => CommitsOf(r) # {}
    /\ CommitsOf(r) # {} => run[r].outcome \in {"applied", "write_failed"}
    /\ run[r].pc \in {"idle", "snapshot", "row", "prune", "commit"} => run[r].outcome = "none"

OutcomeInv == \A r \in Runs : OutcomeInvOf(r)

(* A commit adds one entry, to the history of its author only. *)
LEMMA AppendCommits ==
    ASSUME history \in Seq(Commit), NEW c \in Commit, history' = Append(history, c), NEW a
    PROVE  CommitsOf(a)' = CommitsOf(a) \cup {i \in {Len(history) + 1} : c.stamp = a}
<1>1. DOMAIN history = 1..Len(history) /\ DOMAIN history' = 1..(Len(history) + 1)
      /\ Len(history) \in Nat
  OBVIOUS
<1>2. \A i \in DOMAIN history : history'[i] = history[i]
  OBVIOUS
<1>3. history'[Len(history) + 1] = c
  OBVIOUS
<1>4. DOMAIN history' = DOMAIN history \cup {Len(history) + 1}
      /\ Len(history) + 1 \notin DOMAIN history
  BY <1>1
<1> QED
  BY <1>2, <1>3, <1>4, Zenon DEF CommitsOf

(* A resting run keeps its part when nothing, or another author, commits. *)
LEMMA OutcomeFrame ==
    ASSUME TypeOK, NEW q \in Runs, OutcomeInvOf(q), run'[q] = run[q],
           \/ UNCHANGED history
           \/ \E c \in Commit : history' = Append(history, c) /\ c.stamp # q
    PROVE  OutcomeInvOf(q)'
<1>1. CommitsOf(q)' = CommitsOf(q)
  <2>1. CASE UNCHANGED history
    BY <2>1 DEF CommitsOf
  <2>2. CASE \E c \in Commit : history' = Append(history, c) /\ c.stamp # q
    <3>1. PICK c \in Commit : history' = Append(history, c) /\ c.stamp # q
      BY <2>2
    <3>2. CommitsOf(q)' = CommitsOf(q) \cup {i \in {Len(history) + 1} : c.stamp = q}
      BY <3>1, AppendCommits DEF TypeOK
    <3> QED
      BY <3>1, <3>2
  <2> QED
    BY <2>1, <2>2
<1> QED
  BY <1>1 DEF OutcomeInvOf

(* The steps of a run keep the invariant. *)
LEMMA OutcomeRunStep ==
    ASSUME TypeOK, OutcomeInv, NEW r \in Runs, RunStep(r) \/ Die(r) \/ \E job \in Jobs : Start(r, job)
    PROVE  OutcomeInv'
<1>0. run \in [Runs -> RunState] /\ run[r] \in RunState /\ OutcomeInvOf(r)
  BY DEF TypeOK, OutcomeInv
<1>1. \A q \in Runs \ {r} : run'[q] = run[q]
  BY OthersKeep
<1>a. ASSUME UNCHANGED history, OutcomeInvOf(r)' PROVE OutcomeInv'
  BY <1>1, <1>a, OutcomeFrame DEF OutcomeInv
<1>b. ASSUME UNCHANGED history, run'[r].outcome = run[r].outcome,
             \/ run'[r].pc \in {"record", "done", "dead"}
             \/ run[r].pc \in {"idle", "snapshot", "row", "prune", "commit"}
      PROVE  OutcomeInv'
  <2>1. CommitsOf(r)' = CommitsOf(r)
    BY <1>b DEF CommitsOf
  <2>2. OutcomeInvOf(r)'
    BY <1>0, <1>b, <2>1 DEF OutcomeInvOf
  <2> QED
    BY <1>a, <1>b, <2>2
<1>c. ASSUME UNCHANGED history, run[r].pc \in {"idle", "snapshot", "row", "prune", "commit"},
             run'[r].outcome # "applied", run'[r].pc \in {"record", "done"} \/ run'[r].outcome = "none"
      PROVE  OutcomeInv'
  <2>1. CommitsOf(r)' = CommitsOf(r)
    BY <1>c DEF CommitsOf
  <2>2. CommitsOf(r) = {}
    BY <1>0, <1>c DEF OutcomeInvOf
  <2>3. OutcomeInvOf(r)'
    BY <1>c, <2>1, <2>2 DEF OutcomeInvOf
  <2> QED
    BY <1>a, <1>c, <2>3
<1>2. CASE ReadSnapshot(r)
  <2>1. run'[r].outcome = run[r].outcome /\ run[r].pc = "snapshot" /\ UNCHANGED history
    BY <1>0, <1>2 DEF ReadSnapshot, RunState, table
  <2> QED
    BY <1>b, <2>1
<1>3. ASSUME NEW job \in Jobs, ReadRow(r, job) PROVE OutcomeInv'
  <2>1. run[r].pc = "row" /\ UNCHANGED history
    BY <1>3 DEF ReadRow, table
  <2>2. run'[r].outcome # "applied" /\ (run'[r].pc \in {"record", "done"} \/ run'[r].outcome = "none")
    <3>1. \A found : Decision(job, found, renamed) # "applied"
      BY DEF Decision
    <3>2. PICK probe \in BOOLEAN :
             LET found == {x \in rows : x.key = job.key /\ probe}
                 decision == Decision(job, found, renamed)
             IN  /\ run'[r].outcome = IF decision # "go" THEN decision
                                      ELSE IF job.dry THEN "previewed" ELSE "none"
                 /\ run'[r].pc \in IF run'[r].outcome = "none" THEN {"prune", "commit"}
                                   ELSE {"record", "done"}
      BY <1>0, <1>3, ReadRowEffect
    <3> QED
      BY <3>1, <3>2
  <2> QED
    BY <1>c, <2>1, <2>2
<1>4. ASSUME NEW job \in Jobs, Prune(r, job) PROVE OutcomeInv'
  <2>1. run[r].pc = "prune" /\ UNCHANGED history
    BY <1>4 DEF Prune, table
  <2>2. CASE run' = [run EXCEPT ![r].pc = "commit"]
    <3>1. run'[r].outcome = run[r].outcome
      BY <1>0, <2>2 DEF RunState
    <3> QED
      BY <1>b, <2>1, <3>1
  <2>3. CASE Concludes(r, "write_failed")
    BY <1>0, <1>c, <2>1, <2>3, ConcludesEffect
  <2> QED
    BY <1>4, <2>2, <2>3 DEF Prune
<1>5. ASSUME NEW job \in Jobs, CommitLands(r, job) PROVE OutcomeInv'
  <2>1. PICK c \in Commit : history' = Append(history, c) /\ c.stamp = r
    <3>1. [stamp |-> r, base |-> run[r].snap] \in Commit
      BY <1>0 DEF Commit, Authors, RunState
    <3> QED
      BY <1>5, <3>1 DEF CommitLands, Writes
  <2>2. CommitsOf(r) = {}
    BY <1>0, <1>5 DEF OutcomeInvOf, CommitLands, Writes
  <2>3. CommitsOf(r)' = {Len(history) + 1}
    BY <2>1, <2>2, AppendCommits DEF TypeOK
  <2>4. run'[r].pc = "record" /\ run'[r].outcome \in {"applied", "write_failed"}
    BY <1>0, <1>5, ConcludesEffect DEF CommitLands
  <2>5. OutcomeInvOf(r)'
    BY <2>3, <2>4 DEF OutcomeInvOf
  <2>6. \A q \in Runs \ {r} : OutcomeInvOf(q)'
    BY <1>1, <2>1, OutcomeFrame DEF OutcomeInv
  <2> QED
    BY <2>5, <2>6 DEF OutcomeInv
<1>6. CASE CommitConflicts(r)
  <2>1. run[r].pc = "commit" /\ UNCHANGED history
    BY <1>6 DEF CommitConflicts, Overtaken, table
  <2>2. CASE run' = [run EXCEPT ![r].attempt = @ + 1, ![r].snap = 0, ![r].found = {},
                                ![r].under = {}, ![r].pc = "snapshot"]
    <3>1. run'[r].outcome = run[r].outcome
      BY <1>0, <2>2 DEF RunState
    <3> QED
      BY <1>b, <2>1, <3>1
  <2>3. CASE Concludes(r, "conflict")
    BY <1>0, <1>c, <2>1, <2>3, ConcludesEffect
  <2> QED
    BY <1>6, <2>2, <2>3 DEF CommitConflicts
<1>7. CASE CommitFails(r)
  BY <1>0, <1>7, <1>c, ConcludesEffect DEF CommitFails, table
<1>8. CASE RecordLands(r)
  <2>1. run'[r].outcome = run[r].outcome /\ run'[r].pc = "done" /\ UNCHANGED history
    BY <1>0, <1>8 DEF RecordLands, RunState, table
  <2> QED
    BY <1>b, <2>1
<1>9. CASE RecordErrs(r)
  <2>1. run'[r].outcome = run[r].outcome /\ run'[r].pc \in {"record", "done"} /\ UNCHANGED history
    BY <1>0, <1>9 DEF RecordErrs, AppendErrs, RunState, table
  <2> QED
    BY <1>b, <2>1
<1>10. CASE Die(r)
  <2>1. run'[r].outcome = run[r].outcome /\ run'[r].pc = "dead" /\ UNCHANGED history
    BY <1>0, <1>10 DEF Die, RunState, table
  <2> QED
    BY <1>b, <2>1
<1>11. ASSUME NEW job \in Jobs, Start(r, job) PROVE OutcomeInv'
  <2>1. /\ run[r].pc = "idle" /\ UNCHANGED history /\ run'[r].outcome \in {"none", "unbound"}
        /\ run'[r].pc = "done" \/ run'[r].outcome = "none"
    BY <1>0, <1>11 DEF Start, RunState, table
  <2> QED
    BY <1>c, <2>1
<1> QED
  BY <1>2, <1>3, <1>4, <1>5, <1>6, <1>7, <1>8, <1>9, <1>10, <1>11 DEF RunStep

LEMMA OutcomeInvInit == Init => OutcomeInv
<1> SUFFICES ASSUME Init, NEW r \in Runs PROVE OutcomeInvOf(r)
  BY DEF OutcomeInv
<1>1. run[r] = Idle
  BY DEF Init
<1>2. CommitsOf(r) = {}
  BY RulesAssumption DEF Init, CommitsOf
<1> QED
  BY <1>1, <1>2 DEF OutcomeInvOf, Idle

LEMMA OutcomeInvNext ==
    ASSUME TypeOK, OutcomeInv, [Next]_vars
    PROVE  OutcomeInv'
<1>1. ASSUME NEW r \in Runs, RunStep(r) \/ Die(r) \/ \E job \in Jobs : Start(r, job)
      PROVE  OutcomeInv'
  BY <1>1, OutcomeRunStep
<1>2. ASSUME UNCHANGED run,
             \/ UNCHANGED history
             \/ \E c \in Commit : history' = Append(history, c) /\ c.stamp \notin Runs
      PROVE  OutcomeInv'
  BY <1>2, OutcomeFrame DEF OutcomeInv
<1>3. CASE CreateTable
  BY <1>2, <1>3 DEF CreateTable
<1>4. ASSUME NEW c \in Columns, RenameColumn(c) PROVE OutcomeInv'
  BY <1>2, <1>4 DEF RenameColumn
<1>5. ASSUME NEW o \in Outsiders, OutsideCommit(o) PROVE OutcomeInv'
  <2>1. [stamp |-> o, base |-> Snapshot] \in Commit
    BY DEF Commit, Authors, Snapshot, TypeOK
  <2>2. o \notin Runs
    BY RulesAssumption
  <2> QED
    BY <1>2, <1>5, <2>1, <2>2 DEF OutsideCommit
<1>6. CASE UNCHANGED vars
  BY <1>2, <1>6 DEF vars
<1> QED
  BY <1>1, <1>3, <1>4, <1>5, <1>6 DEF Next

LEMMA OutcomeInvAlways == Spec => [](TypeOK /\ OutcomeInv)
<1>1. TypeOK /\ OutcomeInv /\ [Next]_vars => OutcomeInv'
  BY OutcomeInvNext
<1> QED
  BY <1>1, TypeCorrect, OutcomeInvInit, PTL DEF Spec

(* An edit commits at most once, applied means it did, and a run that did says *)
(* applied or failed: whatever the faults, the schema changes and the probe.   *)
THEOREM OutcomeAgrees == Spec => []OutcomeAgreesWithHistory
<1>1. OutcomeInv => OutcomeAgreesWithHistory
  BY DEF OutcomeInv, OutcomeInvOf, OutcomeAgreesWithHistory
<1> QED
  BY <1>1, OutcomeInvAlways, PTL

-----------------------------------------------------------------------------
(* What ended is in the log. *)

(* The strengthening: a run has one job, and what ended stays accounted for. *)
Accounted(r, job) ==
    \/ run[r].logLost
    \/ \E i \in DOMAIN editLog : editLog[i] = Entry(r)
    \/ job.dry /\ ~ (job.recordRefusals /\ run[r].outcome \in Refusals)

LoggedInvOf(r) ==
    /\ \A j, k \in run[r].job : j = k
    /\ \A job \in run[r].job : run[r].pc = "done" /\ job.binds => Accounted(r, job)

LoggedInv == \A r \in Runs : LoggedInvOf(r)

(* The log keeps what is in it. *)
LEMMA LogKeeps ==
    ASSUME editLog \in Seq(EditRecords), NEW entry \in EditRecords,
           editLog' \in {editLog, Append(editLog, entry)}
    PROVE  /\ \A i \in DOMAIN editLog : i \in DOMAIN editLog' /\ editLog'[i] = editLog[i]
           /\ editLog' = Append(editLog, entry) => \E i \in DOMAIN editLog' : editLog'[i] = entry
<1>1. CASE editLog' = editLog /\ editLog' # Append(editLog, entry)
  BY <1>1
<1>2. CASE editLog' = Append(editLog, entry)
  <2>1. /\ DOMAIN editLog = 1..Len(editLog) /\ Len(editLog) \in Nat
        /\ DOMAIN editLog' = 1..(Len(editLog) + 1)
        /\ editLog'[Len(editLog) + 1] = entry
        /\ \A i \in DOMAIN editLog : editLog'[i] = editLog[i]
    BY <1>2
  <2> QED
    BY <2>1
<1> QED
  BY <1>1, <1>2

\* A run that rests keeps its part.
LEMMA LoggedFrame ==
    ASSUME NEW q \in Runs, LoggedInvOf(q), run'[q] = run[q],
           \A i \in DOMAIN editLog : i \in DOMAIN editLog' /\ editLog'[i] = editLog[i]
    PROVE  LoggedInvOf(q)'
<1>1. \A job : Accounted(q, job) => Accounted(q, job)'
  BY DEF Accounted, Entry
<1> QED
  BY <1>1 DEF LoggedInvOf

(* What a step of a run logs, and where it ends. *)
LEMMA LoggedStep ==
    ASSUME TypeOK, LoggedInv, NEW r \in Runs, RunStep(r) \/ Die(r) \/ \E job \in Jobs : Start(r, job)
    PROVE  LoggedInv'
<1>0. run \in [Runs -> RunState] /\ run[r] \in RunState /\ LoggedInvOf(r) /\ editLog \in Seq(EditRecords)
  BY DEF TypeOK, LoggedInv
<1>1. \A q \in Runs \ {r} : run'[q] = run[q]
  BY OthersKeep
<1>2. Entry(r) \in EditRecords
  BY <1>0 DEF Entry, EditRecords, RunState
<1>3. ASSUME editLog' \in {editLog, Append(editLog, Entry(r))}, LoggedInvOf(r)' PROVE LoggedInv'
  BY <1>0, <1>1, <1>2, <1>3, LogKeeps, LoggedFrame DEF LoggedInv
<1>4. ASSUME UNCHANGED editLog, run'[r].job = run[r].job, run'[r].pc # "done" PROVE LoggedInv'
  BY <1>0, <1>3, <1>4 DEF LoggedInvOf
<1>5. CASE ReadSnapshot(r)
  BY <1>0, <1>4, <1>5 DEF ReadSnapshot, RunState
<1>6. ASSUME NEW job \in Jobs, ReadRow(r, job) PROVE LoggedInv'
  <2>1. job \in run[r].job /\ UNCHANGED editLog
    BY <1>6 DEF ReadRow, table
  <2>2. /\ run'[r].job = run[r].job
        /\ run'[r].outcome # "none" => run'[r].pc = Concluded(job, run'[r].outcome)
        /\ run'[r].pc = "done" => run'[r].outcome # "none"
    BY <1>0, <1>6, ReadRowEffect
  <2>3. run'[r].pc = "done" => job.dry /\ ~ (job.recordRefusals /\ run'[r].outcome \in Refusals)
    <3>1. \A outcome : outcome \in Refusals => Status(outcome) = "refused"
      BY DEF Refusals, Status
    <3> QED
      BY <2>2, <3>1 DEF Concluded
  <2>4. LoggedInvOf(r)'
    BY <1>0, <2>1, <2>2, <2>3 DEF LoggedInvOf, Accounted
  <2> QED
    BY <1>3, <2>1, <2>4
<1>7. ASSUME NEW job \in Jobs, Prune(r, job) PROVE LoggedInv'
  <2>1. run'[r].job = run[r].job /\ run'[r].pc # "done"
    <3>1. CASE run' = [run EXCEPT ![r].pc = "commit"]
      BY <1>0, <3>1 DEF RunState
    <3>2. CASE Concludes(r, "write_failed")
      BY <1>0, <3>2, ConcludesEffect
    <3> QED
      BY <1>7, <3>1, <3>2 DEF Prune
  <2> QED
    BY <1>4, <1>7, <2>1 DEF Prune
<1>8. ASSUME NEW job \in Jobs, CommitLands(r, job) PROVE LoggedInv'
  BY <1>0, <1>4, <1>8, ConcludesEffect DEF CommitLands, Writes
<1>9. CASE CommitConflicts(r)
  <2>1. run'[r].job = run[r].job /\ run'[r].pc # "done"
    <3>1. CASE run' = [run EXCEPT ![r].attempt = @ + 1, ![r].snap = 0, ![r].found = {},
                                  ![r].under = {}, ![r].pc = "snapshot"]
      BY <1>0, <3>1 DEF RunState
    <3>2. CASE Concludes(r, "conflict")
      BY <1>0, <3>2, ConcludesEffect
    <3> QED
      BY <1>9, <3>1, <3>2 DEF CommitConflicts
  <2> QED
    BY <1>4, <1>9, <2>1 DEF CommitConflicts, Overtaken
<1>10. CASE CommitFails(r)
  BY <1>0, <1>4, <1>10, ConcludesEffect DEF CommitFails
<1>11. CASE RecordLands(r)
  <2>1. /\ run'[r].outcome = run[r].outcome /\ run'[r].attempt = run[r].attempt
        /\ run'[r].job = run[r].job /\ editLog' = Append(editLog, Entry(r))
    BY <1>0, <1>11 DEF RecordLands, RunState
  <2>2. Entry(r)' = Entry(r)
    BY <2>1 DEF Entry
  <2>3. \E i \in DOMAIN editLog' : editLog'[i] = Entry(r)
    BY <1>0, <1>2, <2>1, LogKeeps
  <2>4. LoggedInvOf(r)'
    BY <1>0, <2>1, <2>2, <2>3 DEF LoggedInvOf, Accounted
  <2> QED
    BY <1>3, <2>1, <2>4
<1>12. CASE RecordErrs(r)
  <2>1. run'[r].job = run[r].job /\ (run'[r].pc = "done" => run'[r].logLost)
    BY <1>0, <1>12 DEF RecordErrs, AppendErrs, RunState
  <2>2. LoggedInvOf(r)'
    BY <1>0, <2>1 DEF LoggedInvOf, Accounted
  <2> QED
    BY <1>3, <1>12, <2>2 DEF RecordErrs, AppendErrs
<1>13. CASE Die(r)
  BY <1>0, <1>4, <1>13 DEF Die, RunState
<1>14. ASSUME NEW job \in Jobs, Start(r, job) PROVE LoggedInv'
  <2>1. run'[r].job = {job} /\ (run'[r].pc = "done" => ~ job.binds) /\ UNCHANGED editLog
    BY <1>0, <1>14 DEF Start, RunState, table
  <2>2. LoggedInvOf(r)'
    BY <2>1 DEF LoggedInvOf
  <2> QED
    BY <1>3, <2>1, <2>2
<1> QED
  BY <1>5, <1>6, <1>7, <1>8, <1>9, <1>10, <1>11, <1>12, <1>13, <1>14 DEF RunStep

(* A run that ended is in the log, whatever the faults: unless it said that its *)
(* record was lost, or it was a preview nobody asked to record (runtime.py,     *)
(* _record; log.py, record).                                                    *)
THEOREM EndedRunsAreLogged == Spec => []EndedRunsAreAccountedFor
<1>1. Init => LoggedInv
  BY DEF Init, LoggedInv, LoggedInvOf, Idle
<1>2. TypeOK /\ LoggedInv /\ [Next]_vars => LoggedInv'
  <2> SUFFICES ASSUME TypeOK, LoggedInv, [Next]_vars PROVE LoggedInv'
    OBVIOUS
  <2>1. ASSUME NEW r \in Runs, RunStep(r) \/ Die(r) \/ \E job \in Jobs : Start(r, job)
        PROVE  LoggedInv'
    BY <2>1, LoggedStep
  <2>2. ASSUME UNCHANGED <<run, editLog>> PROVE LoggedInv'
    BY <2>2, LoggedFrame DEF LoggedInv
  <2>3. CASE CreateTable
    BY <2>2, <2>3 DEF CreateTable
  <2>4. ASSUME NEW c \in Columns, RenameColumn(c) PROVE LoggedInv'
    BY <2>2, <2>4 DEF RenameColumn
  <2>5. ASSUME NEW o \in Outsiders, OutsideCommit(o) PROVE LoggedInv'
    BY <2>2, <2>5 DEF OutsideCommit
  <2>6. CASE UNCHANGED vars
    BY <2>2, <2>6 DEF vars
  <2> QED
    BY <2>1, <2>3, <2>4, <2>5, <2>6 DEF Next
<1>3. LoggedInv => EndedRunsAreAccountedFor
  BY DEF LoggedInv, LoggedInvOf, Accounted, EndedRunsAreAccountedFor
<1> QED
  BY <1>1, <1>2, <1>3, TypeCorrect, PTL DEF Spec

-----------------------------------------------------------------------------
(* Who reports a conflict was overtaken. *)

(* The strengthening: for every attempt a run gave up, its table had a commit   *)
(* when it began the next one, and still more when it gave up the last.         *)
AttemptInvOf(r) ==
    /\ run[r].pc \in {"idle", "snapshot"} => run[r].attempt <= Snapshot + 1
    /\ run[r].pc \in {"row", "prune", "commit"} => run[r].attempt <= run[r].snap + 1
    /\ run[r].outcome = "conflict" => MaxAttempts <= Snapshot

AttemptInv == \A r \in Runs : AttemptInvOf(r)

\* Commits there are stay.
LEMMA AttemptFrame ==
    ASSUME TypeOK, TypeOK', NEW q \in Runs, AttemptInvOf(q), run'[q] = run[q], Snapshot <= Snapshot'
    PROVE  AttemptInvOf(q)'
<1>1. Snapshot \in Nat /\ Snapshot' \in Nat /\ run[q].attempt \in Nat /\ MaxAttempts \in Nat
  BY RuntimeAssumption DEF TypeOK, Snapshot, RunState
<1>2. (run[q].attempt <= Snapshot + 1) => (run[q].attempt <= Snapshot' + 1)
  BY <1>1
<1>3. (MaxAttempts <= Snapshot) => (MaxAttempts <= Snapshot')
  BY <1>1
<1> QED
  BY <1>2, <1>3 DEF AttemptInvOf

LEMMA AttemptStep ==
    ASSUME ~ FlakyProbe, TypeOK, TypeOK', ReadInv, OutcomeInv, AttemptInv, NEW r \in Runs,
           RunStep(r) \/ Die(r) \/ \E job \in Jobs : Start(r, job)
    PROVE  AttemptInv'
<1> USE RuntimeAssumption
<1>0. /\ run \in [Runs -> RunState] /\ run[r] \in RunState /\ AttemptInvOf(r)
      /\ Snapshot \in Nat /\ run[r].snap \in Nat /\ run[r].attempt \in 1..MaxAttempts
      /\ ReadInvOf(r) /\ OutcomeInvOf(r)
  BY DEF TypeOK, AttemptInv, ReadInv, OutcomeInv, RunState, Snapshot
<1>1. \A q \in Runs \ {r} : run'[q] = run[q]
  BY OthersKeep
<1>2. ASSUME Snapshot <= Snapshot', AttemptInvOf(r)' PROVE AttemptInv'
  BY <1>1, <1>2, AttemptFrame DEF AttemptInv
<1>3. ASSUME UNCHANGED history, AttemptInvOf(r)' PROVE AttemptInv'
  BY <1>0, <1>2, <1>3 DEF Snapshot
<1>4. ASSUME UNCHANGED history, run'[r].outcome = run[r].outcome \/ run'[r].outcome # "conflict",
             run'[r].pc \in {"record", "done", "dead"}
      PROVE  AttemptInv'
  BY <1>0, <1>3, <1>4 DEF AttemptInvOf, Snapshot
<1>5. CASE ReadSnapshot(r)
  <2>1. PICK probe \in BOOLEAN :
           /\ Probe(probe)
           /\ run' = [run EXCEPT ![r].snap = IF probe THEN Snapshot ELSE 0, ![r].pc = "row"]
    BY <1>5 DEF ReadSnapshot
  <2>2. run'[r].snap = Snapshot
    <3>1. probe = exists
      BY <2>1 DEF Probe
    <3>2. ~ exists => Snapshot = 0
      BY DEF ReadInv, Snapshot
    <3> QED
      BY <1>0, <2>1, <3>1, <3>2 DEF RunState
  <2>3. /\ run'[r].pc = "row" /\ run'[r].attempt = run[r].attempt /\ run'[r].outcome = run[r].outcome
        /\ run[r].pc = "snapshot" /\ UNCHANGED history
    BY <1>0, <1>5, <2>1 DEF ReadSnapshot, RunState, table
  <2>4. AttemptInvOf(r)'
    BY <1>0, <2>2, <2>3 DEF AttemptInvOf, Snapshot
  <2> QED
    BY <1>3, <2>3, <2>4
<1>6. ASSUME NEW job \in Jobs, ReadRow(r, job) PROVE AttemptInv'
  <2>1. run[r].pc = "row" /\ UNCHANGED history
    BY <1>6 DEF ReadRow, table
  <2>2. /\ run'[r].snap = run[r].snap /\ run'[r].attempt = run[r].attempt
        /\ run'[r].pc \in {"prune", "commit", "record", "done"} /\ run'[r].outcome # "conflict"
    <3>1. \A found : Decision(job, found, renamed) # "conflict"
      BY DEF Decision
    <3>2. PICK probe \in BOOLEAN :
             LET found == {x \in rows : x.key = job.key /\ probe}
                 decision == Decision(job, found, renamed)
             IN  /\ run'[r].snap = run[r].snap /\ run'[r].attempt = run[r].attempt
                 /\ run'[r].outcome = IF decision # "go" THEN decision
                                      ELSE IF job.dry THEN "previewed" ELSE "none"
                 /\ run'[r].pc \in IF run'[r].outcome = "none" THEN {"prune", "commit"}
                                   ELSE {"record", "done"}
      BY <1>0, <1>6, ReadRowEffect
    <3> QED
      BY <3>1, <3>2
  <2>3. AttemptInvOf(r)'
    BY <1>0, <2>1, <2>2 DEF AttemptInvOf, Snapshot
  <2> QED
    BY <1>3, <2>1, <2>3
<1>7. ASSUME NEW job \in Jobs, Prune(r, job) PROVE AttemptInv'
  <2>1. run[r].pc = "prune" /\ UNCHANGED history
    BY <1>7 DEF Prune, table
  <2>2. CASE run' = [run EXCEPT ![r].pc = "commit"]
    <3>1. /\ run'[r].snap = run[r].snap /\ run'[r].attempt = run[r].attempt
          /\ run'[r].pc = "commit" /\ run'[r].outcome = run[r].outcome
      BY <1>0, <2>2 DEF RunState
    <3>2. AttemptInvOf(r)'
      BY <1>0, <2>1, <3>1 DEF AttemptInvOf, Snapshot
    <3> QED
      BY <1>3, <2>1, <3>2
  <2>3. CASE Concludes(r, "write_failed")
    BY <1>0, <1>4, <2>1, <2>3, ConcludesEffect
  <2> QED
    BY <1>7, <2>2, <2>3 DEF Prune
<1>8. ASSUME NEW job \in Jobs, CommitLands(r, job) PROVE AttemptInv'
  <2>1. \E c \in Commit : history' = Append(history, c)
    BY <1>0, <1>8 DEF CommitLands, Writes, Commit, Authors
  <2>2. Snapshot' = Snapshot + 1
    BY <2>1 DEF TypeOK, Snapshot
  <2>3. run'[r].pc = "record" /\ run'[r].outcome # "conflict"
    BY <1>0, <1>8, ConcludesEffect DEF CommitLands
  <2>4. AttemptInvOf(r)'
    BY <2>3 DEF AttemptInvOf
  <2> QED
    BY <1>0, <1>2, <2>2, <2>4
<1>9. CASE CommitConflicts(r)
  <2>1. run[r].pc = "commit" /\ UNCHANGED history /\ run[r].snap # Snapshot
    BY <1>9 DEF CommitConflicts, Overtaken, table
  <2>2. run[r].attempt + 1 <= Snapshot + 1 /\ run[r].outcome = "none"
    BY <1>0, <2>1 DEF AttemptInvOf, ReadInvOf, OutcomeInvOf
  <2>3. CASE run' = [run EXCEPT ![r].attempt = @ + 1, ![r].snap = 0, ![r].found = {},
                                ![r].under = {}, ![r].pc = "snapshot"]
    <3>1. run'[r].pc = "snapshot" /\ run'[r].attempt = run[r].attempt + 1 /\ run'[r].outcome = "none"
      BY <1>0, <2>2, <2>3 DEF RunState
    <3>2. AttemptInvOf(r)'
      BY <2>1, <2>2, <3>1 DEF AttemptInvOf, Snapshot
    <3> QED
      BY <1>3, <2>1, <3>2
  <2>4. CASE run[r].attempt = MaxAttempts /\ Concludes(r, "conflict")
    <3>1. run'[r].pc = "record" /\ MaxAttempts <= Snapshot
      BY <1>0, <2>2, <2>4, ConcludesEffect
    <3>2. AttemptInvOf(r)'
      BY <2>1, <3>1 DEF AttemptInvOf, Snapshot
    <3> QED
      BY <1>3, <2>1, <3>2
  <2> QED
    BY <1>9, <2>3, <2>4 DEF CommitConflicts
<1>10. CASE CommitFails(r)
  BY <1>0, <1>4, <1>10, ConcludesEffect DEF CommitFails, table
<1>11. CASE RecordLands(r)
  <2>1. run'[r].outcome = run[r].outcome /\ run'[r].pc = "done" /\ UNCHANGED history
    BY <1>0, <1>11 DEF RecordLands, RunState, table
  <2> QED
    BY <1>4, <2>1
<1>12. CASE RecordErrs(r)
  <2>1. /\ run'[r].outcome = run[r].outcome /\ run'[r].pc \in {"record", "done"}
        /\ UNCHANGED history
    BY <1>0, <1>12 DEF RecordErrs, AppendErrs, RunState, table
  <2> QED
    BY <1>4, <2>1
<1>13. CASE Die(r)
  <2>1. run'[r].outcome = run[r].outcome /\ run'[r].pc = "dead" /\ UNCHANGED history
    BY <1>0, <1>13 DEF Die, RunState, table
  <2> QED
    BY <1>4, <2>1
<1>14. ASSUME NEW job \in Jobs, Start(r, job) PROVE AttemptInv'
  <2>1. /\ run[r].pc = "idle" /\ UNCHANGED history /\ run'[r].outcome \in {"none", "unbound"}
        /\ run'[r].pc \in {"snapshot", "done"} /\ run'[r].attempt = run[r].attempt
    BY <1>0, <1>14 DEF Start, RunState, table
  <2>2. AttemptInvOf(r)'
    BY <1>0, <2>1 DEF AttemptInvOf, Snapshot
  <2> QED
    BY <1>3, <2>1, <2>2
<1> QED
  BY <1>5, <1>6, <1>7, <1>8, <1>9, <1>10, <1>11, <1>12, <1>13, <1>14 DEF RunStep

LEMMA AttemptNext ==
    ASSUME ~ FlakyProbe, TypeOK, TypeOK', ReadInv, OutcomeInv, AttemptInv, [Next]_vars
    PROVE  AttemptInv'
<1>0. Snapshot \in Nat
  BY DEF TypeOK, Snapshot
<1>1. ASSUME NEW r \in Runs, RunStep(r) \/ Die(r) \/ \E job \in Jobs : Start(r, job)
      PROVE  AttemptInv'
  BY <1>1, AttemptStep
<1>2. ASSUME UNCHANGED run, Snapshot <= Snapshot' PROVE AttemptInv'
  BY <1>2, AttemptFrame DEF AttemptInv
<1>3. ASSUME UNCHANGED <<run, history>> PROVE AttemptInv'
  BY <1>0, <1>2, <1>3 DEF Snapshot
<1>4. CASE CreateTable
  BY <1>3, <1>4 DEF CreateTable
<1>5. ASSUME NEW c \in Columns, RenameColumn(c) PROVE AttemptInv'
  BY <1>3, <1>5 DEF RenameColumn
<1>6. ASSUME NEW o \in Outsiders, OutsideCommit(o) PROVE AttemptInv'
  <2>1. [stamp |-> o, base |-> Snapshot] \in Commit
    BY DEF Commit, Authors, Snapshot, TypeOK
  <2>2. history' = Append(history, [stamp |-> o, base |-> Snapshot]) /\ UNCHANGED run
    BY <1>6 DEF OutsideCommit
  <2>3. Snapshot' = Snapshot + 1
    BY <2>1, <2>2 DEF TypeOK, Snapshot
  <2> QED
    BY <1>0, <1>2, <2>2, <2>3
<1>7. CASE UNCHANGED vars
  BY <1>3, <1>7 DEF vars
<1> QED
  BY <1>1, <1>4, <1>5, <1>6, <1>7 DEF Next

(* While the existence probe tells the truth, a conflict is reported only by a  *)
(* run that others overtook once for each of its attempts: the snapshots of its *)
(* table are at least MaxAttempts, and none is its own (runtime.py, execute).   *)
THEOREM ConflictsAreLostRaces == ASSUME ~ FlakyProbe PROVE Spec => []ConflictMeansOvertaken
<1>1. Init => AttemptInv
  <2> SUFFICES ASSUME Init, NEW r \in Runs PROVE AttemptInvOf(r)
    BY DEF AttemptInv
  <2>1. run[r].pc = "idle" /\ run[r].attempt = 1 /\ run[r].outcome = "none"
    BY DEF Init, Idle
  <2>2. Snapshot \in Nat
    BY DEF Init, Snapshot
  <2> QED
    BY <2>1, <2>2 DEF AttemptInvOf
<1>2. TypeOK /\ TypeOK' /\ ReadInv /\ OutcomeInv /\ AttemptInv /\ [Next]_vars => AttemptInv'
  BY AttemptNext
<1>3. TypeOK /\ OutcomeInv /\ AttemptInv => ConflictMeansOvertaken
  <2> SUFFICES ASSUME TypeOK, OutcomeInv, AttemptInv, NEW r \in Runs, run[r].outcome = "conflict"
               PROVE  Cardinality(DOMAIN history \ CommitsOf(r)) >= MaxAttempts
    BY DEF ConflictMeansOvertaken
  <2>1. CommitsOf(r) = {} /\ MaxAttempts <= Snapshot
    BY DEF OutcomeInv, OutcomeInvOf, AttemptInv, AttemptInvOf
  <2>2. DOMAIN history \ CommitsOf(r) = 1..Snapshot /\ Snapshot \in Nat
    BY <2>1 DEF TypeOK, Snapshot
  <2>3. Cardinality(1..Snapshot) = Snapshot
    BY <2>2, FS_Interval
  <2> QED
    BY <2>1, <2>2, <2>3, RuntimeAssumption
<1> QED
  BY <1>1, <1>2, <1>3, ReadInvAlways, OutcomeInvAlways, PTL DEF Spec

-----------------------------------------------------------------------------
(* What a decision to go ahead and a commit mean. *)

LEMMA DecisionGo ==
    ASSUME NEW job, NEW found, NEW was, Decision(job, found, was) = "go"
    PROVE  /\ \A x, y \in found : x = y
           /\ job.op = "create" => found = {}
           /\ job.op # "create" => \A x \in found : Admitted(job, x, was)
<1>1. ~ Ambiguous(found)
  BY DEF Decision
<1>2. job.op = "create" => found = {}
  BY DEF Decision
<1>3. job.op # "create" => \E x \in found : Admitted(job, x, was)
  BY DEF Decision
<1> QED
  BY <1>1, <1>2, <1>3 DEF Ambiguous

(* A commit that lands writes what was decided on the rows it replaces. *)
LEMMA CommitKnows ==
    ASSUME TypeOK, ReadInv, NEW r \in Runs, NEW job \in Jobs, CommitLands(r, job)
    PROVE  /\ run[r].job = {job}
           /\ Decision(job, Matching(job), run[r].under) = "go"
           /\ rows' = Rewrite(rows, job, r, Matching(job), run[r].under, renamed)
           /\ \E c \in Commit : history' = Append(history, c) /\ c.stamp = r
<1>0. ReadInvOf(r) /\ run[r] \in RunState
  BY DEF ReadInv, TypeOK
<1>1. run[r].pc = "commit" /\ job \in run[r].job /\ run[r].snap = Snapshot
  BY DEF CommitLands, Writes
<1>2. run[r].found = Matching(job) /\ Decision(job, Matching(job), run[r].under) = "go"
  BY <1>0, <1>1 DEF ReadInvOf, ReadIsCurrentOf
<1>3. run[r].job = {job}
  BY <1>0, <1>1 DEF ReadInvOf
<1>4. [stamp |-> r, base |-> run[r].snap] \in Commit
  BY <1>0 DEF Commit, Authors, RunState
<1> QED
  BY <1>2, <1>3, <1>4 DEF CommitLands, Writes

(* The rows it adds are its own, the rows it removes are the matching ones, and *)
(* it leaves no other row of its key.                                          *)
LEMMA CommitRows ==
    ASSUME TypeOK, ReadInv, NEW r \in Runs, NEW job \in Jobs, CommitLands(r, job)
    PROVE  /\ \A x \in rows' \ rows : x.by = r
           /\ \A x \in rows \ rows' : x \in Matching(job) /\ job.op # "create"
           /\ \A x \in rows' : x.key = job.key => x.by = r
<1>0. run[r].under \subseteq Columns /\ renamed \subseteq Columns /\ rows \subseteq Row /\ job \in Job
  BY RuntimeAssumption, RulesAssumption DEF TypeOK, RunState
<1>1. rows' = Rewrite(rows, job, r, Matching(job), run[r].under, renamed)
  BY CommitKnows
<1>2. Decision(job, Matching(job), run[r].under) = "go"
  BY CommitKnows
<1>3. Matching(job) \subseteq Row
  BY <1>0 DEF Matching
<1>4. \A x \in rows' \ rows : x.by = r
  BY <1>0, <1>1, <1>3, RewriteType
<1>5. CASE job.op = "create"
  <2>1. Matching(job) = {}
    BY <1>2, <1>5, DecisionGo
  <2>2. rows \subseteq rows'
    BY <1>1, <1>5 DEF Rewrite
  <2> QED
    BY <1>4, <2>1, <2>2 DEF Matching
<1>6. CASE job.op # "create"
  <2>1. /\ \A x \in rows \ rows' : x.key = job.key
        /\ \A x \in rows' \cap rows : x.key = job.key
              => x \in Written(job, r, Matching(job), run[r].under, renamed)
    BY <1>1, <1>6 DEF Rewrite
  <2>2. \A x \in Written(job, r, Matching(job), run[r].under, renamed) : x.by = r
    <3>1. job.op \in {"create", "modify", "delete"}
      BY <1>0 DEF Job
    <3> QED
      BY <1>6, <3>1 DEF Written
  <2> QED
    BY <1>4, <1>6, <2>1, <2>2 DEF Matching
<1> QED
  BY <1>5, <1>6

(* Only its own commit puts a commit of a run into the history. *)
LEMMA CommittingLands ==
    ASSUME TypeOK, [Next]_vars, NEW r \in Runs, Committing(r)
    PROVE  \E job \in Jobs : CommitLands(r, job)
<1> SUFFICES ASSUME \A job \in Jobs : ~ CommitLands(r, job)
             PROVE  CommitsOf(r)' = CommitsOf(r)
  BY DEF Committing
<1>1. ASSUME UNCHANGED history PROVE CommitsOf(r)' = CommitsOf(r)
  BY <1>1 DEF CommitsOf
<1>2. ASSUME NEW c \in Commit, history' = Append(history, c), c.stamp # r
      PROVE  CommitsOf(r)' = CommitsOf(r)
  <2>1. CommitsOf(r)' = CommitsOf(r) \cup {i \in {Len(history) + 1} : c.stamp = r}
    BY <1>2, AppendCommits DEF TypeOK
  <2> QED
    BY <1>2, <2>1
<1>3. ASSUME NEW q \in Runs, RunStep(q) PROVE CommitsOf(r)' = CommitsOf(r)
  <2>1. CASE \E job \in Jobs : CommitLands(q, job)
    <3>1. q # r
      BY <2>1
    <3>2. [stamp |-> q, base |-> run[q].snap] \in Commit
      BY DEF Commit, Authors, RunState, TypeOK
    <3> QED
      BY <1>2, <2>1, <3>1, <3>2 DEF CommitLands, Writes
  <2>2. CASE ~ \E job \in Jobs : CommitLands(q, job)
    <3>1. UNCHANGED history
      BY <1>3, <2>2 DEF RunStep, ReadSnapshot, ReadRow, Prune, CommitConflicts, Overtaken,
                        CommitFails, RecordLands, RecordErrs, AppendErrs, table
    <3> QED
      BY <1>1, <3>1
  <2> QED
    BY <2>1, <2>2
<1>4. ASSUME NEW o \in Outsiders, OutsideCommit(o) PROVE CommitsOf(r)' = CommitsOf(r)
  <2>1. [stamp |-> o, base |-> Snapshot] \in Commit /\ o # r
    BY RulesAssumption DEF Commit, Authors, Snapshot, TypeOK
  <2> QED
    BY <1>2, <1>4, <2>1 DEF OutsideCommit
<1>5. CASE \/ \E q \in Runs : Die(q)
           \/ \E q \in Runs, job \in Jobs : Start(q, job)
           \/ CreateTable
           \/ \E c \in Columns : RenameColumn(c)
           \/ UNCHANGED vars
  BY <1>1, <1>5 DEF Die, Start, CreateTable, RenameColumn, vars, table
<1> QED
  BY <1>3, <1>4, <1>5 DEF Next

-----------------------------------------------------------------------------
(* The row policy and the columns no property maps. *)

(* When no schema change meets a run, the rows a commit removes are admitted   *)
(* by the caller's row policy as they are at the commit, and are of its key.   *)
THEOREM RowPolicyHolds ==
    ASSUME ~ FlakyProbe, Renamable = {}
    PROVE  Spec => OnlyAdmittedRowsLeave
<1>1. ASSUME TypeOK, ReadInv, [Next]_vars
      PROVE  \A r \in Runs : \A job \in run[r].job :
                Committing(r) => \A x \in rows \ rows' :
                    x.key = job.key /\ job.op # "create" /\ Admitted(job, x, renamed)
  <2> SUFFICES ASSUME NEW r \in Runs, NEW job \in run[r].job, Committing(r), NEW x \in rows \ rows'
               PROVE  x.key = job.key /\ job.op # "create" /\ Admitted(job, x, renamed)
    OBVIOUS
  <2>1. PICK j \in Jobs : CommitLands(r, j)
    BY <1>1, CommittingLands
  <2>2. j = job /\ Decision(job, Matching(job), run[r].under) = "go"
    BY <1>1, <2>1, CommitKnows
  <2>3. x \in Matching(job) /\ job.op # "create"
    BY <1>1, <2>1, <2>2, CommitRows
  <2>4. run[r].under = renamed
    BY <1>1 DEF TypeOK, RunState
  <2>5. Admitted(job, x, renamed)
    BY <2>2, <2>3, <2>4, DecisionGo
  <2> QED
    BY <2>3, <2>5 DEF Matching
<1> QED
  BY <1>1, ReadInvAlways, PTL DEF Spec, OnlyAdmittedRowsLeave

(* When no schema change meets a run, the row a modify writes has the unmapped *)
(* column of the row it replaces.                                              *)
THEOREM UnmappedIsCarried ==
    ASSUME ~ FlakyProbe, Renamable = {}
    PROVE  Spec => UnmappedColumnSurvives
<1>1. ASSUME TypeOK, ReadInv, [Next]_vars
      PROVE  \A r \in Runs : \A x \in rows' \ rows, y \in rows \ rows' :
                Committing(r) => x.cells[Unmapped] = y.cells[Unmapped]
  <2> SUFFICES ASSUME NEW r \in Runs, NEW x \in rows' \ rows, NEW y \in rows \ rows', Committing(r)
               PROVE  x.cells[Unmapped] = y.cells[Unmapped]
    OBVIOUS
  <2>1. PICK job \in Jobs : CommitLands(r, job)
    BY <1>1, CommittingLands
  <2>2. /\ Decision(job, Matching(job), {}) = "go"
        /\ rows' = Rewrite(rows, job, r, Matching(job), {}, {})
    <3>1. run[r].under = {} /\ renamed = {}
      BY <1>1 DEF TypeOK, RunState
    <3>2. /\ Decision(job, Matching(job), run[r].under) = "go"
          /\ rows' = Rewrite(rows, job, r, Matching(job), run[r].under, renamed)
      BY <1>1, <2>1, CommitKnows
    <3> QED
      BY <3>1, <3>2
  <2>3. y \in Matching(job) /\ job.op # "create"
    BY <1>1, <2>1, CommitRows
  <2>4. x \in Written(job, r, Matching(job), {}, {})
    BY <2>2 DEF Rewrite
  <2>5. job.op = "modify"
    <3>1. job.op \in {"create", "modify", "delete"}
      BY RulesAssumption DEF Job
    <3> QED
      BY <2>3, <2>4, <3>1 DEF Written
  <2>6. PICK z \in Matching(job) : x.cells = ModifiedCells(job, z, {}, {})
    BY <2>4, <2>5 DEF Written
  <2>7. z = y
    BY <2>2, <2>3, <2>6, DecisionGo
  <2>8. ModifiedCells(job, z, {}, {})[Unmapped] = z.cells[Unmapped]
    BY DEF ModifiedCells, Carried, Columns, Unmapped, Property
  <2> QED
    BY <2>6, <2>7, <2>8
<1> QED
  BY <1>1, ReadInvAlways, PTL DEF Spec, UnmappedColumnSurvives

-----------------------------------------------------------------------------
(* Keys. *)

(* The strengthening of LoomNeverDuplicatesAKey: every row was committed. *)
KeysInv ==
    /\ \A x \in rows : CommitsOf(x.by) # {}
    /\ LoomNeverDuplicatesAKey

(* An author's first commit keeps the invariant when all it adds is its own and *)
(* it is not Loom, or leaves its keys to itself.                               *)
LEMMA KeysInvAppend ==
    ASSUME TypeOK, KeysInv, NEW c \in Commit, history' = Append(history, c),
           CommitsOf(c.stamp) = {}, \A x \in rows' \ rows : x.by = c.stamp,
           \/ c.stamp \in Outsiders
           \/ \A x, y \in rows' : x.key = y.key /\ y.by = c.stamp => x.by = c.stamp
    PROVE  KeysInv'
<1> DEFINE a == c.stamp
<1>0. /\ Len(history) \in Nat /\ \A b : CommitsOf(b) \subseteq 1..Len(history)
  BY DEF TypeOK, CommitsOf
<1>1. CommitsOf(a)' = {Len(history) + 1}
  <2>1. CommitsOf(a)' = CommitsOf(a) \cup {i \in {Len(history) + 1} : c.stamp = a}
    BY AppendCommits DEF TypeOK
  <2> QED
    BY <2>1
<1>2. \A b : b # a => CommitsOf(b)' = CommitsOf(b)
  <2> SUFFICES ASSUME NEW b, b # a PROVE CommitsOf(b)' = CommitsOf(b)
    OBVIOUS
  <2>1. CommitsOf(b)' = CommitsOf(b) \cup {i \in {Len(history) + 1} : c.stamp = b}
    BY AppendCommits DEF TypeOK
  <2> QED
    BY <2>1
<1>3. \A x \in rows' : x.by # a => x \in rows /\ CommitsOf(x.by)' = CommitsOf(x.by)
  BY <1>2
<1>4. \A x \in rows' : CommitsOf(x.by)' # {}
  BY <1>1, <1>3 DEF KeysInv
<1>5. ASSUME NEW x \in rows', NEW y \in rows', NEW i \in CommitsOf(x.by)', NEW j \in CommitsOf(y.by)',
             x.key = y.key, i < j
      PROVE  y.by \in Outsiders
  <2>1. CASE y.by = a
    <3>1. CASE x.by = a
      BY <1>0, <1>1, <1>5, <2>1, <3>1
    <3>2. CASE x.by # a
      BY <1>5, <2>1, <3>2
    <3> QED
      BY <3>1, <3>2
  <2>2. CASE y.by # a
    <3>1. y \in rows /\ j \in CommitsOf(y.by)
      BY <1>3, <1>5, <2>2
    <3>2. CASE x.by = a
      <4>1. i = Len(history) + 1 /\ j \in 1..Len(history)
        BY <1>0, <1>1, <1>5, <3>1, <3>2
      <4> QED
        BY <1>0, <1>5, <4>1
    <3>3. CASE x.by # a
      <4>1. x \in rows /\ i \in CommitsOf(x.by)
        BY <1>3, <1>5, <3>3
      <4> QED
        BY <1>5, <3>1, <4>1 DEF KeysInv, LoomNeverDuplicatesAKey
    <3> QED
      BY <3>2, <3>3
  <2> QED
    BY <2>1, <2>2
<1>6. LoomNeverDuplicatesAKey'
  BY <1>5 DEF LoomNeverDuplicatesAKey
<1> QED
  BY <1>4, <1>6 DEF KeysInv

LEMMA KeysInvNext ==
    ASSUME TypeOK, ReadInv, OutcomeInv, KeysInv, [Next]_vars
    PROVE  KeysInv'
<1>1. ASSUME UNCHANGED <<rows, history>> PROVE KeysInv'
  BY <1>1 DEF KeysInv, LoomNeverDuplicatesAKey, CommitsOf
<1>2. ASSUME NEW r \in Runs, RunStep(r) PROVE KeysInv'
  <2>1. ASSUME NEW job \in Jobs, CommitLands(r, job) PROVE KeysInv'
    <3>1. PICK c \in Commit : history' = Append(history, c) /\ c.stamp = r
      BY <2>1, CommitKnows
    <3>2. CommitsOf(r) = {}
      BY <2>1 DEF OutcomeInv, OutcomeInvOf, CommitLands, Writes
    <3>3. /\ \A x \in rows' \ rows : x.by = r
          /\ \A x \in rows' : x.key = job.key => x.by = r
      BY <2>1, CommitRows
    <3>4. \A y \in rows' : y.by = r => y.key = job.key
      <4>1. \A y \in rows : y.by # r
        BY <3>2 DEF KeysInv
      <4>2. rows' = Rewrite(rows, job, r, Matching(job), run[r].under, renamed)
        BY <2>1, CommitKnows
      <4>3. \A y \in Rewrite(rows, job, r, Matching(job), run[r].under, renamed) \ rows : y.key = job.key
        <5>1. /\ run[r].under \subseteq Columns /\ renamed \subseteq Columns /\ rows \subseteq Row
              /\ job \in Job
          BY RuntimeAssumption, RulesAssumption DEF TypeOK, RunState
        <5>2. Matching(job) \subseteq Row
          BY <5>1 DEF Matching
        <5> QED
          BY <5>1, <5>2, RewriteType
      <4> QED
        BY <4>1, <4>2, <4>3
    <3>5. \A x, y \in rows' : x.key = y.key /\ y.by = c.stamp => x.by = c.stamp
      BY <3>1, <3>3, <3>4
    <3>6. CommitsOf(c.stamp) = {} /\ \A x \in rows' \ rows : x.by = c.stamp
      BY <3>1, <3>2, <3>3
    <3> QED
      BY <3>1, <3>5, <3>6, KeysInvAppend
  <2>2. CASE ~ \E job \in Jobs : CommitLands(r, job)
    <3>1. UNCHANGED <<rows, history>>
      BY <1>2, <2>2 DEF RunStep, ReadSnapshot, ReadRow, Prune, CommitConflicts, Overtaken,
                        CommitFails, RecordLands, RecordErrs, AppendErrs, table
    <3> QED
      BY <1>1, <3>1
  <2> QED
    BY <2>1, <2>2
<1>3. ASSUME NEW o \in Outsiders, OutsideCommit(o) PROVE KeysInv'
  <2>1. PICK c \in Commit : history' = Append(history, c) /\ c.stamp = o
    <3>1. [stamp |-> o, base |-> Snapshot] \in Commit
      BY DEF Commit, Authors, Snapshot, TypeOK
    <3> QED
      BY <1>3, <3>1 DEF OutsideCommit
  <2>2. CommitsOf(o) = {}
    BY <1>3 DEF OutsideCommit, CommitsOf
  <2>3. \A x \in rows' \ rows : x.by = o
    BY <1>3 DEF OutsideCommit
  <2> QED
    BY <2>1, <2>2, <2>3, KeysInvAppend
<1>4. CASE \/ \E q \in Runs : Die(q)
           \/ \E q \in Runs, job \in Jobs : Start(q, job)
           \/ CreateTable
           \/ \E c \in Columns : RenameColumn(c)
           \/ UNCHANGED vars
  BY <1>1, <1>4 DEF Die, Start, CreateTable, RenameColumn, vars, table
<1> QED
  BY <1>2, <1>3, <1>4 DEF Next

LEMMA KeysInvInit == Init => KeysInv
<1> SUFFICES ASSUME Init PROVE KeysInv
  OBVIOUS
<1>1. CASE rows = {}
  BY <1>1 DEF KeysInv, LoomNeverDuplicatesAKey
<1>2. CASE \E o \in Outsiders, k \in Keys, cells \in Contents :
              /\ exists = TRUE
              /\ rows = {[key |-> k, by |-> o, cells |-> cells]}
              /\ history = << [stamp |-> o, base |-> 0] >>
  <2>1. PICK o \in Outsiders : /\ \A x \in rows : x.by = o
                               /\ history = << [stamp |-> o, base |-> 0] >>
    BY <1>2
  <2>2. CommitsOf(o) = {1}
    BY <2>1 DEF CommitsOf
  <2> QED
    BY <2>1, <2>2 DEF KeysInv, LoomNeverDuplicatesAKey
<1> QED
  BY <1>1, <1>2 DEF Init

(* With a truthful existence probe Loom never adds a second row of a key: not  *)
(* by two creates, not by a create beside an ingest, not by a retry.           *)
THEOREM NoDuplicateKeys ==
    ASSUME ~ FlakyProbe
    PROVE  Spec => []LoomNeverDuplicatesAKey
<1>1. TypeOK /\ ReadInv /\ OutcomeInv /\ KeysInv /\ [Next]_vars => KeysInv'
  BY KeysInvNext
<1>2. KeysInv => LoomNeverDuplicatesAKey
  BY DEF KeysInv
<1> QED
  BY <1>1, <1>2, KeysInvInit, ReadInvAlways, OutcomeInvAlways, PTL DEF Spec
=============================================================================
