-------------------------- MODULE ActionRefinement --------------------------
(* ActionRuntime implements AtomicEdits: read, decide and commit in separate   *)
(* catalog calls cannot be told from an edit made in one step. It needs the    *)
(* existence probe to be truthful and no column to be renamed meanwhile.       *)
EXTENDS ActionRuntimeProof

-----------------------------------------------------------------------------
(* The abstract specification speaks of the same rules. *)

LEMMA SameDecision ==
    \A job, found, was : Atomic!Decision(job, found, was) = Decision(job, found, was)
  BY DEF Atomic!Decision, Decision, Atomic!Ambiguous, Ambiguous, Atomic!Admitted, Admitted,
         Atomic!Valid, Valid, Atomic!Subject, Subject, Atomic!PropertyOf, PropertyOf,
         Atomic!Property, Property

LEMMA SameRewrite ==
    \A R, job, r, found, was, now :
        Atomic!Rewrite(R, job, r, found, was, now) = Rewrite(R, job, r, found, was, now)
  BY DEF Atomic!Rewrite, Rewrite, Atomic!Written, Written, Atomic!CreatedCells, CreatedCells,
         Atomic!ModifiedCells, ModifiedCells, Atomic!Carried, Carried, Atomic!Columns, Columns,
         Atomic!PropertyOf, PropertyOf, Atomic!Property, Property, Atomic!Unmapped, Unmapped

-----------------------------------------------------------------------------
(* What the mapping sees of a step. *)

asked == [r \in Runs |-> run[r].job]
verdict == [r \in Runs |-> Verdict(r)]

(* A run that has not written is pending. *)
LEMMA PendingVerdict ==
    ASSUME OutcomeInv, NEW r \in Runs,
           run[r].pc \in {"idle", "snapshot", "row", "prune", "commit"}
    PROVE  Verdict(r) = "pending" /\ CommitsOf(r) = {}
  BY DEF OutcomeInv, OutcomeInvOf, Verdict, Refusals

(* A step of r moves no verdict but its own. *)
LEMMA OwnVerdict ==
    ASSUME TypeOK, NEW r \in Runs, RunStep(r) \/ Die(r) \/ \E job \in Jobs : Start(r, job),
           \/ UNCHANGED history
           \/ \E c \in Commit : history' = Append(history, c) /\ c.stamp = r
    PROVE  /\ verdict' = [verdict EXCEPT ![r] = Verdict(r)']
           /\ asked' = [asked EXCEPT ![r] = run'[r].job]
<1>1. \A q \in Runs \ {r} : run'[q] = run[q]
  BY OthersKeep
<1>2. \A q \in Runs \ {r} : CommitsOf(q)' = CommitsOf(q)
  <2>1. CASE UNCHANGED history
    BY <2>1 DEF CommitsOf
  <2>2. CASE \E c \in Commit : history' = Append(history, c) /\ c.stamp = r
    <3> SUFFICES ASSUME NEW q \in Runs \ {r} PROVE CommitsOf(q)' = CommitsOf(q)
      OBVIOUS
    <3>1. PICK c \in Commit : history' = Append(history, c) /\ c.stamp = r
      BY <2>2
    <3>2. CommitsOf(q)' = CommitsOf(q) \cup {i \in {Len(history) + 1} : c.stamp = q}
      BY <3>1, AppendCommits DEF TypeOK
    <3> QED
      BY <3>1, <3>2
  <2> QED
    BY <2>1, <2>2
<1>3. \A q \in Runs \ {r} : Verdict(q)' = Verdict(q)
  BY <1>1, <1>2 DEF Verdict
<1> QED
  BY <1>1, <1>3 DEF verdict, asked

-----------------------------------------------------------------------------
(* A run that is about to write is not a preview. *)

DryInvOf(r) == run[r].pc \in {"prune", "commit"} => \A job \in run[r].job : ~ job.dry

DryInv == \A r \in Runs : DryInvOf(r)

LEMMA DryInvNext ==
    ASSUME TypeOK, ReadInv, DryInv, [Next]_vars
    PROVE  DryInv'
<1>0. run \in [Runs -> RunState]
  BY DEF TypeOK
<1>1. ASSUME NEW r \in Runs, RunStep(r) \/ Die(r) \/ \E job \in Jobs : Start(r, job), DryInvOf(r)'
      PROVE  DryInv'
  BY <1>1, OthersKeep DEF DryInv, DryInvOf
<1>2. ASSUME NEW r \in Runs, RunStep(r) PROVE DryInv'
  <2>1. ASSUME NEW job \in Jobs, ReadRow(r, job) PROVE DryInvOf(r)'
    <3>1. run[r].job = {job}
      <4>1. job \in run[r].job
        BY <2>1 DEF ReadRow
      <4>2. \A j, k \in run[r].job : j = k
        BY DEF ReadInv, ReadInvOf
      <4> QED
        BY <4>1, <4>2
    <3>2. PICK probe \in BOOLEAN :
             LET found == {x \in rows : x.key = job.key /\ probe}
                 decision == Decision(job, found, renamed)
             IN  /\ run'[r].job = run[r].job
                 /\ run'[r].outcome = IF decision # "go" THEN decision
                                      ELSE IF job.dry THEN "previewed" ELSE "none"
                 /\ run'[r].pc \in IF run'[r].outcome = "none" THEN {"prune", "commit"}
                                   ELSE {"record", "done"}
      BY <1>0, <2>1, ReadRowEffect
    <3>3. \A found : Decision(job, found, renamed) # "none"
      BY DEF Decision
    <3> QED
      BY <3>1, <3>2, <3>3 DEF DryInvOf
  <2>2. ASSUME NEW job \in Jobs, Prune(r, job) PROVE DryInvOf(r)'
    <3>1. run'[r].job = run[r].job /\ run[r].pc = "prune"
      <4>1. run[r] \in RunState
        BY <1>0
      <4> QED
        BY <1>0, <2>2, <4>1 DEF Prune, Concludes, RunState
    <3> QED
      BY <3>1 DEF DryInv, DryInvOf
  <2>3. ASSUME \/ ReadSnapshot(r) \/ \E job \in Jobs : CommitLands(r, job)
               \/ CommitConflicts(r) \/ CommitFails(r) \/ RecordLands(r) \/ RecordErrs(r)
        PROVE  DryInvOf(r)'
    <3>1. run'[r].pc \in {"row", "record", "snapshot", "done"}
      <4>1. run[r] \in RunState
        BY <1>0
      <4>2. CASE ReadSnapshot(r)
        BY <1>0, <4>1, <4>2 DEF ReadSnapshot, RunState
      <4>3. CASE \E job \in Jobs : CommitLands(r, job)
        BY <1>0, <4>3, ConcludesEffect DEF CommitLands
      <4>4. CASE CommitConflicts(r)
        <5>1. CASE Concludes(r, "conflict")
          BY <1>0, <5>1, ConcludesEffect
        <5>2. CASE run' = [run EXCEPT ![r].attempt = @ + 1, ![r].snap = 0, ![r].found = {},
                                      ![r].under = {}, ![r].pc = "snapshot"]
          BY <1>0, <4>1, <5>2 DEF RunState
        <5> QED
          BY <4>4, <5>1, <5>2 DEF CommitConflicts
      <4>5. CASE CommitFails(r)
        BY <1>0, <4>5, ConcludesEffect DEF CommitFails
      <4>6. CASE RecordLands(r)
        BY <1>0, <4>1, <4>6 DEF RecordLands, RunState
      <4>7. CASE RecordErrs(r)
        BY <1>0, <4>1, <4>7 DEF RecordErrs, AppendErrs, RunState
      <4> QED
        BY <2>3, <4>2, <4>3, <4>4, <4>5, <4>6, <4>7
    <3> QED
      BY <3>1 DEF DryInvOf
  <2>4. DryInvOf(r)'
    BY <1>2, <2>1, <2>2, <2>3 DEF RunStep
  <2> QED
    BY <1>1, <1>2, <2>4
<1>3. ASSUME NEW r \in Runs, Die(r) PROVE DryInv'
  <2>1. run[r] \in RunState
    BY <1>0
  <2>2. run'[r].pc = "dead"
    BY <1>0, <1>3, <2>1 DEF Die, RunState
  <2> QED
    BY <1>1, <1>3, <2>2 DEF DryInvOf
<1>4. ASSUME NEW r \in Runs, NEW job \in Jobs, Start(r, job) PROVE DryInv'
  <2>1. run[r] \in RunState
    BY <1>0
  <2>2. run'[r].pc \in {"snapshot", "done"}
    BY <1>0, <1>4, <2>1 DEF Start, RunState
  <2> QED
    BY <1>1, <1>4, <2>2 DEF DryInvOf
<1>5. CASE UNCHANGED run
  BY <1>5 DEF DryInv, DryInvOf
<1> QED
  BY <1>2, <1>3, <1>4, <1>5 DEF Next, CreateTable, RenameColumn, OutsideCommit, vars

LEMMA DryInvInit == Init => DryInv
  BY DEF Init, DryInv, DryInvOf, Idle

-----------------------------------------------------------------------------
(* Every step is an abstract step or a stutter. *)

AbstractStep == Atomic!Next \/ UNCHANGED <<rows, asked, verdict>>

(* A step that leaves the table alone and its run pending, or as it was. *)
LEMMA StutterStep ==
    ASSUME TypeOK, NEW r \in Runs, RunStep(r) \/ Die(r) \/ \E job \in Jobs : Start(r, job),
           UNCHANGED <<rows, history>>, run'[r].job = run[r].job, Verdict(r)' = Verdict(r)
    PROVE  UNCHANGED <<rows, asked, verdict>>
<1>1. verdict' = [verdict EXCEPT ![r] = Verdict(r)']
      /\ asked' = [asked EXCEPT ![r] = run'[r].job]
  BY OwnVerdict
<1> QED
  BY <1>1 DEF asked, verdict

(* A run that ends without a commit, and was not refused, abandoned its edit. *)
LEMMA AbandonStep ==
    ASSUME TypeOK, OutcomeInv, NEW r \in Runs, RunStep(r) \/ Die(r) \/ \E job \in Jobs : Start(r, job),
           run[r].pc \in {"idle", "snapshot", "row", "prune", "commit"},
           UNCHANGED <<rows, history>>,
           \/ run'[r].job = run[r].job
           \/ run[r].job = {} /\ \E job \in Jobs : run'[r].job = {job},
           run'[r].pc \in {"record", "done", "dead"},
           run'[r].outcome \in {"none", "unbound", "conflict", "write_failed"}
    PROVE  Atomic!Abandon(r)
<1>1. /\ verdict' = [verdict EXCEPT ![r] = Verdict(r)']
      /\ asked' = [asked EXCEPT ![r] = run'[r].job]
  BY OwnVerdict
<1>2. Verdict(r) = "pending" /\ CommitsOf(r) = {}
  BY PendingVerdict
<1>3. CommitsOf(r)' = {}
  BY <1>2 DEF CommitsOf
<1>4. Verdict(r)' = "abandoned"
  BY <1>3 DEF Verdict, Refusals
<1>5. UNCHANGED asked \/ (asked[r] = {} /\ \E job \in Jobs : asked' = [asked EXCEPT ![r] = {job}])
  BY <1>1 DEF asked
<1> QED
  BY <1>1, <1>2, <1>4, <1>5 DEF Atomic!Abandon, asked, verdict

(* The steps of a run. *)
LEMMA RunRefines ==
    ASSUME ~ FlakyProbe, Renamable = {}, TypeOK, ReadInv, OutcomeInv, DryInv,
           NEW r \in Runs, RunStep(r)
    PROVE  AbstractStep
<1>0. run \in [Runs -> RunState] /\ run[r] \in RunState /\ ReadInvOf(r) /\ OutcomeInvOf(r)
  BY DEF TypeOK, ReadInv, OutcomeInv
<1>a. renamed = {}
  BY DEF TypeOK
<1>b. ASSUME UNCHANGED <<rows, history>>, run'[r].job = run[r].job, Verdict(r)' = Verdict(r)
      PROVE  AbstractStep
  BY <1>b, StutterStep DEF AbstractStep
<1>c. ASSUME run[r].pc \in {"idle", "snapshot", "row", "prune", "commit"},
             UNCHANGED <<rows, history>>, run'[r].job = run[r].job,
             run'[r].outcome = run[r].outcome,
             run'[r].pc \in {"idle", "snapshot", "row", "prune", "commit"}
      PROVE  AbstractStep
  <2>1. Verdict(r) = "pending" /\ CommitsOf(r) = {} /\ run[r].outcome = "none"
    BY <1>0, <1>c, PendingVerdict DEF OutcomeInvOf
  <2>2. Verdict(r)' = "pending"
    BY <1>c, <2>1 DEF Verdict, CommitsOf, Refusals
  <2> QED
    BY <1>b, <1>c, <2>1, <2>2
<1>d. ASSUME run[r].pc \in {"prune", "commit"}, UNCHANGED <<rows, history>>,
             NEW outcome \in {"conflict", "write_failed"}, Concludes(r, outcome)
      PROVE  AbstractStep
  <2>1. run'[r].pc = "record" /\ run'[r].outcome = outcome /\ run'[r].job = run[r].job
    BY <1>0, <1>d, ConcludesEffect
  <2>2. Atomic!Abandon(r)
    BY <1>d, <2>1, AbandonStep
  <2> QED
    BY <2>2 DEF AbstractStep, Atomic!Next
<1>e. ASSUME run[r].pc = "record", UNCHANGED <<rows, history>>,
             run'[r].job = run[r].job, run'[r].outcome = run[r].outcome,
             run'[r].pc \in {"record", "done"}
      PROVE  AbstractStep
  <2>1. Verdict(r)' = Verdict(r)
    BY <1>e DEF Verdict, CommitsOf
  <2> QED
    BY <1>b, <1>e, <2>1
<1>1. CASE ReadSnapshot(r)
  BY <1>0, <1>1, <1>c DEF ReadSnapshot, RunState, table
<1>2. ASSUME NEW job \in Jobs, ReadRow(r, job) PROVE AbstractStep
  <2>1. PICK probe \in BOOLEAN :
           LET found == {x \in rows : x.key = job.key /\ probe}
               decision == Decision(job, found, renamed)
           IN  /\ Probe(probe)
               /\ run'[r].found = found /\ run'[r].under = renamed
               /\ run'[r].snap = run[r].snap /\ run'[r].job = run[r].job
               /\ run'[r].outcome = IF decision # "go" THEN decision
                                    ELSE IF job.dry THEN "previewed" ELSE "none"
               /\ run'[r].pc \in IF run'[r].outcome = "none" THEN {"prune", "commit"}
                                 ELSE {"record", "done"}
    BY <1>0, <1>2, ReadRowEffect
  <2>2. {x \in rows : x.key = job.key /\ probe} = Matching(job)
    <3>1. probe = exists
      BY <2>1 DEF Probe, TypeOK
    <3> QED
      BY <3>1 DEF Matching, ReadInv
  <2> DEFINE decision == Decision(job, Matching(job), {})
  <2>3. /\ run'[r].job = run[r].job
        /\ run'[r].outcome = IF decision # "go" THEN decision
                             ELSE IF job.dry THEN "previewed" ELSE "none"
        /\ run'[r].pc \in IF run'[r].outcome = "none" THEN {"prune", "commit"}
                          ELSE {"record", "done"}
    BY <1>a, <2>1, <2>2
  <2>4. decision \in Refusals \cup {"go"}
    BY DEF Decision, Refusals
  <2>5. run[r].pc = "row" /\ job \in run[r].job /\ UNCHANGED <<rows, history>>
    BY <1>2 DEF ReadRow, table
  <2>6. Verdict(r) = "pending" /\ CommitsOf(r) = {} /\ run[r].outcome = "none"
    BY <1>0, <2>5, PendingVerdict DEF OutcomeInvOf
  <2>7. CommitsOf(r)' = {}
    BY <2>5, <2>6 DEF CommitsOf
  <2>8. /\ verdict' = [verdict EXCEPT ![r] = Verdict(r)']
        /\ asked' = asked
    <3>1. /\ verdict' = [verdict EXCEPT ![r] = Verdict(r)']
          /\ asked' = [asked EXCEPT ![r] = run'[r].job]
      BY <2>5, OwnVerdict
    <3> QED
      BY <2>3, <3>1 DEF asked
  <2>9. Atomic!Decision(job, Atomic!Matching(job), {}) = decision
    BY SameDecision DEF Atomic!Matching, Matching
  <2>10. CASE decision # "go"
    <3>1. Verdict(r)' = decision
      <4> HIDE DEF decision
      <4> QED
        BY <2>3, <2>4, <2>7, <2>10 DEF Verdict
    <3>2. Atomic!Decline(r, job)
      BY <2>5, <2>6, <2>8, <2>9, <2>10, <3>1 DEF Atomic!Decline, asked, verdict
    <3> QED
      BY <3>2 DEF AbstractStep, Atomic!Next
  <2>11. CASE decision = "go" /\ job.dry
    <3>1. Verdict(r)' = "previewed"
      BY <2>3, <2>7, <2>11 DEF Verdict
    <3>2. Atomic!Preview(r, job)
      BY <2>5, <2>6, <2>8, <2>9, <2>11, <3>1 DEF Atomic!Preview, asked, verdict
    <3> QED
      BY <3>2 DEF AbstractStep, Atomic!Next
  <2>12. CASE decision = "go" /\ ~ job.dry
    <3>1. run'[r].outcome = run[r].outcome /\ run'[r].pc \in {"prune", "commit"}
      BY <2>3, <2>6, <2>12
    <3> QED
      BY <1>c, <2>3, <2>5, <3>1
  <2> QED
    BY <2>10, <2>11, <2>12
<1>3. ASSUME NEW job \in Jobs, Prune(r, job) PROVE AbstractStep
  <2>1. run[r].pc = "prune" /\ UNCHANGED <<rows, history>>
    BY <1>3 DEF Prune, table
  <2>2. CASE run' = [run EXCEPT ![r].pc = "commit"]
    <3>1. run'[r].job = run[r].job /\ run'[r].outcome = run[r].outcome /\ run'[r].pc = "commit"
      BY <1>0, <2>2 DEF RunState
    <3> QED
      BY <1>c, <2>1, <3>1
  <2>3. CASE Concludes(r, "write_failed")
    BY <1>d, <2>1, <2>3
  <2> QED
    BY <1>3, <2>2, <2>3 DEF Prune
<1>4. ASSUME NEW job \in Jobs, CommitLands(r, job) PROVE AbstractStep
  <2>1. run[r].pc = "commit" /\ job \in run[r].job /\ ~ job.dry
    BY <1>4 DEF CommitLands, Writes, DryInv, DryInvOf
  <2>2. Verdict(r) = "pending"
    BY <2>1, PendingVerdict
  <2>3. /\ Decision(job, Matching(job), {}) = "go"
        /\ rows' = Rewrite(rows, job, r, Matching(job), {}, {})
        /\ \E c \in Commit : history' = Append(history, c) /\ c.stamp = r
    <3>1. run[r].under = {}
      BY <1>0 DEF RunState
    <3>2. /\ Decision(job, Matching(job), run[r].under) = "go"
          /\ rows' = Rewrite(rows, job, r, Matching(job), run[r].under, renamed)
          /\ \E c \in Commit : history' = Append(history, c) /\ c.stamp = r
      BY <1>4, CommitKnows
    <3> QED
      BY <1>a, <3>1, <3>2
  <2>4. Verdict(r)' = "took"
    <3>1. PICK c \in Commit : history' = Append(history, c) /\ c.stamp = r
      BY <2>3
    <3>2. CommitsOf(r)' = CommitsOf(r) \cup {i \in {Len(history) + 1} : c.stamp = r}
      BY <3>1, AppendCommits DEF TypeOK
    <3> QED
      BY <3>1, <3>2 DEF Verdict
  <2>5. run'[r].job = run[r].job
    BY <1>0, <1>4, ConcludesEffect DEF CommitLands
  <2>6. /\ verdict' = [verdict EXCEPT ![r] = Verdict(r)']
        /\ asked' = asked
    <3>1. /\ verdict' = [verdict EXCEPT ![r] = Verdict(r)']
          /\ asked' = [asked EXCEPT ![r] = run'[r].job]
      BY <2>3, OwnVerdict
    <3> QED
      BY <2>5, <3>1 DEF asked
  <2>7. /\ Atomic!Decision(job, Atomic!Matching(job), {}) = "go"
        /\ rows' = Atomic!Rewrite(rows, job, r, Atomic!Matching(job), {}, {})
    BY <2>3, SameDecision, SameRewrite DEF Atomic!Matching, Matching
  <2>8. Atomic!Take(r, job)
    BY <2>1, <2>2, <2>4, <2>6, <2>7 DEF Atomic!Take, asked, verdict
  <2> QED
    BY <2>8 DEF AbstractStep, Atomic!Next
<1>5. CASE CommitConflicts(r)
  <2>1. run[r].pc = "commit" /\ UNCHANGED <<rows, history>>
    BY <1>5 DEF CommitConflicts, Overtaken, table
  <2>2. CASE run' = [run EXCEPT ![r].attempt = @ + 1, ![r].snap = 0, ![r].found = {},
                                ![r].under = {}, ![r].pc = "snapshot"]
    <3>1. run'[r].job = run[r].job /\ run'[r].outcome = run[r].outcome /\ run'[r].pc = "snapshot"
      BY <1>0, <2>2 DEF RunState
    <3> QED
      BY <1>c, <2>1, <3>1
  <2>3. CASE Concludes(r, "conflict")
    BY <1>d, <2>1, <2>3
  <2> QED
    BY <1>5, <2>2, <2>3 DEF CommitConflicts
<1>6. CASE CommitFails(r)
  BY <1>6, <1>d DEF CommitFails, table
<1>7. CASE RecordLands(r)
  <2>1. /\ run[r].pc = "record" /\ UNCHANGED <<rows, history>> /\ run'[r].job = run[r].job
        /\ run'[r].outcome = run[r].outcome /\ run'[r].pc = "done"
    BY <1>0, <1>7 DEF RecordLands, RunState, table
  <2> QED
    BY <1>e, <2>1
<1>8. CASE RecordErrs(r)
  <2>1. /\ run[r].pc = "record" /\ UNCHANGED <<rows, history>> /\ run'[r].job = run[r].job
        /\ run'[r].outcome = run[r].outcome /\ run'[r].pc \in {"record", "done"}
    BY <1>0, <1>8 DEF RecordErrs, AppendErrs, RunState, table
  <2> QED
    BY <1>e, <2>1
<1> QED
  BY <1>1, <1>2, <1>3, <1>4, <1>5, <1>6, <1>7, <1>8 DEF RunStep

(* The steps of everybody else, the start and the death of a run. *)
LEMMA NextRefines ==
    ASSUME ~ FlakyProbe, Renamable = {}, TypeOK, TypeOK', ReadInv, OutcomeInv, DryInv, [Next]_vars
    PROVE  AbstractStep
<1>0. run \in [Runs -> RunState]
  BY DEF TypeOK
<1>1. ASSUME NEW r \in Runs, RunStep(r) PROVE AbstractStep
  BY <1>1, RunRefines
<1>2. ASSUME NEW r \in Runs, Die(r) PROVE AbstractStep
  <2>1. /\ UNCHANGED <<rows, history>> /\ run'[r].job = run[r].job /\ run'[r].pc = "dead"
        /\ run'[r].outcome = run[r].outcome
        /\ run[r].pc \in {"snapshot", "row", "prune", "commit", "record"}
    <3>1. run[r] \in RunState
      BY <1>0
    <3> QED
      BY <1>0, <1>2, <3>1 DEF Die, RunState, table
  <2>2. CASE run[r].pc = "record"
    <3>1. Verdict(r)' = Verdict(r)
      BY <2>1, <2>2 DEF Verdict, CommitsOf
    <3> QED
      BY <1>2, <2>1, <3>1, StutterStep DEF AbstractStep
  <2>3. CASE run[r].pc # "record"
    <3>1. run[r].outcome = "none"
      BY <2>1, <2>3 DEF OutcomeInv, OutcomeInvOf
    <3>2. Atomic!Abandon(r)
      BY <1>2, <2>1, <2>3, <3>1, AbandonStep
    <3> QED
      BY <3>2 DEF AbstractStep, Atomic!Next
  <2> QED
    BY <2>2, <2>3
<1>3. ASSUME NEW r \in Runs, NEW job \in Jobs, Start(r, job) PROVE AbstractStep
  <2>1. run[r] \in RunState /\ run[r].pc = "idle" /\ UNCHANGED <<rows, history>>
    BY <1>0, <1>3 DEF Start, table
  <2>2. /\ run'[r].job = {job}
        /\ run'[r].outcome = IF job.binds THEN "none" ELSE "unbound"
        /\ run'[r].pc = IF job.binds THEN "snapshot" ELSE "done"
    BY <1>0, <1>3, <2>1 DEF Start, RunState
  <2>3. run[r].job = {}
    BY <2>1 DEF ReadInv, ReadInvOf
  <2>4. CASE job.binds
    <3>1. Verdict(r) = "pending" /\ CommitsOf(r) = {}
      BY <2>1, PendingVerdict
    <3>2. Verdict(r)' = "pending"
      BY <2>1, <2>2, <2>4, <3>1 DEF Verdict, CommitsOf, Refusals
    <3>3. /\ verdict' = [verdict EXCEPT ![r] = Verdict(r)']
          /\ asked' = [asked EXCEPT ![r] = run'[r].job]
      BY <1>3, <2>1, OwnVerdict
    <3>4. verdict' = verdict
      BY <3>1, <3>2, <3>3 DEF verdict
    <3>5. Atomic!Ask(r, job)
      BY <2>1, <2>2, <2>3, <3>3, <3>4 DEF Atomic!Ask, asked, verdict
    <3> QED
      BY <3>5 DEF AbstractStep, Atomic!Next
  <2>5. CASE ~ job.binds
    <3>1. Atomic!Abandon(r)
      BY <1>3, <2>1, <2>2, <2>3, <2>5, AbandonStep
    <3> QED
      BY <3>1 DEF AbstractStep, Atomic!Next
  <2> QED
    BY <2>4, <2>5
<1>4. CASE UNCHANGED <<rows, history, run>>
  <2>1. \A r \in Runs : Verdict(r)' = Verdict(r)
    BY <1>4 DEF Verdict, CommitsOf
  <2> QED
    BY <1>4, <2>1 DEF AbstractStep, asked, verdict
<1>5. CASE CreateTable \/ (\E c \in Columns : RenameColumn(c)) \/ UNCHANGED vars
  BY <1>4, <1>5 DEF CreateTable, RenameColumn, vars
<1>6. ASSUME NEW o \in Outsiders, OutsideCommit(o) PROVE AbstractStep
  <2>1. UNCHANGED run
    BY <1>6 DEF OutsideCommit
  <2>2. \A r \in Runs : CommitsOf(r)' = CommitsOf(r)
    <3> SUFFICES ASSUME NEW r \in Runs PROVE CommitsOf(r)' = CommitsOf(r)
      OBVIOUS
    <3>1. [stamp |-> o, base |-> Snapshot] \in Commit /\ o # r
      BY RulesAssumption DEF Commit, Authors, Snapshot, TypeOK
    <3>2. CommitsOf(r)' = CommitsOf(r) \cup {i \in {Len(history) + 1} : o = r}
      <4>1. history' = Append(history, [stamp |-> o, base |-> Snapshot])
        BY <1>6 DEF OutsideCommit
      <4>2. [stamp |-> o, base |-> Snapshot].stamp = o
        OBVIOUS
      <4> QED
        BY <3>1, <4>1, <4>2, AppendCommits DEF TypeOK
    <3> QED
      BY <3>1, <3>2
  <2>3. UNCHANGED <<asked, verdict>>
    BY <2>1, <2>2 DEF asked, verdict, Verdict
  <2>4. rows' \subseteq Atomic!Row
    BY DEF TypeOK, Atomic!Row, Row, Atomic!Authors, Authors, Atomic!Columns, Columns,
           Atomic!Property, Property, Atomic!Unmapped, Unmapped, Atomic!Cell, Cell
  <2>5. \A x \in rows' \ rows : x.by = o
    BY <1>6 DEF OutsideCommit
  <2>6. Atomic!OutsideWrite(o)
    BY <2>3, <2>4, <2>5 DEF Atomic!OutsideWrite, asked, verdict
  <2> QED
    BY <2>6 DEF AbstractStep, Atomic!Next
<1> QED
  BY <1>1, <1>2, <1>3, <1>5, <1>6 DEF Next

LEMMA InitRefines == Init /\ TypeOK /\ OutcomeInv => Atomic!Init
<1> SUFFICES ASSUME Init, TypeOK, OutcomeInv PROVE Atomic!Init
  OBVIOUS
<1>1. \A r \in Runs : run[r] = Idle
  BY DEF Init
<1>2. \A r \in Runs : Verdict(r) = "pending"
  BY <1>1, PendingVerdict DEF Idle
<1>3. rows \subseteq Atomic!Row
  BY DEF TypeOK, Atomic!Row, Row, Atomic!Authors, Authors, Atomic!Columns, Columns,
         Atomic!Property, Property, Atomic!Unmapped, Unmapped, Atomic!Cell, Cell
<1> QED
  BY <1>1, <1>2, <1>3 DEF Atomic!Init, Idle

(* Every edit takes effect in one step, decided against the rows of that step, *)
(* or not at all: for any number of runs, writers, attempts and log failures.  *)
THEOREM ImplementsAtomicEdits ==
    ASSUME ~ FlakyProbe, Renamable = {}
    PROVE  Spec => EditsAreAtomic
<1>1. TypeOK /\ TypeOK' /\ ReadInv /\ OutcomeInv /\ DryInv /\ [Next]_vars => [Atomic!Next]_(Atomic!vars)
  BY NextRefines DEF AbstractStep, Atomic!vars, asked, verdict
<1>2. TypeOK /\ ReadInv /\ DryInv /\ [Next]_vars => DryInv'
  BY DryInvNext
<1> QED
  BY <1>1, <1>2, InitRefines, DryInvInit, ReadInvAlways, OutcomeInvAlways, PTL
     DEF Spec, EditsAreAtomic, Atomic!Spec
=============================================================================
