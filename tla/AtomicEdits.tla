---------------------------- MODULE AtomicEdits ----------------------------
(* What the action runtime promises (docs/spec/04-action.md): every edit       *)
(* either takes effect in one step, decided and computed against the rows that *)
(* are in the table at that very step, or it changes nothing. A refusal names  *)
(* something that was true of the table when the run was refused.              *)
EXTENDS ActionRules

VARIABLES
    rows,       \* the rows of the backing table
    asked,      \* the job of each run that has started, as a set of at most one
    verdict     \* what became of each run

vars == <<rows, asked, verdict>>

Verdicts == {"pending", "took", "previewed", "abandoned"} \cup Refusals

TypeOK ==
    /\ rows \subseteq Row
    /\ asked \in [Runs -> SUBSET Jobs]
    /\ verdict \in [Runs -> Verdicts]

Init ==
    /\ rows \subseteq Row
    /\ asked = [r \in Runs |-> {}]
    /\ verdict = [r \in Runs |-> "pending"]

Matching(job) == {x \in rows : x.key = job.key}

Ask(r, job) ==
    /\ asked[r] = {}
    /\ asked' = [asked EXCEPT ![r] = {job}]
    /\ UNCHANGED <<rows, verdict>>

(* The whole edit: read, policy, rules, effect and write in one step. *)
Take(r, job) ==
    /\ job \in asked[r]
    /\ ~ job.dry
    /\ verdict[r] = "pending"
    /\ Decision(job, Matching(job), {}) = "go"
    /\ rows' = Rewrite(rows, job, r, Matching(job), {}, {})
    /\ verdict' = [verdict EXCEPT ![r] = "took"]
    /\ UNCHANGED asked

Decline(r, job) ==
    /\ job \in asked[r]
    /\ verdict[r] = "pending"
    /\ Decision(job, Matching(job), {}) # "go"
    /\ verdict' = [verdict EXCEPT ![r] = Decision(job, Matching(job), {})]
    /\ UNCHANGED <<rows, asked>>

Preview(r, job) ==
    /\ job \in asked[r]
    /\ job.dry
    /\ verdict[r] = "pending"
    /\ Decision(job, Matching(job), {}) = "go"
    /\ verdict' = [verdict EXCEPT ![r] = "previewed"]
    /\ UNCHANGED <<rows, asked>>

(* A run that is not bound, loses every attempt, meets a storage failure or    *)
(* dies gives up, and leaves the rows alone.                                   *)
Abandon(r) ==
    /\ verdict[r] = "pending"
    /\ verdict' = [verdict EXCEPT ![r] = "abandoned"]
    /\ UNCHANGED rows
    /\ \/ UNCHANGED asked
       \/ /\ asked[r] = {}
          /\ \E job \in Jobs : asked' = [asked EXCEPT ![r] = {job}]

(* A writer that is not Loom may remove any row, and adds rows in its own name. *)
OutsideWrite(o) ==
    /\ rows' \subseteq Row
    /\ \A x \in rows' \ rows : x.by = o
    /\ UNCHANGED <<asked, verdict>>

Next ==
    \/ \E r \in Runs : \E job \in Jobs :
          Ask(r, job) \/ Take(r, job) \/ Decline(r, job) \/ Preview(r, job)
    \/ \E r \in Runs : Abandon(r)
    \/ \E o \in Outsiders : OutsideWrite(o)

Spec == Init /\ [][Next]_vars
=============================================================================
