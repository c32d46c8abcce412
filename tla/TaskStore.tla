----------------------------- MODULE TaskStore -----------------------------
(***************************************************************************)
(* The durable task kernel of the control plane (store.ts): tasks, the run *)
(* bindings that tie worker and reviewer runs to them, the append-only     *)
(* evidence table and the review reports.                                  *)
(*                                                                         *)
(* Every operation of the store runs in one BEGIN IMMEDIATE transaction    *)
(* that ends in COMMIT or ROLLBACK, whichever process calls it, so an      *)
(* operation is one action.  A call that throws rolls back and is no step. *)
(* Callers pass the revision they read; a call whose expected revision is  *)
(* not the current one throws, so the actions are the calls whose revision *)
(* matches.  A call that replays a recorded idempotency key, or attests a  *)
(* completion again, returns the recorded row and is no step either.       *)
(*                                                                         *)
(* Abstractions: title and description are one value of Contents, equal to *)
(* their digest (SHA-256 is taken to be injective); a report is a value of *)
(* Reports; type, priority, risk, model, cycle and the other columns that  *)
(* no guard reads are left out, so an update of them alone is an update    *)
(* that keeps state and content and still takes a revision.                *)
(***************************************************************************)
EXTENDS Naturals, Sequences

CONSTANTS
    Tasks,          \* task ids
    Runs,           \* run ids; a binding row is named by its run (UNIQUE)
    Agents,         \* agent profiles
    Sessions,       \* parent session ids
    Contents,       \* (title, description) pairs, up to their digest
    Reports,        \* structured report payloads
    Lifecycles,     \* the monitor states a parent attests
    Null,           \* SQL NULL
    MaxRevision,    \* bound: a task's revision never passes it
    MaxEvidence     \* bound: evidence rows per task

ASSUME NullAssumption ==
    /\ Null \notin Tasks \cup Runs \cup Agents \cup Sessions
    /\ Null \notin Contents \cup Reports
ASSUME BoundAssumption == MaxRevision \in Nat \ {0} /\ MaxEvidence \in Nat
ASSUME LifecycleAssumption == { "queued", "completed" } \subseteq Lifecycles

TaskStates == { "DRAFT", "BACKLOG", "READY", "CLAIMED", "RUNNING", "REVIEW",
                "BLOCKED", "DONE", "FAILED", "CANCELLED" }

AllowedTransitions ==
    [ DRAFT     |-> { "BACKLOG", "CANCELLED" },
      BACKLOG   |-> { "DRAFT", "READY", "CANCELLED" },
      READY     |-> { "BACKLOG", "CLAIMED", "RUNNING", "BLOCKED", "CANCELLED" },
      CLAIMED   |-> { "READY", "RUNNING", "BLOCKED", "CANCELLED" },
      RUNNING   |-> { "REVIEW", "BLOCKED", "FAILED", "CANCELLED" },
      REVIEW    |-> { "RUNNING", "READY", "DONE", "BLOCKED", "FAILED", "CANCELLED" },
      BLOCKED   |-> { "BACKLOG", "READY", "RUNNING", "FAILED", "CANCELLED" },
      DONE      |-> {},
      FAILED    |-> { "BACKLOG", "READY", "CANCELLED" },
      CANCELLED |-> { "BACKLOG" } ]

Verdicts == { "PASS", "FAIL", "UNCERTAIN" }

VARIABLES
    tasks,          \* [Tasks -> task row, or NoTask before it is created]
    bindings,       \* [Runs -> run_bindings row, or NoBinding]
    evidence,       \* [Tasks -> evidence rows in rowid order]
    reports         \* [Tasks -> review_reports rows in rowid order]

vars == << tasks, bindings, evidence, reports >>

---------------------------------------------------------------------------
(* Rows *)

TaskRow == [ state: TaskStates, revision: 1..MaxRevision,
             acceptance: Nat \ {0}, digest: Contents,
             executor: Agents \cup {Null} ]

NoTask == [ state |-> "ABSENT", revision |-> 0, acceptance |-> 0,
            digest |-> Null, executor |-> Null ]

BindingStates == { "active", "superseded", "completed", "failed" }

\* epoch is the column task_revision: the revision at which the run was
\* assigned, never changed afterwards.
BindingRow == [ task: Tasks, role: {"worker", "reviewer"}, agent: Agents,
                parent: Sessions, epoch: 1..MaxRevision,
                acceptance: Nat \ {0}, digest: Contents,
                state: BindingStates, lifecycle: Lifecycles ]

NoBinding == [ task |-> Null, role |-> Null, agent |-> Null, parent |-> Null,
               epoch |-> 0, acceptance |-> 0, digest |-> Null,
               state |-> "unbound", lifecycle |-> Null ]

\* run is Null for verifier evidence.  submission is a history field the
\* table does not have: the worker run that was the latest completed one
\* when the verdict was recorded.  No action reads it.
EvidenceRow == [ acceptance: Nat \ {0}, verdict: Verdicts,
                 run: Runs \cup {Null}, submission: Runs \cup {Null} ]

ReportRow == [ acceptance: Nat \ {0}, run: Runs, report: Reports ]

TypeOK ==
    /\ tasks \in [Tasks -> TaskRow \cup {NoTask}]
    /\ bindings \in [Runs -> BindingRow \cup {NoBinding}]
    /\ evidence \in [Tasks -> Seq(EvidenceRow)]
    /\ reports \in [Tasks -> Seq(ReportRow)]

---------------------------------------------------------------------------
(* Queries *)

Exists(t) == tasks[t].state # "ABSENT"

Workers(t) == { r \in Runs : bindings[r].task = t /\ bindings[r].role = "worker" }
Reviewers(t) == { r \in Runs : bindings[r].task = t /\ bindings[r].role = "reviewer" }

ActiveWorkers(t) == { r \in Workers(t) : bindings[r].state = "active" }
ActiveReviewers(t) == { r \in Reviewers(t) : bindings[r].state = "active" }

\* The run was assigned under the acceptance the task has now.
Current(t, r) == /\ bindings[r].acceptance = tasks[t].acceptance
                 /\ bindings[r].digest = tasks[t].digest

CompletedWorkers(t) ==
    { r \in Workers(t) : bindings[r].state = "completed" /\ Current(t, r) }

\* ORDER BY task_revision DESC: ties would be broken by creation time, but
\* EpochsDistinct shows there are none.
LatestByEpoch(S) == { r \in S : \A q \in S : bindings[q].epoch <= bindings[r].epoch }

LatestCompletedWorker(t) == LatestByEpoch(CompletedWorkers(t))

\* The verdict of reviewer run r can decide about the submission of w.
Slip_AnyEpoch(t, r, w) ==
    /\ r \in Reviewers(t) \ {w}
    /\ Current(t, r)
    /\ bindings[r].agent # bindings[w].agent

MayDecide(t, r, w) ==
    /\ r \in Reviewers(t) \ {w}
    /\ Current(t, r)
    /\ bindings[r].agent # bindings[w].agent
    /\ bindings[r].epoch >= bindings[w].epoch

VerdictsOn(t, w) ==
    { i \in DOMAIN evidence[t] :
        /\ evidence[t][i].acceptance = tasks[t].acceptance
        /\ MayDecide(t, evidence[t][i].run, w) }

\* The last row of the set, by rowid, is a PASS.
LatestIsPass(t, rows) ==
    \E i \in rows : /\ evidence[t][i].verdict = "PASS"
                    /\ \A j \in rows : j <= i

\* The DONE gate.
CurrentReviewerPass(t) ==
    \E w \in LatestCompletedWorker(t) : LatestIsPass(t, VerdictsOn(t, w))

\* SELECT ... WHERE acceptance_revision=? ORDER BY rowid DESC LIMIT 1
ReportsFor(t) == { i \in DOMAIN reports[t] : reports[t][i].acceptance = tasks[t].acceptance }
LatestReport(t) == { i \in ReportsFor(t) : \A j \in ReportsFor(t) : j <= i }

\* The gates computeQualityGates derives for a reader.  They are computed
\* from the same rows by other means than the DONE gate: reviewer evidence is
\* matched by epoch only, and any epoch counts when no worker has completed.
Slip_GateAnyEpoch(t) ==
    { i \in DOMAIN evidence[t] :
        /\ evidence[t][i].acceptance = tasks[t].acceptance
        /\ evidence[t][i].run \in Reviewers(t) }

GateVerdicts(t) ==
    { i \in DOMAIN evidence[t] :
        /\ evidence[t][i].acceptance = tasks[t].acceptance
        /\ evidence[t][i].run \in Reviewers(t)
        /\ \A w \in LatestCompletedWorker(t) :
              bindings[evidence[t][i].run].epoch >= bindings[w].epoch }

BindingIntegrity(t) == tasks[t].state \in {"REVIEW", "DONE"} => ActiveWorkers(t) = {}

AcceptanceFresh(t) ==
    \E i \in DOMAIN evidence[t] : evidence[t][i].acceptance = tasks[t].acceptance

ReadyForDone(t) ==
    /\ LatestCompletedWorker(t) # {}
    /\ ReportsFor(t) # {}
    /\ LatestIsPass(t, GateVerdicts(t))
    /\ AcceptanceFresh(t)
    /\ BindingIntegrity(t)

---------------------------------------------------------------------------
(* Operations *)

Init ==
    /\ tasks = [t \in Tasks |-> NoTask]
    /\ bindings = [r \in Runs |-> NoBinding]
    /\ evidence = [t \in Tasks |-> << >>]
    /\ reports = [t \in Tasks |-> << >>]

\* The bindings after the active ones of t in the given roles are released.
Slip_ReleaseAnyState(t, roles, to) ==
    [r \in Runs |->
        IF bindings[r].task = t /\ bindings[r].role \in roles
        THEN [bindings[r] EXCEPT !.state = to] ELSE bindings[r]]

Released(t, roles, to) ==
    [r \in Runs |->
        IF /\ bindings[r].task = t
           /\ bindings[r].role \in roles
           /\ bindings[r].state = "active"
        THEN [bindings[r] EXCEPT !.state = to] ELSE bindings[r]]

Slip_NewTaskAtZero(c, s) ==
    [state |-> s, revision |-> 0, acceptance |-> 1, digest |-> c, executor |-> Null]

NewTask(c, s) ==
    [state |-> s, revision |-> 1, acceptance |-> 1, digest |-> c, executor |-> Null]

CreateTask(t, c, s) ==
    /\ ~Exists(t)
    /\ s \in {"DRAFT", "BACKLOG"}
    /\ tasks' = [tasks EXCEPT ![t] = NewTask(c, s)]
    /\ UNCHANGED << bindings, evidence, reports >>

\* An edit of the content of a task that is being worked on or reviewed.
Slip_RestartOnlyRunning(t, c) == c # tasks[t].digest /\ tasks[t].state = "RUNNING"

Restarts(t, c) == c # tasks[t].digest /\ tasks[t].state \in {"RUNNING", "REVIEW"}

\* The states updateTask accepts as a target: the listed transitions and the
\* present state, but RUNNING and REVIEW only for a task that is there.
MayMoveTo(t, s) ==
    /\ s = tasks[t].state \/ s \in AllowedTransitions[tasks[t].state] \ {"RUNNING", "REVIEW"}
    /\ s = "DONE" => CurrentReviewerPass(t)

\* What happens to the active bindings when updateTask moves t to state s.
Slip_CancelKeepsRuns(t, c, s) ==
    IF Restarts(t, c) THEN Released(t, {"worker", "reviewer"}, "superseded")
    ELSE IF s = "FAILED" THEN Released(t, {"worker", "reviewer"}, "failed")
    ELSE IF s = "DONE" THEN Released(t, {"worker", "reviewer"}, "superseded")
    ELSE bindings

BindingsAfterUpdate(t, c, s) ==
    IF Restarts(t, c) THEN Released(t, {"worker", "reviewer"}, "superseded")
    ELSE IF s = "FAILED" THEN Released(t, {"worker", "reviewer"}, "failed")
    ELSE IF s \in {"DONE", "CANCELLED"} THEN Released(t, {"worker", "reviewer"}, "superseded")
    ELSE bindings

\* Only an edit of the content takes a new acceptance revision.
Slip_AcceptanceOnRestart(t, c) ==
    IF Restarts(t, c) THEN tasks[t].acceptance + 1 ELSE tasks[t].acceptance

NextAcceptance(t, c) ==
    IF c # tasks[t].digest THEN tasks[t].acceptance + 1 ELSE tasks[t].acceptance

\* c is the content and s the state the task would have; a field the caller
\* leaves out is the present value.  A restart forces READY whatever s says.
UpdateTask(t, c, s) ==
    LET target == IF Restarts(t, c) THEN "READY" ELSE s
    IN
    /\ Exists(t)
    /\ tasks[t].revision < MaxRevision
    /\ tasks[t].state = "DONE" => c = tasks[t].digest
    /\ Restarts(t, c) \/ MayMoveTo(t, s)
    /\ tasks' = [tasks EXCEPT ![t] =
          [state |-> target,
           revision |-> tasks[t].revision + 1,
           acceptance |-> NextAcceptance(t, c),
           digest |-> c,
           executor |-> IF Restarts(t, c) THEN Null ELSE tasks[t].executor]]
    /\ bindings' = BindingsAfterUpdate(t, c, target)
    /\ UNCHANGED << evidence, reports >>

NewBinding(t, role, a, p, epoch) ==
    [task |-> t, role |-> role, agent |-> a, parent |-> p, epoch |-> epoch,
     acceptance |-> tasks[t].acceptance, digest |-> tasks[t].digest,
     state |-> "active", lifecycle |-> "queued"]

Slip_KeepExecutor(t, a) ==
    [tasks EXCEPT ![t].state = "RUNNING", ![t].revision = @ + 1]

Slip_KeepRevision(t, a) ==
    [tasks EXCEPT ![t].state = "RUNNING", ![t].executor = a]

TaskAssignedTo(t, a) ==
    [tasks EXCEPT ![t].state = "RUNNING", ![t].executor = a, ![t].revision = @ + 1]

\* A worker can be assigned: RUNNING is a listed transition and no worker holds t.
Slip_AssignOverHolder(t) == "RUNNING" \in AllowedTransitions[tasks[t].state]

Assignable(t) ==
    /\ "RUNNING" \in AllowedTransitions[tasks[t].state]
    /\ ActiveWorkers(t) = {}

AssignWorker(t, r, a, p) ==
    /\ Exists(t)
    /\ tasks[t].revision < MaxRevision
    /\ bindings[r] = NoBinding
    /\ Assignable(t)
    /\ tasks' = TaskAssignedTo(t, a)
    /\ bindings' = [Released(t, {"reviewer"}, "superseded") EXCEPT ![r] =
                      NewBinding(t, "worker", a, p, tasks[t].revision + 1)]
    /\ UNCHANGED << evidence, reports >>

AssignReviewer(t, r, a, p) ==
    /\ tasks[t].state = "REVIEW"
    /\ bindings[r] = NoBinding
    /\ LatestCompletedWorker(t) # {}
    /\ bindings' = [Released(t, {"reviewer"}, "superseded") EXCEPT ![r] =
                      NewBinding(t, "reviewer", a, p, tasks[t].revision)]
    /\ UNCHANGED << tasks, evidence, reports >>

TransferRun(t, r, a, p) ==
    /\ tasks[t].state = "RUNNING"
    /\ tasks[t].revision < MaxRevision
    /\ bindings[r] = NoBinding
    /\ tasks' = TaskAssignedTo(t, a)
    /\ bindings' = [Released(t, {"worker", "reviewer"}, "superseded") EXCEPT ![r] =
                      NewBinding(t, "worker", a, p, tasks[t].revision + 1)]
    /\ UNCHANGED << evidence, reports >>

\* One row per acceptance and worker run; an update keeps the row's place.
UpsertReport(t, r, x) ==
    LET row == [acceptance |-> tasks[t].acceptance, run |-> r, report |-> x]
        at == { i \in ReportsFor(t) : reports[t][i].run = r }
    IN  [reports EXCEPT ![t] =
            IF at = {} THEN Append(@, row)
            ELSE [i \in DOMAIN @ |-> IF i \in at THEN row ELSE @[i]]]

\* The attestation of an active run is accepted: it ran under the acceptance
\* of now, and while the task is RUNNING it is the executor's.
MayAttest(t, r) ==
    /\ r \in ActiveWorkers(t)
    /\ Current(t, r)
    /\ tasks[t].state \in {"RUNNING", "REVIEW"}
    /\ tasks[t].state = "RUNNING" => tasks[t].executor = bindings[r].agent

\* The expected revision the caller sends is recorded but never compared.
AttestCompletion(t, r, x) ==
    /\ MayAttest(t, r)
    /\ tasks[t].revision < MaxRevision
    /\ tasks' = IF tasks[t].state = "RUNNING"
                THEN [tasks EXCEPT ![t].state = "REVIEW", ![t].revision = @ + 1]
                ELSE tasks
    /\ bindings' = [bindings EXCEPT ![r].state = "completed", ![r].lifecycle = "completed"]
    /\ reports' = UpsertReport(t, r, x)
    /\ UNCHANGED evidence

\* A report of the latest completed worker is replaced, in any task state.
ImportReviewReport(t, r, x) ==
    /\ Exists(t)
    /\ r \in LatestCompletedWorker(t)
    /\ reports' = UpsertReport(t, r, x)
    /\ UNCHANGED << tasks, bindings, evidence >>

\* A reviewer run gives its one verdict, while its task waits for review.
MayReview(t, r) ==
    /\ tasks[t].state = "REVIEW"
    /\ r \in ActiveReviewers(t)
    /\ Current(t, r)
    /\ \E w \in LatestCompletedWorker(t) : bindings[w].agent # bindings[r].agent

RecordReviewerEvidence(t, r, v) ==
    /\ MayReview(t, r)
    /\ Len(evidence[t]) < MaxEvidence
    /\ bindings' = [bindings EXCEPT ![r].state = "completed", ![r].lifecycle = "completed"]
    /\ \E w \in LatestCompletedWorker(t) :
          evidence' = [evidence EXCEPT ![t] = Append(@,
            [acceptance |-> tasks[t].acceptance, verdict |-> v, run |-> r, submission |-> w])]
    /\ UNCHANGED << tasks, reports >>

\* Verifier evidence belongs to no run.
RecordEvidence(t, v) ==
    /\ tasks[t].state = "REVIEW"
    /\ Len(evidence[t]) < MaxEvidence
    /\ evidence' = [evidence EXCEPT ![t] = Append(@,
          [acceptance |-> tasks[t].acceptance, verdict |-> v, run |-> Null, submission |-> Null])]
    /\ UNCHANGED << tasks, bindings, reports >>

\* A monitor update of any bound run, whatever its state.
UpdateRunActivity(r, l) ==
    /\ bindings[r] # NoBinding
    /\ bindings' = [bindings EXCEPT ![r].lifecycle = l]
    /\ UNCHANGED << tasks, evidence, reports >>

Next ==
    \/ \E t \in Tasks :
        \/ \E c \in Contents, s \in TaskStates : CreateTask(t, c, s) \/ UpdateTask(t, c, s)
        \/ \E r \in Runs, a \in Agents, p \in Sessions :
              AssignWorker(t, r, a, p) \/ AssignReviewer(t, r, a, p) \/ TransferRun(t, r, a, p)
        \/ \E r \in Runs, x \in Reports : AttestCompletion(t, r, x) \/ ImportReviewReport(t, r, x)
        \/ \E r \in Runs, v \in Verdicts : RecordReviewerEvidence(t, r, v)
        \/ \E v \in Verdicts : RecordEvidence(t, v)
    \/ \E r \in Runs, l \in Lifecycles : UpdateRunActivity(r, l)

Spec == Init /\ [][Next]_vars

---------------------------------------------------------------------------
(* Properties *)

\* A task has at most one active worker and one active reviewer, by the
\* guards of assign and transfer alone (the partial unique indexes that
\* would reject a second one never have to).
OneActiveRunPerRole ==
    \A t \in Tasks :
        /\ \A q, r \in ActiveWorkers(t) : q = r
        /\ \A q, r \in ActiveReviewers(t) : q = r

\* No worker is left active in a task that is being reviewed or is closed:
\* the inconsistency getTaskDetail reports to readers never arises.
NoWorkerBehindReview ==
    \A t \in Tasks :
        tasks[t].state \in {"REVIEW", "DONE", "FAILED", "CANCELLED"} => ActiveWorkers(t) = {}

\* A RUNNING task is worked on now: it has an active worker, assigned under
\* the acceptance it has now, whose agent is its executor, so its completion
\* can be attested.
RunningIsAttended ==
    \A t \in Tasks :
        tasks[t].state = "RUNNING" =>
            \E r \in ActiveWorkers(t) : Current(t, r) /\ bindings[r].agent = tasks[t].executor

\* A task in REVIEW has a submission to review: one completed worker of the
\* acceptance of now, newer than every other worker it ever had, and the
\* report shown to the reviewer is that worker's.
ReviewHasSubmission ==
    \A t \in Tasks :
        tasks[t].state = "REVIEW" =>
            \E w \in LatestCompletedWorker(t) :
                /\ \A r \in Workers(t) \ {w} : bindings[r].epoch < bindings[w].epoch
                /\ \E i \in LatestReport(t) : reports[t][i].run = w

\* A DONE task was approved: the last reviewer verdict of its acceptance is a
\* PASS, recorded for the submission that is its latest one, by a run of
\* another agent.  A PASS for an earlier submission, of an earlier content
\* or of the worker's own agent never closes a task.
DoneIsReviewed ==
    \A t \in Tasks :
        tasks[t].state = "DONE" =>
            \E w \in LatestCompletedWorker(t), i \in DOMAIN evidence[t] :
                /\ evidence[t][i].verdict = "PASS"
                /\ evidence[t][i].submission = w
                /\ evidence[t][i].acceptance = tasks[t].acceptance
                /\ evidence[t][i].run \in Reviewers(t)
                /\ bindings[evidence[t][i].run].agent # bindings[w].agent
                /\ \A j \in DOMAIN evidence[t] :
                      j > i => evidence[t][j].run = Null

\* What the dashboard calls ready for DONE is what the store accepts: for a
\* task in REVIEW the gates of computeQualityGates pass exactly when
\* updateTask lets it move to DONE, and a DONE task never shows a gate open.
GatesAgreeWithStore ==
    \A t \in Tasks :
        /\ tasks[t].state = "REVIEW" => (ReadyForDone(t) <=> MayMoveTo(t, "DONE"))
        /\ tasks[t].state = "DONE" => ReadyForDone(t)

\* An acceptance revision names one content: rows of a task that carry the
\* same acceptance revision carry the same digest, so evidence matched by
\* revision alone is matched by content too.
AcceptanceNamesContent ==
    \A t \in Tasks : \A r \in Workers(t) \cup Reviewers(t) :
        /\ bindings[r].acceptance = tasks[t].acceptance => bindings[r].digest = tasks[t].digest
        /\ \A q \in Workers(t) \cup Reviewers(t) :
              bindings[q].acceptance = bindings[r].acceptance => bindings[q].digest = bindings[r].digest

\* No two workers of a task share an assignment epoch, so the order by
\* task_revision that picks the latest submission is never a tie.
EpochsDistinct ==
    \A t \in Tasks : \A q, r \in Workers(t) :
        bindings[q].epoch = bindings[r].epoch => q = r

\* What a step may do to a run: nothing to its assignment, and nothing to
\* its state once it has ended.
RunKept(r) ==
    /\ bindings[r].state \in {"superseded", "completed", "failed"} =>
          bindings'[r].state = bindings[r].state
    /\ bindings[r] # NoBinding =>
          bindings'[r] = [bindings[r] EXCEPT !.state = bindings'[r].state,
                                             !.lifecycle = bindings'[r].lifecycle]

\* A run that has been superseded, has failed or has completed stays so, and
\* what it was assigned to never changes: late calls of a parent cannot
\* bring a released run back or take a submission away.
RunsEndOnce == [][\A r \in Runs : RunKept(r)]_vars
=============================================================================
