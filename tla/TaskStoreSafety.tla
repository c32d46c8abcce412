-------------------------- MODULE TaskStoreSafety --------------------------
(***************************************************************************)
(* The safety of the task kernel, for every value of its constants.        *)
(*                                                                         *)
(* The operations are first summed up by what any of them may do to the    *)
(* rows (StoreStep); the invariants then follow from StoreStep without a   *)
(* case for each operation.                                                *)
(***************************************************************************)
EXTENDS TaskStore, TLAPS

---------------------------------------------------------------------------
(* Types *)

LEMMA InitType == Init => TypeOK
  BY DEF Init, TypeOK

\* Releasing bindings keeps them well typed.
LEMMA ReleasedType ==
  ASSUME TypeOK, NEW t \in Tasks, NEW roles, NEW to \in BindingStates
  PROVE  Released(t, roles, to) \in [Runs -> BindingRow \cup {NoBinding}]
  <1> SUFFICES ASSUME NEW r \in Runs, bindings[r].task = t
               PROVE  [bindings[r] EXCEPT !.state = to] \in BindingRow
    BY DEF TypeOK, Released
  <1>1. bindings[r] \in BindingRow
    BY NullAssumption DEF TypeOK, NoBinding
  <1> QED
    BY <1>1 DEF BindingRow

LEMMA CreateTaskType ==
  ASSUME TypeOK, NEW t \in Tasks, NEW c \in Contents, NEW s \in TaskStates, CreateTask(t, c, s)
  PROVE  TypeOK'
  <1>1. NewTask(c, s) \in TaskRow
    BY BoundAssumption DEF NewTask, TaskRow, TaskStates
  <1> QED
    BY <1>1 DEF TypeOK, CreateTask

LEMMA UpdateTaskType ==
  ASSUME TypeOK, NEW t \in Tasks, NEW c \in Contents, NEW s \in TaskStates, UpdateTask(t, c, s)
  PROVE  TypeOK'
  <1> DEFINE target == IF Restarts(t, c) THEN "READY" ELSE s
  <1>1. tasks[t] \in TaskRow
    BY DEF TypeOK, UpdateTask, Exists, NoTask
  <1>2. tasks' \in [Tasks -> TaskRow \cup {NoTask}]
    BY <1>1, BoundAssumption DEF TypeOK, UpdateTask, TaskRow, NextAcceptance, TaskStates
  <1>3. bindings' \in [Runs -> BindingRow \cup {NoBinding}]
    <2>1. bindings' = BindingsAfterUpdate(t, c, target)
      BY DEF UpdateTask
    <2>2. "failed" \in BindingStates /\ "superseded" \in BindingStates
      BY DEF BindingStates
    <2> QED
      BY <2>1, <2>2, ReleasedType DEF BindingsAfterUpdate, TypeOK
  <1> QED
    BY <1>2, <1>3 DEF TypeOK, UpdateTask

\* A task in one of the states that an operation acts on exists.
LEMMA TaskRowOf ==
  ASSUME TypeOK, NEW t \in Tasks, tasks[t].state # "ABSENT"
  PROVE  tasks[t] \in TaskRow
  BY DEF TypeOK, NoTask

LEMMA BindingRowOf ==
  ASSUME TypeOK, NEW r \in Runs, bindings[r] # NoBinding
  PROVE  bindings[r] \in BindingRow
  BY DEF TypeOK

LEMMA NewBindingType ==
  ASSUME TypeOK, NEW t \in Tasks, tasks[t] \in TaskRow, NEW role \in {"worker", "reviewer"},
         NEW a \in Agents, NEW p \in Sessions, NEW epoch \in 1..MaxRevision
  PROVE  NewBinding(t, role, a, p, epoch) \in BindingRow
  BY LifecycleAssumption DEF NewBinding, BindingRow, TaskRow, BindingStates

LEMMA TaskAssignedToType ==
  ASSUME TypeOK, NEW t \in Tasks, tasks[t] \in TaskRow, tasks[t].revision < MaxRevision, NEW a \in Agents
  PROVE  /\ TaskAssignedTo(t, a) \in [Tasks -> TaskRow \cup {NoTask}]
         /\ tasks[t].revision + 1 \in 1..MaxRevision
  <1>1. tasks[t].revision + 1 \in 1..MaxRevision
    BY BoundAssumption DEF TaskRow
  <1>2. [tasks[t] EXCEPT !.state = "RUNNING", !.revision = tasks[t].revision + 1, !.executor = a] \in TaskRow
    BY <1>1 DEF TaskRow, TaskStates
  <1>3. TaskAssignedTo(t, a) = [tasks EXCEPT ![t] =
           [tasks[t] EXCEPT !.state = "RUNNING", !.revision = tasks[t].revision + 1, !.executor = a]]
    BY DEF TaskAssignedTo, TypeOK, TaskRow
  <1> QED
    BY <1>1, <1>2, <1>3 DEF TypeOK

LEMMA AssignWorkerType ==
  ASSUME TypeOK, NEW t \in Tasks, NEW r \in Runs, NEW a \in Agents, NEW p \in Sessions,
         AssignWorker(t, r, a, p)
  PROVE  TypeOK'
  <1>1. tasks[t] \in TaskRow
    BY TaskRowOf DEF AssignWorker, Exists
  <1>2. NewBinding(t, "worker", a, p, tasks[t].revision + 1) \in BindingRow
    BY <1>1, NewBindingType, TaskAssignedToType DEF AssignWorker
  <1>3. Released(t, {"reviewer"}, "superseded") \in [Runs -> BindingRow \cup {NoBinding}]
    BY ReleasedType DEF BindingStates
  <1> QED
    BY <1>1, <1>2, <1>3, TaskAssignedToType DEF TypeOK, AssignWorker

LEMMA AssignReviewerType ==
  ASSUME TypeOK, NEW t \in Tasks, NEW r \in Runs, NEW a \in Agents, NEW p \in Sessions,
         AssignReviewer(t, r, a, p)
  PROVE  TypeOK'
  <1>1. tasks[t] \in TaskRow
    BY TaskRowOf DEF AssignReviewer
  <1>2. NewBinding(t, "reviewer", a, p, tasks[t].revision) \in BindingRow
    BY <1>1, NewBindingType DEF TaskRow
  <1>3. Released(t, {"reviewer"}, "superseded") \in [Runs -> BindingRow \cup {NoBinding}]
    BY ReleasedType DEF BindingStates
  <1> QED
    BY <1>2, <1>3 DEF TypeOK, AssignReviewer

LEMMA TransferRunType ==
  ASSUME TypeOK, NEW t \in Tasks, NEW r \in Runs, NEW a \in Agents, NEW p \in Sessions,
         TransferRun(t, r, a, p)
  PROVE  TypeOK'
  <1>1. tasks[t] \in TaskRow
    BY TaskRowOf DEF TransferRun
  <1>2. NewBinding(t, "worker", a, p, tasks[t].revision + 1) \in BindingRow
    BY <1>1, NewBindingType, TaskAssignedToType DEF TransferRun
  <1>3. Released(t, {"worker", "reviewer"}, "superseded") \in [Runs -> BindingRow \cup {NoBinding}]
    BY ReleasedType DEF BindingStates
  <1> QED
    BY <1>1, <1>2, <1>3, TaskAssignedToType DEF TypeOK, TransferRun

LEMMA UpsertReportType ==
  ASSUME TypeOK, NEW t \in Tasks, tasks[t] \in TaskRow, NEW r \in Runs, NEW x \in Reports
  PROVE  UpsertReport(t, r, x) \in [Tasks -> Seq(ReportRow)]
  <1> DEFINE row == [acceptance |-> tasks[t].acceptance, run |-> r, report |-> x]
  <1> DEFINE at == { i \in ReportsFor(t) : reports[t][i].run = r }
  <1>1. row \in ReportRow
    BY DEF TaskRow, ReportRow
  <1>2. reports[t] \in Seq(ReportRow)
    BY DEF TypeOK
  <1>3. Append(reports[t], row) \in Seq(ReportRow)
    BY <1>1, <1>2
  <1>4. [i \in DOMAIN reports[t] |-> IF i \in at THEN row ELSE reports[t][i]] \in Seq(ReportRow)
    <2> DEFINE f == [i \in 1..Len(reports[t]) |-> IF i \in at THEN row ELSE reports[t][i]]
    <2>1. DOMAIN reports[t] = 1..Len(reports[t]) /\ Len(reports[t]) \in Nat
      BY <1>2
    <2>2. \A i \in 1..Len(reports[t]) : reports[t][i] \in ReportRow
      BY <1>2
    <2>3. f \in [1..Len(reports[t]) -> ReportRow]
      BY <1>1, <2>2
    <2>4. f \in Seq(ReportRow)
      BY <2>1, <2>3
    <2> QED
      BY <2>1, <2>4
  <1> QED
    BY <1>3, <1>4 DEF TypeOK, UpsertReport

LEMMA AttestCompletionType ==
  ASSUME TypeOK, NEW t \in Tasks, NEW r \in Runs, NEW x \in Reports, AttestCompletion(t, r, x)
  PROVE  TypeOK'
  <1>1. tasks[t] \in TaskRow
    BY TaskRowOf DEF AttestCompletion, MayAttest
  <1>2. bindings[r] \in BindingRow
    BY BindingRowOf DEF AttestCompletion, MayAttest, ActiveWorkers, Workers, NoBinding
  <1>3. tasks' \in [Tasks -> TaskRow \cup {NoTask}]
    <2> DEFINE submitted == [tasks[t] EXCEPT !.state = "REVIEW", !.revision = tasks[t].revision + 1]
    <2>1. tasks[t].revision + 1 \in 1..MaxRevision
      BY <1>1, BoundAssumption DEF AttestCompletion, TaskRow
    <2>2. submitted \in TaskRow
      BY <1>1, <2>1 DEF TaskRow, TaskStates
    <2>3. tasks' = tasks \/ tasks' = [tasks EXCEPT ![t] = submitted]
      BY DEF AttestCompletion, TypeOK, TaskRow
    <2> QED
      BY <2>2, <2>3 DEF TypeOK
  <1>4. bindings' \in [Runs -> BindingRow \cup {NoBinding}]
    BY <1>2, LifecycleAssumption DEF TypeOK, AttestCompletion, BindingRow, BindingStates
  <1>5. reports' \in [Tasks -> Seq(ReportRow)]
    BY <1>1, UpsertReportType DEF AttestCompletion
  <1> QED
    BY <1>3, <1>4, <1>5 DEF TypeOK, AttestCompletion

LEMMA ImportReviewReportType ==
  ASSUME TypeOK, NEW t \in Tasks, NEW r \in Runs, NEW x \in Reports, ImportReviewReport(t, r, x)
  PROVE  TypeOK'
  <1>1. tasks[t] \in TaskRow
    BY TaskRowOf DEF ImportReviewReport, Exists
  <1> QED
    BY <1>1, UpsertReportType DEF TypeOK, ImportReviewReport

LEMMA RecordReviewerEvidenceType ==
  ASSUME TypeOK, NEW t \in Tasks, NEW r \in Runs, NEW v \in Verdicts, RecordReviewerEvidence(t, r, v)
  PROVE  TypeOK'
  <1>1. tasks[t] \in TaskRow
    BY TaskRowOf DEF RecordReviewerEvidence, MayReview
  <1>2. bindings[r] \in BindingRow
    BY BindingRowOf DEF RecordReviewerEvidence, MayReview, ActiveReviewers, Reviewers, NoBinding
  <1>3. bindings' \in [Runs -> BindingRow \cup {NoBinding}]
    BY <1>2, LifecycleAssumption DEF TypeOK, RecordReviewerEvidence, BindingRow, BindingStates
  <1>4. PICK w \in LatestCompletedWorker(t) :
          evidence' = [evidence EXCEPT ![t] = Append(@,
            [acceptance |-> tasks[t].acceptance, verdict |-> v, run |-> r, submission |-> w])]
    BY DEF RecordReviewerEvidence
  <1>5. w \in Runs
    BY DEF LatestCompletedWorker, LatestByEpoch, CompletedWorkers, Workers
  <1>6. [acceptance |-> tasks[t].acceptance, verdict |-> v, run |-> r, submission |-> w] \in EvidenceRow
    BY <1>1, <1>5 DEF EvidenceRow, TaskRow
  <1>7. evidence' \in [Tasks -> Seq(EvidenceRow)]
    BY <1>4, <1>6 DEF TypeOK
  <1> QED
    BY <1>3, <1>7 DEF TypeOK, RecordReviewerEvidence

LEMMA RecordEvidenceType ==
  ASSUME TypeOK, NEW t \in Tasks, NEW v \in Verdicts, RecordEvidence(t, v)
  PROVE  TypeOK'
  <1>1. tasks[t] \in TaskRow
    BY TaskRowOf DEF RecordEvidence
  <1>2. [acceptance |-> tasks[t].acceptance, verdict |-> v, run |-> Null, submission |-> Null] \in EvidenceRow
    BY <1>1 DEF EvidenceRow, TaskRow
  <1> QED
    BY <1>2 DEF TypeOK, RecordEvidence

LEMMA UpdateRunActivityType ==
  ASSUME TypeOK, NEW r \in Runs, NEW l \in Lifecycles, UpdateRunActivity(r, l)
  PROVE  TypeOK'
  <1>1. bindings[r] \in BindingRow
    BY BindingRowOf DEF UpdateRunActivity
  <1> QED
    BY <1>1 DEF TypeOK, UpdateRunActivity, BindingRow

LEMMA NextType == TypeOK /\ [Next]_vars => TypeOK'
  <1> SUFFICES ASSUME TypeOK, [Next]_vars PROVE TypeOK'
    OBVIOUS
  <1>1. CASE UNCHANGED vars
    BY <1>1 DEF vars, TypeOK
  <1>2. CASE Next
    BY <1>2, CreateTaskType, UpdateTaskType, AssignWorkerType, AssignReviewerType, TransferRunType,
       AttestCompletionType, ImportReviewReportType, RecordReviewerEvidenceType, RecordEvidenceType,
       UpdateRunActivityType DEF Next
  <1> QED
    BY <1>1, <1>2

\* Every row the store writes is well typed: revisions and acceptance
\* revisions are positive, a binding always names a task, a content and agents
\* that the task or its caller named.
THEOREM TypeCorrect == Spec => []TypeOK
  BY InitType, NextType, PTL DEF Spec

---------------------------------------------------------------------------
(* What a step may do *)

Bound(r) == bindings[r].task \in Tasks

Fresh(r) == ~Bound(r) /\ Bound(r)'

\* What a run was assigned to never changes, and a run that has ended stays so.
RowsKept ==
    \A r \in Runs : Bound(r) =>
        /\ bindings'[r].task = bindings[r].task
        /\ bindings'[r].role = bindings[r].role
        /\ bindings'[r].agent = bindings[r].agent
        /\ bindings'[r].parent = bindings[r].parent
        /\ bindings'[r].epoch = bindings[r].epoch
        /\ bindings'[r].acceptance = bindings[r].acceptance
        /\ bindings'[r].digest = bindings[r].digest
        /\ bindings[r].state # "active" => bindings'[r].state = bindings[r].state

\* Revisions only grow, and content changes only with the acceptance revision.
TasksAdvance ==
    \A t \in Tasks : tasks[t].state # "ABSENT" =>
        /\ tasks'[t].state # "ABSENT"
        /\ tasks'[t].revision >= tasks[t].revision
        /\ tasks'[t].acceptance >= tasks[t].acceptance
        /\ tasks'[t].acceptance = tasks[t].acceptance => tasks'[t].digest = tasks[t].digest

\* A new run is active under the acceptance of its task, at its revision; a
\* worker takes a revision of its own.
FreshRows ==
    \A r \in Runs : Fresh(r) =>
        LET t == bindings'[r].task
            b == bindings'[r]
        IN  /\ tasks[t].state # "ABSENT"
            /\ b.state = "active"
            /\ b.acceptance = tasks[t].acceptance /\ tasks'[t].acceptance = tasks[t].acceptance
            /\ b.digest = tasks[t].digest /\ tasks'[t].digest = tasks[t].digest
            /\ b.epoch = tasks'[t].revision
            /\ b.role = "worker" =>
                  b.epoch = tasks[t].revision + 1 /\ tasks'[t].state = "RUNNING"
            /\ b.role = "reviewer" => tasks'[t].state = "REVIEW"

\* A new run is the only one, and displaces the runs it replaces.
FreshAlone ==
    \A r \in Runs : Fresh(r) =>
        \A q \in Runs \ {r} :
            /\ ~Fresh(q)
            /\ bindings'[q].task = bindings'[r].task /\ bindings'[q].state = "active" =>
                  bindings'[r].role = "reviewer" /\ bindings'[q].role = "worker"

\* A run completes only as the worker of a RUNNING task that goes to review,
\* or while its task is in REVIEW.
Completions ==
    \A r \in Runs : Bound(r) /\ bindings[r].state = "active" /\ bindings'[r].state = "completed" =>
        LET t == bindings[r].task
        IN  /\ tasks'[t].state = "REVIEW"
            /\ tasks[t].state \in {"RUNNING", "REVIEW"}
            /\ tasks'[t].acceptance = tasks[t].acceptance

\* How a task comes to be RUNNING, in REVIEW or closed.
StatesEntered ==
    \A t \in Tasks :
        /\ tasks'[t].state = "RUNNING" =>
              \/ \E r \in Runs : /\ Fresh(r)
                                 /\ bindings'[r].task = t /\ bindings'[r].role = "worker"
                                 /\ bindings'[r].agent = tasks'[t].executor
              \/ /\ tasks[t].state = "RUNNING"
                 /\ tasks'[t].executor = tasks[t].executor
                 /\ tasks'[t].acceptance = tasks[t].acceptance
                 /\ tasks'[t].digest = tasks[t].digest
                 /\ \A r \in Runs : bindings[r].task = t => bindings'[r].state = bindings[r].state
        /\ tasks'[t].state = "REVIEW" =>
              /\ tasks'[t].acceptance = tasks[t].acceptance
              /\ tasks'[t].digest = tasks[t].digest
              /\ \/ tasks[t].state = "REVIEW"
                 \/ /\ tasks[t].state = "RUNNING"
                    /\ \E r \in ActiveWorkers(t) :
                          bindings[r].acceptance = tasks[t].acceptance /\ bindings'[r].state = "completed"
        /\ tasks'[t].state \in {"FAILED", "CANCELLED", "DONE"} =>
              \A r \in Runs : Fresh(r) => bindings'[r].task # t
        /\ tasks'[t].state \in {"FAILED", "CANCELLED", "DONE"} /\ tasks[t].state # tasks'[t].state =>
              \A r \in Runs : bindings[r].task = t => bindings'[r].state # "active"

StoreStep == RowsKept /\ TasksAdvance /\ FreshRows /\ FreshAlone /\ Completions /\ StatesEntered

LEMMA CreateTaskStep ==
  ASSUME TypeOK, NEW t \in Tasks, NEW c \in Contents, NEW s \in TaskStates, CreateTask(t, c, s)
  PROVE  StoreStep
  BY DEF TypeOK, CreateTask, NewTask, Exists, NoTask, TaskRow, StoreStep, RowsKept, TasksAdvance,
         FreshRows, FreshAlone, Completions, StatesEntered, Fresh, Bound

LEMMA UpdateTaskStep ==
  ASSUME TypeOK, NEW t \in Tasks, NEW c \in Contents, NEW s \in TaskStates, UpdateTask(t, c, s)
  PROVE  StoreStep
  <1> DEFINE target == IF Restarts(t, c) THEN "READY" ELSE s
  <1>1. tasks[t] \in TaskRow
    BY TaskRowOf DEF UpdateTask, Exists
  <1>2. /\ tasks'[t].state = target
        /\ tasks'[t].revision = tasks[t].revision + 1
        /\ tasks'[t].acceptance = NextAcceptance(t, c)
        /\ tasks'[t].digest = c
        /\ tasks'[t].executor = IF Restarts(t, c) THEN Null ELSE tasks[t].executor
        /\ \A u \in Tasks \ {t} : tasks'[u] = tasks[u]
    BY DEF UpdateTask, TypeOK
  <1>3. \A r \in Runs : bindings'[r] = bindings[r] \/
           /\ bindings[r].task = t
           /\ bindings[r].state = "active"
           /\ \E to \in {"superseded", "failed"} : bindings'[r] = [bindings[r] EXCEPT !.state = to]
           /\ Restarts(t, c) \/ s \in {"FAILED", "DONE", "CANCELLED"}
    BY DEF UpdateTask, BindingsAfterUpdate, Released
  <1>4. ~Restarts(t, c) /\ s \in {"FAILED", "DONE", "CANCELLED"} =>
           \A r \in Runs : bindings[r].task = t => bindings'[r].state # "active"
    BY NullAssumption DEF UpdateTask, BindingsAfterUpdate, Released, TypeOK, BindingRow, NoBinding
  <1>5. \A r \in Runs : bindings[r] \in BindingRow \cup {NoBinding}
    BY DEF TypeOK
  <1> DEFINE kept(r) == /\ bindings'[r].task = bindings[r].task
                        /\ bindings'[r].role = bindings[r].role
                        /\ bindings'[r].agent = bindings[r].agent
                        /\ bindings'[r].parent = bindings[r].parent
                        /\ bindings'[r].epoch = bindings[r].epoch
                        /\ bindings'[r].acceptance = bindings[r].acceptance
                        /\ bindings'[r].digest = bindings[r].digest
  <1>5a. \A r \in Runs : kept(r) /\ (bindings'[r].state = bindings[r].state
                          \/ /\ bindings[r].task = t
                             /\ bindings[r].state = "active"
                             /\ bindings'[r].state \in {"superseded", "failed"}
                             /\ Restarts(t, c) \/ s \in {"FAILED", "DONE", "CANCELLED"})
    <2> SUFFICES ASSUME NEW r \in Runs, bindings'[r] # bindings[r]
                 PROVE  /\ kept(r)
                        /\ bindings[r].task = t /\ bindings[r].state = "active"
                        /\ bindings'[r].state \in {"superseded", "failed"}
                        /\ Restarts(t, c) \/ s \in {"FAILED", "DONE", "CANCELLED"}
      OBVIOUS
    <2>1. PICK to \in {"superseded", "failed"} : bindings'[r] = [bindings[r] EXCEPT !.state = to]
      BY <1>3
    <2>2. bindings[r].task = t /\ bindings[r].state = "active" /\ (Restarts(t, c) \/ s \in {"FAILED", "DONE", "CANCELLED"})
      BY <1>3
    <2>3. bindings[r] \in BindingRow
      BY <1>5, <2>2, NullAssumption DEF NoBinding
    <2> QED
      BY <2>1, <2>2, <2>3 DEF BindingRow
  <1>6. RowsKept
    BY <1>5a DEF RowsKept
  <1>7. TasksAdvance
    <2>1. \A u \in Tasks : tasks[u] \in TaskRow \cup {NoTask}
      BY DEF TypeOK
    <2>2. target # "ABSENT"
      BY DEF TaskStates
    <2> QED
      BY <1>1, <1>2, <2>1, <2>2 DEF TasksAdvance, NextAcceptance, TaskRow, NoTask
  <1>8. \A r \in Runs : ~Fresh(r)
    BY <1>5a DEF Fresh, Bound
  <1>9. Completions
    BY <1>5a DEF Completions
  <1>10. StatesEntered
    <2>1. ASSUME NEW u \in Tasks, u # t
          PROVE  tasks'[u] = tasks[u] /\ \A r \in Runs : bindings[r].task = u => bindings'[r].state = bindings[r].state
      BY <1>2, <1>5a, <2>1
    <2>2. target \in {"RUNNING", "REVIEW"} => target = tasks[t].state /\ ~Restarts(t, c)
      BY <1>1 DEF UpdateTask, MayMoveTo
    <2>3. target \in {"RUNNING", "REVIEW"} => c = tasks[t].digest
      BY <2>2 DEF Restarts
    <2>4. target \in {"RUNNING", "REVIEW"} =>
            /\ tasks'[t].acceptance = tasks[t].acceptance
            /\ tasks'[t].digest = tasks[t].digest
            /\ tasks'[t].executor = tasks[t].executor
            /\ \A r \in Runs : bindings[r].task = t => bindings'[r].state = bindings[r].state
      BY <1>2, <1>5a, <2>2, <2>3 DEF NextAcceptance
    <2>5. target \in {"FAILED", "CANCELLED", "DONE"} =>
            \A r \in Runs : bindings[r].task = t => bindings'[r].state # "active"
      BY <1>4
    <2> QED
      BY <1>2, <1>8, <2>1, <2>2, <2>4, <2>5 DEF StatesEntered
  <1> QED
    BY <1>6, <1>7, <1>8, <1>9, <1>10 DEF StoreStep, FreshRows, FreshAlone

\* What releasing does to a row.
LEMMA ReleasedEffect ==
  ASSUME TypeOK, NEW t \in Tasks, NEW roles, NEW to \in {"superseded", "failed"}, NEW q \in Runs
  PROVE  LET b == Released(t, roles, to)[q]
         IN  /\ b.task = bindings[q].task /\ b.role = bindings[q].role
             /\ b.agent = bindings[q].agent /\ b.parent = bindings[q].parent
             /\ b.epoch = bindings[q].epoch
             /\ b.acceptance = bindings[q].acceptance /\ b.digest = bindings[q].digest
             /\ bindings[q].state # "active" => b.state = bindings[q].state
             /\ b.state \in {bindings[q].state, to}
             /\ bindings[q].task # t \/ bindings[q].role \notin roles => b = bindings[q]
             /\ bindings[q].task = t /\ bindings[q].role \in roles => b.state # "active"
  <1> DEFINE b == Released(t, roles, to)[q]
  <1>1. CASE /\ bindings[q].task = t
             /\ bindings[q].role \in roles
             /\ bindings[q].state = "active"
    <2>1. b = [bindings[q] EXCEPT !.state = to]
      BY <1>1 DEF Released
    <2>2. bindings[q] \in BindingRow
      BY <1>1, NullAssumption DEF TypeOK, NoBinding
    <2> QED
      BY <1>1, <2>1, <2>2 DEF BindingRow
  <1>2. CASE ~ /\ bindings[q].task = t
               /\ bindings[q].role \in roles
               /\ bindings[q].state = "active"
    BY <1>2 DEF Released
  <1> QED
    BY <1>1, <1>2

\* A run bound while the other rows of its task are released: a worker for
\* a task that becomes RUNNING, or a reviewer of a task in REVIEW.
LEMMA BindStep ==
  ASSUME TypeOK, NEW t \in Tasks, NEW r \in Runs, NEW a \in Agents, NEW p \in Sessions,
         NEW role \in {"worker", "reviewer"}, NEW roles \in SUBSET {"worker", "reviewer"}, "reviewer" \in roles,
         role = "worker" => "worker" \in roles \/ ActiveWorkers(t) = {},
         tasks[t] \in TaskRow, ~Bound(r),
         bindings' = [Released(t, roles, "superseded") EXCEPT ![r] =
                         NewBinding(t, role, a, p, tasks'[t].revision)],
         \A u \in Tasks \ {t} : tasks'[u] = tasks[u],
         tasks'[t].acceptance = tasks[t].acceptance, tasks'[t].digest = tasks[t].digest,
         \/ /\ role = "worker" /\ tasks'[t].state = "RUNNING" /\ tasks'[t].executor = a
            /\ tasks'[t].revision = tasks[t].revision + 1
         \/ role = "reviewer" /\ tasks'[t] = tasks[t] /\ tasks[t].state = "REVIEW"
  PROVE  StoreStep
  <1>1. /\ bindings'[r] = NewBinding(t, role, a, p, tasks'[t].revision)
        /\ \A q \in Runs \ {r} : bindings'[q] = Released(t, roles, "superseded")[q]
    BY DEF Released
  <1>2. /\ bindings'[r].task = t /\ bindings'[r].role = role /\ bindings'[r].agent = a
        /\ bindings'[r].state = "active" /\ bindings'[r].epoch = tasks'[t].revision
        /\ bindings'[r].acceptance = tasks[t].acceptance /\ bindings'[r].digest = tasks[t].digest
    BY <1>1 DEF NewBinding
  <1>3. Fresh(r) /\ \A q \in Runs \ {r} : ~Fresh(q)
    BY <1>1, <1>2, ReleasedEffect DEF Fresh, Bound
  <1>4. tasks[t].state # "ABSENT"
    BY DEF TaskRow, TaskStates
  <1>5. \A u \in Tasks : tasks[u] \in TaskRow \cup {NoTask}
    BY DEF TypeOK
  <1>6. RowsKept
    BY <1>1, ReleasedEffect DEF RowsKept, Bound
  <1>7. TasksAdvance
    BY <1>4, <1>5 DEF TasksAdvance, TaskRow, NoTask
  <1>8. FreshRows
    BY <1>2, <1>3, <1>4 DEF FreshRows
  <1>9. FreshAlone
    <2>1. ASSUME NEW q \in Runs \ {r}, bindings'[q].task = t, bindings'[q].state = "active"
          PROVE  role = "reviewer" /\ bindings'[q].role = "worker"
      <3>1. bindings[q].task = t /\ bindings[q].state = "active" /\ bindings'[q] = bindings[q]
        BY <1>1, <2>1, ReleasedEffect
      <3>2. bindings[q].role \in {"worker", "reviewer"} \ roles
        BY <1>1, <2>1, <3>1, ReleasedEffect, NullAssumption DEF TypeOK, BindingRow, NoBinding
      <3> QED
        BY <3>1, <3>2 DEF ActiveWorkers, Workers
    <2> QED
      BY <1>2, <1>3, <2>1 DEF FreshAlone
  <1>10. Completions
    BY <1>1, ReleasedEffect DEF Completions, Bound
  <1>11. StatesEntered
    <2>1. ASSUME NEW u \in Tasks, u # t
          PROVE  tasks'[u] = tasks[u] /\ \A q \in Runs : bindings[q].task = u => bindings'[q].state = bindings[q].state
      BY <1>1, <2>1, ReleasedEffect DEF Bound
    <2> QED
      BY <1>2, <1>3, <2>1 DEF StatesEntered
  <1> QED
    BY <1>6, <1>7, <1>8, <1>9, <1>10, <1>11 DEF StoreStep

LEMMA Unbound == ASSUME NEW r, bindings[r] = NoBinding PROVE ~Bound(r)
  BY NullAssumption DEF Bound, NoBinding

LEMMA AssignedTask ==
  ASSUME TypeOK, NEW t \in Tasks, NEW a \in Agents, tasks[t] \in TaskRow, tasks' = TaskAssignedTo(t, a)
  PROVE  /\ tasks'[t].state = "RUNNING" /\ tasks'[t].executor = a
         /\ tasks'[t].revision = tasks[t].revision + 1
         /\ tasks'[t].acceptance = tasks[t].acceptance /\ tasks'[t].digest = tasks[t].digest
         /\ \A u \in Tasks \ {t} : tasks'[u] = tasks[u]
  BY DEF TypeOK, TaskAssignedTo, TaskRow

LEMMA AssignWorkerStep ==
  ASSUME TypeOK, NEW t \in Tasks, NEW r \in Runs, NEW a \in Agents, NEW p \in Sessions,
         AssignWorker(t, r, a, p)
  PROVE  StoreStep
  <1>1. tasks[t] \in TaskRow
    BY TaskRowOf DEF AssignWorker, Exists
  <1>2. ~Bound(r) /\ ActiveWorkers(t) = {}
    BY Unbound DEF AssignWorker, Assignable
  <1>3. bindings' = [Released(t, {"reviewer"}, "superseded") EXCEPT ![r] =
                        NewBinding(t, "worker", a, p, tasks'[t].revision)]
    BY <1>1, AssignedTask DEF AssignWorker
  <1> QED
    BY <1>1, <1>2, <1>3, AssignedTask, BindStep DEF AssignWorker

LEMMA AssignReviewerStep ==
  ASSUME TypeOK, NEW t \in Tasks, NEW r \in Runs, NEW a \in Agents, NEW p \in Sessions,
         AssignReviewer(t, r, a, p)
  PROVE  StoreStep
  BY TaskRowOf, Unbound, BindStep DEF AssignReviewer

LEMMA TransferRunStep ==
  ASSUME TypeOK, NEW t \in Tasks, NEW r \in Runs, NEW a \in Agents, NEW p \in Sessions,
         TransferRun(t, r, a, p)
  PROVE  StoreStep
  <1>1. tasks[t] \in TaskRow
    BY TaskRowOf DEF TransferRun
  <1>2. bindings' = [Released(t, {"worker", "reviewer"}, "superseded") EXCEPT ![r] =
                        NewBinding(t, "worker", a, p, tasks'[t].revision)]
    BY <1>1, AssignedTask DEF TransferRun
  <1> QED
    BY <1>1, <1>2, AssignedTask, Unbound, BindStep DEF TransferRun

LEMMA AttestCompletionStep ==
  ASSUME TypeOK, NEW t \in Tasks, NEW r \in Runs, NEW x \in Reports, AttestCompletion(t, r, x)
  PROVE  StoreStep
  <1>1. tasks[t] \in TaskRow
    BY TaskRowOf DEF AttestCompletion, MayAttest
  <1>2. /\ bindings[r].task = t /\ bindings[r].role = "worker" /\ bindings[r].state = "active"
        /\ bindings[r].acceptance = tasks[t].acceptance
        /\ r \in ActiveWorkers(t)
    BY DEF AttestCompletion, MayAttest, ActiveWorkers, Workers, Current
  <1>3. bindings[r] \in BindingRow
    BY <1>2, BindingRowOf DEF NoBinding
  <1>4. /\ tasks'[t].state = "REVIEW" /\ tasks[t].state \in {"RUNNING", "REVIEW"}
        /\ tasks'[t].revision \in {tasks[t].revision, tasks[t].revision + 1}
        /\ tasks'[t].acceptance = tasks[t].acceptance /\ tasks'[t].digest = tasks[t].digest
        /\ \A u \in Tasks \ {t} : tasks'[u] = tasks[u]
    BY <1>1 DEF AttestCompletion, MayAttest, TypeOK, TaskRow
  <1>5. /\ bindings'[r].state = "completed"
        /\ bindings'[r].task = t /\ bindings'[r].role = "worker"
        /\ bindings'[r].agent = bindings[r].agent /\ bindings'[r].parent = bindings[r].parent
        /\ bindings'[r].epoch = bindings[r].epoch
        /\ bindings'[r].acceptance = bindings[r].acceptance /\ bindings'[r].digest = bindings[r].digest
        /\ \A q \in Runs \ {r} : bindings'[q] = bindings[q]
    BY <1>2, <1>3 DEF AttestCompletion, TypeOK, BindingRow
  <1>6. \A q \in Runs : ~Fresh(q)
    BY <1>2, <1>5 DEF Fresh, Bound
  <1>7. RowsKept
    BY <1>2, <1>5 DEF RowsKept
  <1>8. TasksAdvance
    <2>1. \A u \in Tasks : tasks[u] \in TaskRow \cup {NoTask}
      BY DEF TypeOK
    <2> QED
      BY <1>1, <1>4, <2>1 DEF TasksAdvance, TaskRow, NoTask
  <1>9. Completions
    BY <1>2, <1>4, <1>5 DEF Completions
  <1>10. StatesEntered
    <2>1. ASSUME NEW u \in Tasks, u # t
          PROVE  tasks'[u] = tasks[u] /\ \A q \in Runs : bindings[q].task = u => bindings'[q].state = bindings[q].state
      BY <1>2, <1>4, <1>5, <2>1
    <2> QED
      BY <1>2, <1>4, <1>5, <1>6, <2>1 DEF StatesEntered
  <1> QED
    BY <1>6, <1>7, <1>8, <1>9, <1>10 DEF StoreStep, FreshRows, FreshAlone

LEMMA TasksStay == ASSUME TypeOK, tasks' = tasks PROVE TasksAdvance
  <1>1. \A u \in Tasks : tasks[u] \in TaskRow \cup {NoTask}
    BY DEF TypeOK
  <1> QED
    BY <1>1 DEF TasksAdvance, TaskRow, NoTask

\* A step that leaves the tasks and, but for their monitor columns or the
\* completion of a reviewer under review, the bindings.
LEMMA QuietStep ==
  ASSUME TypeOK, tasks' = tasks,
         \A q \in Runs :
           \/ bindings'[q] = bindings[q]
           \/ /\ bindings[q] \in BindingRow
              /\ \E s \in BindingStates, l \in Lifecycles :
                    /\ bindings'[q] = [bindings[q] EXCEPT !.state = s, !.lifecycle = l]
                    /\ \/ s = bindings[q].state
                       \/ /\ s = "completed" /\ bindings[q].state = "active"
                          /\ tasks[bindings[q].task].state = "REVIEW"
  PROVE  StoreStep
  <1>1. ASSUME NEW q \in Runs
        PROVE  /\ bindings'[q].task = bindings[q].task /\ bindings'[q].role = bindings[q].role
               /\ bindings'[q].agent = bindings[q].agent /\ bindings'[q].parent = bindings[q].parent
               /\ bindings'[q].epoch = bindings[q].epoch
               /\ bindings'[q].acceptance = bindings[q].acceptance /\ bindings'[q].digest = bindings[q].digest
               /\ \/ bindings'[q].state = bindings[q].state
                  \/ /\ bindings'[q].state = "completed" /\ bindings[q].state = "active"
                     /\ tasks[bindings[q].task].state = "REVIEW"
    <2>1. CASE bindings'[q] = bindings[q]
      BY <2>1
    <2>2. CASE bindings'[q] # bindings[q]
      <3>1. bindings[q] \in BindingRow
        BY <2>2
      <3>2. PICK s \in BindingStates, l \in Lifecycles :
               /\ bindings'[q] = [bindings[q] EXCEPT !.state = s, !.lifecycle = l]
               /\ \/ s = bindings[q].state
                  \/ /\ s = "completed" /\ bindings[q].state = "active"
                     /\ tasks[bindings[q].task].state = "REVIEW"
        BY <2>2
      <3> QED
        BY <3>1, <3>2 DEF BindingRow
    <2> QED
      BY <2>1, <2>2
  <1>2. \A q \in Runs : ~Fresh(q)
    BY <1>1 DEF Fresh, Bound
  <1>3. RowsKept
    BY <1>1 DEF RowsKept
  <1>4. TasksAdvance
    BY TasksStay
  <1>5. Completions
    BY <1>1 DEF Completions, Bound
  <1>6. StatesEntered
    BY <1>1, <1>2 DEF StatesEntered
  <1> QED
    BY <1>2, <1>3, <1>4, <1>5, <1>6 DEF StoreStep, FreshRows, FreshAlone

LEMMA RecordReviewerEvidenceStep ==
  ASSUME TypeOK, NEW t \in Tasks, NEW r \in Runs, NEW v \in Verdicts, RecordReviewerEvidence(t, r, v)
  PROVE  StoreStep
  <1>1. bindings[r].task = t /\ bindings[r].state = "active" /\ tasks[t].state = "REVIEW"
    BY DEF RecordReviewerEvidence, MayReview, ActiveReviewers, Reviewers
  <1>2. bindings[r] \in BindingRow
    BY <1>1, BindingRowOf DEF NoBinding
  <1>3. /\ bindings'[r] = [bindings[r] EXCEPT !.state = "completed", !.lifecycle = "completed"]
        /\ \A q \in Runs \ {r} : bindings'[q] = bindings[q]
    BY <1>2 DEF RecordReviewerEvidence, TypeOK, BindingRow
  <1>4. "completed" \in BindingStates /\ "completed" \in Lifecycles
    BY LifecycleAssumption DEF BindingStates
  <1>5. \A q \in Runs :
          \/ bindings'[q] = bindings[q]
          \/ /\ bindings[q] \in BindingRow
             /\ \E s \in BindingStates, l \in Lifecycles :
                   /\ bindings'[q] = [bindings[q] EXCEPT !.state = s, !.lifecycle = l]
                   /\ \/ s = bindings[q].state
                      \/ /\ s = "completed" /\ bindings[q].state = "active"
                         /\ tasks[bindings[q].task].state = "REVIEW"
    BY <1>1, <1>2, <1>3, <1>4
  <1>6. tasks' = tasks
    BY DEF RecordReviewerEvidence
  <1> QED
    BY <1>5, <1>6, QuietStep

LEMMA UpdateRunActivityStep ==
  ASSUME TypeOK, NEW r \in Runs, NEW l \in Lifecycles, UpdateRunActivity(r, l)
  PROVE  StoreStep
  <1>1. bindings[r] \in BindingRow
    BY BindingRowOf DEF UpdateRunActivity
  <1>2. /\ bindings'[r] = [bindings[r] EXCEPT !.state = bindings[r].state, !.lifecycle = l]
        /\ \A q \in Runs \ {r} : bindings'[q] = bindings[q]
    BY <1>1 DEF UpdateRunActivity, TypeOK, BindingRow
  <1>3. bindings[r].state \in BindingStates
    BY <1>1 DEF BindingRow
  <1>4. \A q \in Runs :
          \/ bindings'[q] = bindings[q]
          \/ /\ bindings[q] \in BindingRow
             /\ \E s \in BindingStates, k \in Lifecycles :
                   /\ bindings'[q] = [bindings[q] EXCEPT !.state = s, !.lifecycle = k]
                   /\ \/ s = bindings[q].state
                      \/ /\ s = "completed" /\ bindings[q].state = "active"
                         /\ tasks[bindings[q].task].state = "REVIEW"
    BY <1>1, <1>2, <1>3
  <1>5. tasks' = tasks
    BY DEF UpdateRunActivity
  <1> QED
    BY <1>4, <1>5, QuietStep

LEMMA StepIsStoreStep == TypeOK /\ [Next]_vars => StoreStep
  <1> SUFFICES ASSUME TypeOK, [Next]_vars PROVE StoreStep
    OBVIOUS
  <1>1. ASSUME UNCHANGED << tasks, bindings >> PROVE StoreStep
    BY <1>1, QuietStep
  <1>2. CASE UNCHANGED vars
    BY <1>1, <1>2 DEF vars
  <1>3. ASSUME NEW t \in Tasks, NEW r \in Runs, NEW x \in Reports, ImportReviewReport(t, r, x)
        PROVE  StoreStep
    BY <1>1, <1>3 DEF ImportReviewReport
  <1>4. ASSUME NEW t \in Tasks, NEW v \in Verdicts, RecordEvidence(t, v)
        PROVE  StoreStep
    BY <1>1, <1>4 DEF RecordEvidence
  <1>5. CASE Next
    BY <1>3, <1>4, <1>5, CreateTaskStep, UpdateTaskStep, AssignWorkerStep, AssignReviewerStep, TransferRunStep,
       AttestCompletionStep, RecordReviewerEvidenceStep, UpdateRunActivityStep DEF Next
  <1> QED
    BY <1>2, <1>5

---------------------------------------------------------------------------
(* The inductive invariant *)

\* A binding belongs to an existing task and was assigned in its past.
RowsBounded ==
    \A r \in Runs : Bound(r) =>
        /\ tasks[bindings[r].task].state # "ABSENT"
        /\ bindings[r].epoch <= tasks[bindings[r].task].revision
        /\ bindings[r].acceptance <= tasks[bindings[r].task].acceptance

\* The active runs of a task are not older than any of its workers.
ActiveIsNewest ==
    \A t \in Tasks : \A r \in ActiveWorkers(t) \cup ActiveReviewers(t), q \in Workers(t) :
        bindings[q].epoch <= bindings[r].epoch

\* A task in REVIEW has a completed worker of its acceptance, its newest worker.
SubmissionIsNewest ==
    \A t \in Tasks : tasks[t].state = "REVIEW" =>
        \E w \in CompletedWorkers(t) : \A q \in Workers(t) : bindings[q].epoch <= bindings[w].epoch

StoreInv ==
    /\ TypeOK
    /\ RowsBounded
    /\ AcceptanceNamesContent
    /\ EpochsDistinct
    /\ OneActiveRunPerRole
    /\ NoWorkerBehindReview
    /\ RunningIsAttended
    /\ ActiveIsNewest
    /\ SubmissionIsNewest

LEMMA StoreInvInit == Init => StoreInv
  <1> SUFFICES ASSUME Init PROVE StoreInv
    OBVIOUS
  <1>1. \A r \in Runs : ~Bound(r)
    BY Unbound DEF Init
  <1>2. \A t \in Tasks : Workers(t) = {} /\ Reviewers(t) = {} /\ tasks[t].state = "ABSENT"
    BY <1>1 DEF Init, Workers, Reviewers, Bound, NoTask
  <1> QED
    BY <1>1, <1>2, InitType DEF StoreInv, RowsBounded, AcceptanceNamesContent, EpochsDistinct, OneActiveRunPerRole,
       NoWorkerBehindReview, RunningIsAttended, ActiveIsNewest, SubmissionIsNewest, ActiveWorkers, ActiveReviewers

\* The runs of a task after a step: those it had, and perhaps a fresh one.
LEMMA RunsAfter ==
  ASSUME RowsKept, NEW t \in Tasks, NEW r \in Runs
  PROVE  /\ r \in Workers(t)' <=> r \in Workers(t) \/ (Fresh(r) /\ bindings'[r].task = t /\ bindings'[r].role = "worker")
         /\ r \in Reviewers(t)' <=> r \in Reviewers(t) \/ (Fresh(r) /\ bindings'[r].task = t /\ bindings'[r].role = "reviewer")
         /\ r \in ActiveWorkers(t)' => r \in ActiveWorkers(t) \/ Fresh(r)
         /\ r \in ActiveReviewers(t)' => r \in ActiveReviewers(t) \/ Fresh(r)
  BY DEF RowsKept, Fresh, Bound, Workers, Reviewers, ActiveWorkers, ActiveReviewers

LEMMA RowsBoundedStep == StoreInv /\ StoreStep /\ TypeOK' => RowsBounded'
  <1> SUFFICES ASSUME StoreInv, StoreStep, TypeOK', NEW r \in Runs, Bound(r)'
               PROVE  /\ tasks'[bindings'[r].task].state # "ABSENT"
                      /\ bindings'[r].epoch <= tasks'[bindings'[r].task].revision
                      /\ bindings'[r].acceptance <= tasks'[bindings'[r].task].acceptance
    BY DEF RowsBounded
  <1> DEFINE t == bindings'[r].task
  <1>1. t \in Tasks /\ bindings'[r] \in BindingRow
    BY NullAssumption DEF Bound, TypeOK, NoBinding
  <1>2. CASE Fresh(r)
    BY <1>1, <1>2 DEF StoreStep, FreshRows, TasksAdvance, BindingRow
  <1>3. CASE Bound(r)
    <2>1. /\ bindings[r].task = t /\ bindings'[r].epoch = bindings[r].epoch
          /\ bindings'[r].acceptance = bindings[r].acceptance
      BY <1>3 DEF StoreStep, RowsKept
    <2>2. tasks[t] \in TaskRow
      BY <1>1, <1>3, <2>1, TaskRowOf DEF StoreInv, RowsBounded
    <2>3. tasks'[t].state # "ABSENT" /\ tasks'[t].revision >= tasks[t].revision /\ tasks'[t].acceptance >= tasks[t].acceptance
      BY <1>1, <1>3, <2>1 DEF StoreInv, RowsBounded, StoreStep, TasksAdvance
    <2>4. tasks'[t] \in TaskRow
      BY <1>1, <2>3 DEF TypeOK, NoTask
    <2>5. bindings[r].epoch <= tasks[t].revision /\ bindings[r].acceptance <= tasks[t].acceptance
      BY <1>3, <2>1 DEF StoreInv, RowsBounded
    <2> QED
      BY <1>1, <2>1, <2>2, <2>3, <2>4, <2>5, BoundAssumption DEF BindingRow, TaskRow
  <1> QED
    BY <1>2, <1>3 DEF Fresh

LEMMA AcceptanceStep == StoreInv /\ StoreStep /\ TypeOK' => AcceptanceNamesContent'
  <1> SUFFICES ASSUME StoreInv, StoreStep, TypeOK', NEW t \in Tasks
               PROVE  \A r \in Workers(t)' \cup Reviewers(t)' :
                        /\ bindings'[r].acceptance = tasks'[t].acceptance => bindings'[r].digest = tasks'[t].digest
                        /\ \A q \in Workers(t)' \cup Reviewers(t)' :
                              bindings'[q].acceptance = bindings'[r].acceptance => bindings'[q].digest = bindings'[r].digest
    BY DEF AcceptanceNamesContent
  <1>1. ASSUME NEW r \in Workers(t)' \cup Reviewers(t)'
        PROVE  \/ r \in Workers(t) \cup Reviewers(t) /\ Bound(r)
               \/ /\ Fresh(r) /\ bindings'[r].acceptance = tasks[t].acceptance /\ bindings'[r].digest = tasks[t].digest
                  /\ tasks'[t].acceptance = tasks[t].acceptance /\ tasks'[t].digest = tasks[t].digest
    BY RunsAfter DEF StoreStep, FreshRows, Workers, Reviewers, Bound
  <1>2. ASSUME NEW r \in Workers(t) \cup Reviewers(t)
        PROVE  /\ bindings'[r].acceptance = bindings[r].acceptance /\ bindings'[r].digest = bindings[r].digest
               /\ tasks[t].state # "ABSENT"
               /\ bindings[r].acceptance <= tasks[t].acceptance /\ bindings[r].acceptance \in Nat
    BY BindingRowOf, Unbound DEF StoreInv, StoreStep, RowsKept, RowsBounded, Workers, Reviewers, Bound, BindingRow
  <1>3. ASSUME NEW r \in Workers(t)' \cup Reviewers(t)', bindings'[r].acceptance = tasks'[t].acceptance
        PROVE  bindings'[r].digest = tasks'[t].digest
    <2>1. CASE r \in Workers(t) \cup Reviewers(t)
      <3>1. tasks[t] \in TaskRow /\ tasks'[t].acceptance >= tasks[t].acceptance
        BY <1>2, <2>1, TaskRowOf DEF StoreInv, StoreStep, TasksAdvance
      <3>2. tasks'[t].acceptance = tasks[t].acceptance
        BY <1>2, <1>3, <2>1, <3>1 DEF TaskRow
      <3> QED
        BY <1>2, <1>3, <2>1, <3>2 DEF StoreInv, AcceptanceNamesContent, StoreStep, TasksAdvance
    <2> QED
      BY <1>1, <2>1
  <1>4. ASSUME NEW r \in Workers(t)' \cup Reviewers(t)', NEW q \in Workers(t)' \cup Reviewers(t)',
               bindings'[q].acceptance = bindings'[r].acceptance
        PROVE  bindings'[q].digest = bindings'[r].digest
    BY <1>1, <1>2, <1>4 DEF StoreInv, AcceptanceNamesContent
  <1> QED
    BY <1>3, <1>4

LEMMA EpochsStep == StoreInv /\ StoreStep /\ TypeOK' => EpochsDistinct'
  <1> SUFFICES ASSUME StoreInv, StoreStep, TypeOK', NEW t \in Tasks, NEW q \in Workers(t)', NEW r \in Workers(t)',
                      bindings'[q].epoch = bindings'[r].epoch, q # r
               PROVE  FALSE
    BY DEF EpochsDistinct
  <1>1. ASSUME NEW x \in Workers(t)
        PROVE  /\ bindings'[x].epoch = bindings[x].epoch /\ bindings[x].epoch \in Nat
               /\ bindings[x].epoch <= tasks[t].revision /\ tasks[t].revision \in Nat
    <2>1. x \in Runs /\ bindings[x] \in BindingRow /\ Bound(x) /\ bindings[x].task = t
      BY BindingRowOf, Unbound DEF StoreInv, Workers, Bound
    <2>2. tasks[t].state # "ABSENT" /\ bindings[x].epoch <= tasks[t].revision
      BY <2>1 DEF StoreInv, RowsBounded
    <2>3. tasks[t] \in TaskRow
      BY <2>2, TaskRowOf DEF StoreInv
    <2>4. bindings'[x].epoch = bindings[x].epoch
      BY <2>1 DEF StoreStep, RowsKept
    <2> QED
      BY <2>1, <2>2, <2>3, <2>4, BoundAssumption DEF BindingRow, TaskRow
  <1>2. ASSUME NEW x \in Workers(t)', x \notin Workers(t)
        PROVE  Fresh(x) /\ bindings'[x].epoch = tasks[t].revision + 1
    BY <1>2, RunsAfter DEF StoreStep, FreshRows, Workers
  <1>3. q \in Workers(t) \/ r \in Workers(t)
    BY <1>2 DEF StoreStep, FreshAlone, Workers
  <1> QED
    BY <1>1, <1>2, <1>3 DEF StoreInv, EpochsDistinct

LEMMA OneActiveStep == StoreInv /\ StoreStep => OneActiveRunPerRole'
  <1> SUFFICES ASSUME StoreInv, StoreStep, NEW t \in Tasks
               PROVE  /\ \A q, r \in ActiveWorkers(t)' : q = r
                      /\ \A q, r \in ActiveReviewers(t)' : q = r
    BY DEF OneActiveRunPerRole
  <1>1. ASSUME NEW q \in ActiveWorkers(t)', NEW r \in ActiveWorkers(t)' PROVE q = r
    <2>1. (~Fresh(q) /\ ~Fresh(r)) \/ q = r
      BY DEF StoreStep, FreshAlone, ActiveWorkers, Workers
    <2> QED
      BY <2>1, RunsAfter DEF StoreInv, StoreStep, OneActiveRunPerRole, ActiveWorkers, Workers
  <1>2. ASSUME NEW q \in ActiveReviewers(t)', NEW r \in ActiveReviewers(t)' PROVE q = r
    <2>1. (~Fresh(q) /\ ~Fresh(r)) \/ q = r
      BY DEF StoreStep, FreshAlone, ActiveReviewers, Reviewers
    <2> QED
      BY <2>1, RunsAfter DEF StoreInv, StoreStep, OneActiveRunPerRole, ActiveReviewers, Reviewers
  <1> QED
    BY <1>1, <1>2

LEMMA BehindReviewStep == StoreInv /\ StoreStep => NoWorkerBehindReview'
  <1> SUFFICES ASSUME StoreInv, StoreStep, NEW t \in Tasks, NEW q \in ActiveWorkers(t)',
                      tasks'[t].state \in {"REVIEW", "DONE", "FAILED", "CANCELLED"}
               PROVE  FALSE
    BY DEF NoWorkerBehindReview
  <1>1. q \in Runs /\ bindings'[q].task = t /\ bindings'[q].role = "worker" /\ bindings'[q].state = "active"
    BY DEF ActiveWorkers, Workers
  <1>2. ~Fresh(q)
    BY <1>1 DEF StoreStep, FreshRows
  <1>3. q \in ActiveWorkers(t)
    BY <1>1, <1>2, RunsAfter DEF StoreStep
  <1>4. CASE tasks'[t].state = "REVIEW"
    <2>1. tasks[t].state # "REVIEW"
      BY <1>3 DEF StoreInv, NoWorkerBehindReview
    <2>2. PICK r \in ActiveWorkers(t) : bindings'[r].state = "completed"
      BY <1>4, <2>1 DEF StoreStep, StatesEntered
    <2> QED
      BY <1>1, <1>3, <2>2 DEF StoreInv, OneActiveRunPerRole
  <1>5. CASE tasks'[t].state # "REVIEW"
    <2>1. tasks[t].state # tasks'[t].state
      BY <1>3, <1>5 DEF StoreInv, NoWorkerBehindReview
    <2>2. bindings[q].task = t
      BY <1>3 DEF ActiveWorkers, Workers
    <2> QED
      BY <1>1, <1>5, <2>1, <2>2 DEF StoreStep, StatesEntered
  <1> QED
    BY <1>4, <1>5

LEMMA AttendedStep == StoreInv /\ StoreStep => RunningIsAttended'
  <1> SUFFICES ASSUME StoreInv, StoreStep, NEW t \in Tasks, tasks'[t].state = "RUNNING"
               PROVE  \E r \in ActiveWorkers(t)' : Current(t, r)' /\ bindings'[r].agent = tasks'[t].executor
    BY DEF RunningIsAttended
  <1>1. ASSUME NEW r \in Runs, Fresh(r), bindings'[r].task = t, bindings'[r].role = "worker",
               bindings'[r].agent = tasks'[t].executor
        PROVE  r \in ActiveWorkers(t)' /\ Current(t, r)'
    BY <1>1 DEF StoreStep, FreshRows, ActiveWorkers, Workers, Current
  <1>2. CASE /\ tasks[t].state = "RUNNING"
             /\ tasks'[t].executor = tasks[t].executor
             /\ tasks'[t].acceptance = tasks[t].acceptance
             /\ tasks'[t].digest = tasks[t].digest
             /\ \A r \in Runs : bindings[r].task = t => bindings'[r].state = bindings[r].state
    <2>1. PICK r \in ActiveWorkers(t) : Current(t, r) /\ bindings[r].agent = tasks[t].executor
      BY <1>2 DEF StoreInv, RunningIsAttended
    <2>2. r \in ActiveWorkers(t)' /\ Current(t, r)' /\ bindings'[r].agent = tasks'[t].executor
      BY <1>2, <2>1 DEF StoreStep, RowsKept, ActiveWorkers, Workers, Current, Bound
    <2> QED
      BY <2>2
  <1> QED
    BY <1>1, <1>2 DEF StoreStep, StatesEntered

\* A bound run's epoch after a step is not above the revision before it, unless it is fresh.
LEMMA EpochsBounded ==
  ASSUME StoreInv, StoreStep, NEW t \in Tasks, NEW q \in Workers(t) \cup Reviewers(t)
  PROVE  /\ bindings'[q].epoch = bindings[q].epoch /\ bindings[q].epoch \in Nat
         /\ bindings[q].epoch <= tasks[t].revision
         /\ tasks[t].revision \in Nat /\ tasks'[t].revision >= tasks[t].revision
         /\ bindings'[q].state = bindings[q].state \/ bindings[q].state = "active"
  <1>1. q \in Runs /\ bindings[q] \in BindingRow /\ Bound(q) /\ bindings[q].task = t
    BY BindingRowOf, Unbound DEF StoreInv, Workers, Reviewers, Bound
  <1>2. tasks[t].state # "ABSENT" /\ bindings[q].epoch <= tasks[t].revision
    BY <1>1 DEF StoreInv, RowsBounded
  <1>3. tasks[t] \in TaskRow
    BY <1>2, TaskRowOf DEF StoreInv
  <1>4. /\ bindings'[q].epoch = bindings[q].epoch
        /\ bindings'[q].state = bindings[q].state \/ bindings[q].state = "active"
    BY <1>1 DEF StoreStep, RowsKept
  <1>5. tasks'[t].revision >= tasks[t].revision
    BY <1>2 DEF StoreStep, TasksAdvance
  <1> QED
    BY <1>1, <1>2, <1>3, <1>4, <1>5, BoundAssumption DEF BindingRow, TaskRow

LEMMA NewestStep == StoreInv /\ StoreStep /\ TypeOK' => ActiveIsNewest'
  <1> SUFFICES ASSUME StoreInv, StoreStep, TypeOK', NEW t \in Tasks,
                      NEW r \in ActiveWorkers(t)' \cup ActiveReviewers(t)', NEW q \in Workers(t)', q # r
               PROVE  bindings'[q].epoch <= bindings'[r].epoch
    <2>1. ASSUME TypeOK', NEW t \in Tasks, NEW q \in Workers(t)' PROVE bindings'[q].epoch <= bindings'[q].epoch
      <3>1. bindings'[q] \in BindingRow
        BY <2>1, NullAssumption DEF TypeOK, Workers, NoBinding
      <3> QED
        BY <3>1, BoundAssumption DEF BindingRow
    <2> QED
      BY <2>1 DEF ActiveIsNewest
  <1>1. r \in Runs /\ bindings'[r].task = t /\ bindings'[r].state = "active" /\ bindings'[r].role \in {"worker", "reviewer"}
    BY DEF ActiveWorkers, ActiveReviewers, Workers, Reviewers
  <1>2. CASE Fresh(r)
    <2>1. q \in Workers(t)
      <3>1. q \in Runs /\ ~Fresh(q)
        BY <1>1, <1>2 DEF StoreStep, FreshAlone, Workers
      <3> QED
        BY <3>1, RunsAfter DEF StoreStep
    <2>2. bindings'[r].epoch = tasks'[t].revision
      BY <1>1, <1>2 DEF StoreStep, FreshRows
    <2>3. tasks'[t].revision \in Nat
      <3>1. tasks[t].state # "ABSENT"
        BY <1>1, <1>2 DEF StoreStep, FreshRows
      <3>2. tasks'[t] \in TaskRow
        BY <3>1 DEF StoreStep, TasksAdvance, TypeOK, NoTask
      <3> QED
        BY <3>2, BoundAssumption DEF TaskRow
    <2> QED
      BY <2>1, <2>2, <2>3, EpochsBounded
  <1>3. CASE ~Fresh(r)
    <2>1. r \in ActiveWorkers(t) \cup ActiveReviewers(t)
      BY <1>1, <1>3, RunsAfter DEF StoreStep
    <2>2. ~Fresh(q)
      <3> SUFFICES ASSUME Fresh(q) PROVE FALSE
        OBVIOUS
      <3>1. bindings'[q].role = "worker" /\ bindings'[q].task = t
        BY DEF Workers
      <3> QED
        BY <1>1, <3>1 DEF StoreStep, FreshAlone, Workers
    <2>3. q \in Workers(t)
      BY <2>2, RunsAfter DEF StoreStep, Workers
    <2>4. bindings[q].epoch <= bindings[r].epoch
      BY <2>1, <2>3 DEF StoreInv, ActiveIsNewest
    <2> QED
      BY <2>1, <2>3, <2>4, EpochsBounded DEF ActiveWorkers, ActiveReviewers
  <1> QED
    BY <1>2, <1>3

LEMMA SubmissionStep == StoreInv /\ StoreStep => SubmissionIsNewest'
  <1> SUFFICES ASSUME StoreInv, StoreStep, NEW t \in Tasks, tasks'[t].state = "REVIEW"
               PROVE  \E w \in CompletedWorkers(t)' : \A q \in Workers(t)' : bindings'[q].epoch <= bindings'[w].epoch
    BY DEF SubmissionIsNewest
  <1>1. tasks'[t].acceptance = tasks[t].acceptance /\ tasks'[t].digest = tasks[t].digest
    BY DEF StoreStep, StatesEntered
  <1>2. \A q \in Workers(t)' : q \in Workers(t)
    BY RunsAfter DEF StoreStep, FreshRows, Workers
  <1>3. PICK w \in Workers(t) : /\ bindings'[w].state = "completed" /\ Current(t, w)
                                /\ \A q \in Workers(t) : bindings[q].epoch <= bindings[w].epoch
    <2>1. CASE tasks[t].state = "REVIEW"
      <3>1. PICK w \in CompletedWorkers(t) : \A q \in Workers(t) : bindings[q].epoch <= bindings[w].epoch
        BY <2>1 DEF StoreInv, SubmissionIsNewest
      <3>2. w \in Workers(t) /\ bindings[w].state = "completed" /\ Current(t, w)
        BY DEF CompletedWorkers
      <3>3. bindings'[w].state = "completed"
        BY <3>2, EpochsBounded
      <3> QED
        BY <3>1, <3>2, <3>3
    <2>2. CASE tasks[t].state # "REVIEW"
      <3>1. PICK r \in ActiveWorkers(t) : bindings[r].acceptance = tasks[t].acceptance /\ bindings'[r].state = "completed"
        BY <2>2 DEF StoreStep, StatesEntered
      <3>2. r \in Workers(t) /\ Current(t, r)
        BY <3>1 DEF StoreInv, AcceptanceNamesContent, ActiveWorkers, Current
      <3> QED
        BY <3>1, <3>2 DEF StoreInv, ActiveIsNewest
    <2> QED
      BY <2>1, <2>2
  <1>4. w \in Workers(t)' /\ Current(t, w)'
    BY <1>1, <1>3, RunsAfter DEF StoreStep, RowsKept, Current, Workers, Bound
  <1> QED
    BY <1>2, <1>3, <1>4, EpochsBounded DEF CompletedWorkers

LEMMA StoreInvStep == StoreInv /\ [Next]_vars => StoreInv'
  <1> SUFFICES ASSUME StoreInv, [Next]_vars PROVE StoreInv'
    OBVIOUS
  <1>1. TypeOK'
    BY NextType DEF StoreInv
  <1>2. StoreStep
    BY StepIsStoreStep DEF StoreInv
  <1> QED
    BY <1>1, <1>2, RowsBoundedStep, AcceptanceStep, EpochsStep, OneActiveStep, BehindReviewStep, AttendedStep,
       NewestStep, SubmissionStep DEF StoreInv

LEMMA StoreInvariant == Spec => []StoreInv
  BY StoreInvInit, StoreInvStep, PTL DEF Spec

---------------------------------------------------------------------------
(* The theorems *)

\* The guards of assign and transfer alone keep one active run per role.
THEOREM OneActiveRun == Spec => []OneActiveRunPerRole
  <1>1. StoreInv => OneActiveRunPerRole
    BY DEF StoreInv
  <1> QED
    BY <1>1, StoreInvariant, PTL

\* No worker is active in a task that is in review or closed.
THEOREM NobodyBehindReview == Spec => []NoWorkerBehindReview
  <1>1. StoreInv => NoWorkerBehindReview
    BY DEF StoreInv
  <1> QED
    BY <1>1, StoreInvariant, PTL

\* A RUNNING task has a worker whose completion the store would accept.
THEOREM RunningAttended == Spec => []RunningIsAttended
  <1>1. StoreInv => RunningIsAttended
    BY DEF StoreInv
  <1> QED
    BY <1>1, StoreInvariant, PTL

\* An acceptance revision names one content.
THEOREM AcceptanceIsContent == Spec => []AcceptanceNamesContent
  <1>1. StoreInv => AcceptanceNamesContent
    BY DEF StoreInv
  <1> QED
    BY <1>1, StoreInvariant, PTL

\* Assignment epochs order the workers of a task.
THEOREM EpochsOrderWorkers == Spec => []EpochsDistinct
  <1>1. StoreInv => EpochsDistinct
    BY DEF StoreInv
  <1> QED
    BY <1>1, StoreInvariant, PTL

\* A run ends once and its assignment never changes.
THEOREM RunsEndForGood == Spec => RunsEndOnce
  <1>1. TypeOK /\ TypeOK' /\ StoreStep => \A r \in Runs : RunKept(r)
    <2> SUFFICES ASSUME TypeOK, TypeOK', StoreStep, NEW r \in Runs PROVE RunKept(r)
      OBVIOUS
    <2>1. CASE bindings[r] = NoBinding
      BY <2>1 DEF RunKept, NoBinding
    <2>2. CASE bindings[r] # NoBinding
      <3>1. bindings[r] \in BindingRow /\ Bound(r)
        BY <2>2, BindingRowOf DEF Bound, BindingRow
      <3>2. /\ bindings'[r].task = bindings[r].task /\ bindings'[r].role = bindings[r].role
            /\ bindings'[r].agent = bindings[r].agent /\ bindings'[r].parent = bindings[r].parent
            /\ bindings'[r].epoch = bindings[r].epoch
            /\ bindings'[r].acceptance = bindings[r].acceptance /\ bindings'[r].digest = bindings[r].digest
            /\ bindings[r].state # "active" => bindings'[r].state = bindings[r].state
        BY <3>1 DEF StoreStep, RowsKept
      <3>3. bindings'[r] \in BindingRow
        BY <3>1, <3>2, NullAssumption DEF TypeOK, NoBinding, Bound
      <3>4. bindings'[r] = [bindings[r] EXCEPT !.state = bindings'[r].state, !.lifecycle = bindings'[r].lifecycle]
        BY <3>1, <3>2, <3>3 DEF BindingRow
      <3> QED
        BY <3>2, <3>4 DEF RunKept
    <2> QED
      BY <2>1, <2>2
  <1>2. TypeOK /\ [Next]_vars => [\A r \in Runs : RunKept(r)]_vars
    BY <1>1, NextType, StepIsStoreStep
  <1> QED
    BY <1>2, TypeCorrect, PTL DEF Spec, RunsEndOnce
=============================================================================
