-------------------------- MODULE TaskStoreReview --------------------------
(***************************************************************************)
(* The review gate of the task kernel, for every value of its constants.   *)
(*                                                                         *)
(* A task is DONE only after an independent reviewer passed the submission *)
(* that is its latest one.  The invariant that carries the argument says   *)
(* what a reviewer row of the evidence table knew when it was written      *)
(* (VerdictRows) and that rows lie in the order of the submissions they    *)
(* are about (VerdictOrder).                                               *)
(*                                                                         *)
(* The reports follow the same scheme: every completed worker has a row    *)
(* (CompletedReported) and rows lie in the order of assignment             *)
(* (ReportOrder), so the row a reviewer is shown is that of the newest     *)
(* submission.  With both, the gates shown to readers and the gate that    *)
(* updateTask enforces select the same rows.                               *)
(***************************************************************************)
EXTENDS TaskStoreSafety

\* A reviewer row e: its run reviewed, at the row's acceptance, a completed
\* worker of another agent, and that worker was the newest the run could see.
VerdictRow(t, e) ==
    /\ e.run \in Reviewers(t)
    /\ bindings[e.run].acceptance = e.acceptance
    /\ e.submission \in Workers(t)
    /\ bindings[e.submission].state = "completed"
    /\ bindings[e.submission].acceptance = e.acceptance
    /\ bindings[e.submission].agent # bindings[e.run].agent
    /\ bindings[e.submission].epoch <= bindings[e.run].epoch
    /\ \A w \in Workers(t) :
          bindings[w].epoch <= bindings[e.run].epoch => bindings[w].epoch <= bindings[e.submission].epoch

\* Rows are in the order of the acceptances, and the reviewer rows in the
\* order of the submissions they are about.
InOrder(e, f) ==
    /\ e.acceptance <= f.acceptance
    /\ e.run # Null /\ f.run # Null => bindings[e.submission].epoch <= bindings[f.submission].epoch

VerdictRows ==
    \A t \in Tasks : \A i \in DOMAIN evidence[t] :
        /\ evidence[t][i].acceptance <= tasks[t].acceptance
        /\ evidence[t][i].run # Null => VerdictRow(t, evidence[t][i])

VerdictOrder ==
    \A t \in Tasks : \A i, j \in DOMAIN evidence[t] : i < j => InOrder(evidence[t][i], evidence[t][j])

\* The statement of DoneIsReviewed for one task.
Approved(t) ==
    \E w \in LatestCompletedWorker(t), i \in DOMAIN evidence[t] :
        /\ evidence[t][i].verdict = "PASS"
        /\ evidence[t][i].submission = w
        /\ evidence[t][i].acceptance = tasks[t].acceptance
        /\ evidence[t][i].run \in Reviewers(t)
        /\ bindings[evidence[t][i].run].agent # bindings[w].agent
        /\ \A j \in DOMAIN evidence[t] :
              j > i => evidence[t][j].run = Null

ReviewInv == StoreInv /\ VerdictRows /\ VerdictOrder /\ DoneIsReviewed

---------------------------------------------------------------------------
(* What a step may do to evidence and to a DONE task *)

\* Evidence grows by one row at a time, in REVIEW.
EvidenceStep ==
    \/ evidence' = evidence
    \/ \E t \in Tasks, e \in EvidenceRow :
        /\ evidence' = [evidence EXCEPT ![t] = Append(@, e)]
        /\ tasks[t].state = "REVIEW" /\ tasks' = tasks
        /\ e.acceptance = tasks[t].acceptance
        /\ e.run # Null =>
              /\ e.run \in ActiveReviewers(t) /\ Current(t, e.run)
              /\ e.submission \in LatestCompletedWorker(t)
              /\ \E w \in LatestCompletedWorker(t) : bindings[w].agent # bindings[e.run].agent

DoneStep ==
    \A t \in Tasks : tasks'[t].state = "DONE" =>
        /\ tasks'[t].acceptance = tasks[t].acceptance
        /\ tasks'[t].digest = tasks[t].digest
        /\ evidence'[t] = evidence[t]
        /\ tasks[t].state = "DONE" \/ CurrentReviewerPass(t)

LEMMA EvidenceStepHolds == TypeOK /\ [Next]_vars => EvidenceStep
  <1> SUFFICES ASSUME TypeOK, [Next]_vars PROVE EvidenceStep
    OBVIOUS
  <1>1. ASSUME NEW t \in Tasks, NEW r \in Runs, NEW v \in Verdicts, RecordReviewerEvidence(t, r, v)
        PROVE  EvidenceStep
    <2>1. tasks[t] \in TaskRow
      BY <1>1, TaskRowOf DEF RecordReviewerEvidence, MayReview
    <2>2. PICK w \in LatestCompletedWorker(t) :
            evidence' = [evidence EXCEPT ![t] = Append(@,
              [acceptance |-> tasks[t].acceptance, verdict |-> v, run |-> r, submission |-> w])]
      BY <1>1 DEF RecordReviewerEvidence
    <2> DEFINE e == [acceptance |-> tasks[t].acceptance, verdict |-> v, run |-> r, submission |-> w]
    <2>3. w \in Runs
      BY DEF LatestCompletedWorker, LatestByEpoch, CompletedWorkers, Workers
    <2>4. e \in EvidenceRow
      BY <2>1, <2>3 DEF EvidenceRow, TaskRow
    <2>5. /\ tasks[t].state = "REVIEW" /\ tasks' = tasks
          /\ r \in ActiveReviewers(t) /\ Current(t, r)
          /\ \E x \in LatestCompletedWorker(t) : bindings[x].agent # bindings[r].agent
      BY <1>1 DEF RecordReviewerEvidence, MayReview
    <2>6. evidence' = [evidence EXCEPT ![t] = Append(@, e)] /\ e.acceptance = tasks[t].acceptance
          /\ e.run = r /\ e.submission = w
      BY <2>2
    <2> QED
      BY <2>4, <2>5, <2>6 DEF EvidenceStep
  <1>2. ASSUME NEW t \in Tasks, NEW v \in Verdicts, RecordEvidence(t, v)
        PROVE  EvidenceStep
    <2> DEFINE e == [acceptance |-> tasks[t].acceptance, verdict |-> v, run |-> Null, submission |-> Null]
    <2>1. tasks[t] \in TaskRow
      BY <1>2, TaskRowOf DEF RecordEvidence
    <2>2. e \in EvidenceRow
      BY <2>1 DEF EvidenceRow, TaskRow
    <2>3. /\ evidence' = [evidence EXCEPT ![t] = Append(@, e)] /\ e.acceptance = tasks[t].acceptance /\ e.run = Null
          /\ tasks[t].state = "REVIEW" /\ tasks' = tasks
      BY <1>2 DEF RecordEvidence
    <2> QED
      BY <2>2, <2>3 DEF EvidenceStep
  <1>3. ASSUME evidence' = evidence PROVE EvidenceStep
    BY <1>3 DEF EvidenceStep
  <1>4. \/ evidence' = evidence
        \/ \E t \in Tasks, r \in Runs, v \in Verdicts : RecordReviewerEvidence(t, r, v)
        \/ \E t \in Tasks, v \in Verdicts : RecordEvidence(t, v)
    <2>1. CASE UNCHANGED vars
      BY <2>1 DEF vars
    <2>2. CASE Next
      <3>1. \A t \in Tasks, c \in Contents, s \in TaskStates :
               CreateTask(t, c, s) \/ UpdateTask(t, c, s) => evidence' = evidence
        BY DEF CreateTask, UpdateTask
      <3>2. \A t \in Tasks, r \in Runs, a \in Agents, p \in Sessions :
               AssignWorker(t, r, a, p) \/ AssignReviewer(t, r, a, p) \/ TransferRun(t, r, a, p) => evidence' = evidence
        BY DEF AssignWorker, AssignReviewer, TransferRun
      <3>3. \A t \in Tasks, r \in Runs, x \in Reports :
               AttestCompletion(t, r, x) \/ ImportReviewReport(t, r, x) => evidence' = evidence
        BY DEF AttestCompletion, ImportReviewReport
      <3>4. \A r \in Runs, l \in Lifecycles : UpdateRunActivity(r, l) => evidence' = evidence
        BY DEF UpdateRunActivity
      <3> QED
        BY <2>2, <3>1, <3>2, <3>3, <3>4 DEF Next
    <2> QED
      BY <2>1, <2>2
  <1> QED
    BY <1>1, <1>2, <1>3, <1>4

LEMMA DoneStepHolds == TypeOK /\ [Next]_vars => DoneStep
  <1> SUFFICES ASSUME TypeOK, [Next]_vars PROVE DoneStep
    OBVIOUS
  <1>2. ASSUME tasks' = tasks, evidence' = evidence PROVE DoneStep
    BY <1>2 DEF DoneStep
  <1>3. ASSUME evidence' = evidence, NEW t \in Tasks, \A u \in Tasks \ {t} : tasks'[u] = tasks[u],
               tasks'[t].state # "DONE"
        PROVE  DoneStep
    BY <1>3 DEF DoneStep
  <1>4. ASSUME NEW t \in Tasks, NEW c \in Contents, NEW s \in TaskStates, CreateTask(t, c, s) PROVE DoneStep
    BY <1>3, <1>4 DEF CreateTask, NewTask, TypeOK
  <1>5. ASSUME NEW t \in Tasks, NEW c \in Contents, NEW s \in TaskStates, UpdateTask(t, c, s) PROVE DoneStep
    <2>1. tasks[t] \in TaskRow
      BY <1>5, TaskRowOf DEF UpdateTask, Exists
    <2>2. /\ tasks'[t].state = IF Restarts(t, c) THEN "READY" ELSE s
          /\ tasks'[t].acceptance = NextAcceptance(t, c) /\ tasks'[t].digest = c
          /\ \A u \in Tasks \ {t} : tasks'[u] = tasks[u]
          /\ evidence' = evidence
      BY <1>5 DEF UpdateTask, TypeOK
    <2>3. CASE Restarts(t, c) \/ s # "DONE"
      BY <1>3, <2>2, <2>3
    <2>4. CASE ~Restarts(t, c) /\ s = "DONE"
      <3>1. tasks[t].state \in {"DONE", "REVIEW"} /\ CurrentReviewerPass(t)
        BY <1>5, <2>1, <2>4 DEF UpdateTask, MayMoveTo, AllowedTransitions, TaskRow, TaskStates
      <3>2. c = tasks[t].digest
        BY <1>5, <2>4, <3>1 DEF UpdateTask, Restarts
      <3> QED
        BY <2>2, <3>1, <3>2 DEF DoneStep, NextAcceptance
    <2> QED
      BY <2>3, <2>4
  <1>6. ASSUME NEW t \in Tasks, NEW r \in Runs, NEW a \in Agents, NEW p \in Sessions,
               AssignWorker(t, r, a, p) \/ TransferRun(t, r, a, p)
        PROVE  DoneStep
    <2>1. tasks[t] \in TaskRow
      BY <1>6, TaskRowOf DEF AssignWorker, TransferRun, Exists
    <2> QED
      BY <1>3, <1>6, <2>1, AssignedTask DEF AssignWorker, TransferRun
  <1>7. ASSUME NEW t \in Tasks, NEW r \in Runs, NEW a \in Agents, NEW p \in Sessions, AssignReviewer(t, r, a, p)
        PROVE  DoneStep
    BY <1>2, <1>7 DEF AssignReviewer
  <1>8. ASSUME NEW t \in Tasks, NEW r \in Runs, NEW x \in Reports, AttestCompletion(t, r, x) PROVE DoneStep
    <2>1. tasks[t] \in TaskRow
      BY <1>8, TaskRowOf DEF AttestCompletion, MayAttest
    <2> QED
      BY <1>3, <1>8, <2>1 DEF AttestCompletion, MayAttest, TypeOK, TaskRow
  <1>9. ASSUME NEW t \in Tasks, NEW v \in Verdicts,
               RecordEvidence(t, v) \/ \E r \in Runs : RecordReviewerEvidence(t, r, v)
        PROVE  DoneStep
    <2>1. tasks' = tasks /\ tasks[t].state = "REVIEW" /\ \A u \in Tasks \ {t} : evidence'[u] = evidence[u]
      BY <1>9 DEF RecordReviewerEvidence, RecordEvidence, MayReview, TypeOK
    <2> QED
      BY <2>1 DEF DoneStep
  <1>10. ASSUME \/ UNCHANGED vars
                \/ \E t \in Tasks, r \in Runs, x \in Reports : ImportReviewReport(t, r, x)
                \/ \E r \in Runs, l \in Lifecycles : UpdateRunActivity(r, l)
         PROVE  DoneStep
    BY <1>2, <1>10 DEF vars, ImportReviewReport, UpdateRunActivity
  <1> QED
    BY <1>4, <1>5, <1>6, <1>7, <1>8, <1>9, <1>10 DEF Next

---------------------------------------------------------------------------
(* Preservation *)

\* The latest completed worker is one run.
LEMMA LatestIsUnique ==
  ASSUME StoreInv, NEW t \in Tasks, NEW v \in LatestCompletedWorker(t), NEW w \in LatestCompletedWorker(t)
  PROVE  v = w
  <1>1. v \in CompletedWorkers(t) /\ w \in CompletedWorkers(t) /\ v \in Workers(t) /\ w \in Workers(t)
    BY DEF LatestCompletedWorker, LatestByEpoch, CompletedWorkers
  <1>2. bindings[v].epoch <= bindings[w].epoch /\ bindings[w].epoch <= bindings[v].epoch
    BY <1>1 DEF LatestCompletedWorker, LatestByEpoch
  <1>3. bindings[v] \in BindingRow /\ bindings[w] \in BindingRow
    BY <1>1, NullAssumption DEF StoreInv, TypeOK, Workers, NoBinding
  <1>4. bindings[v].epoch = bindings[w].epoch
    BY <1>2, <1>3, BoundAssumption DEF BindingRow
  <1> QED
    BY <1>1, <1>4 DEF StoreInv, EpochsDistinct

\* What a reviewer row says stays true: its runs are fixed, and a worker that
\* comes later has a later epoch than its reviewer.
LEMMA VerdictRowStays ==
  ASSUME StoreInv, StoreStep, TypeOK', NEW t \in Tasks, NEW e \in EvidenceRow, VerdictRow(t, e)
  PROVE  VerdictRow(t, e)'
  <1>1. /\ e.run \in Reviewers(t) /\ e.submission \in Workers(t)
        /\ bindings[e.run].acceptance = e.acceptance
        /\ bindings[e.submission].state = "completed"
        /\ bindings[e.submission].acceptance = e.acceptance
        /\ bindings[e.submission].agent # bindings[e.run].agent
        /\ bindings[e.submission].epoch <= bindings[e.run].epoch
    BY DEF VerdictRow
  <1>2. ASSUME NEW q \in Workers(t) \cup Reviewers(t)
        PROVE  /\ bindings'[q].acceptance = bindings[q].acceptance /\ bindings'[q].agent = bindings[q].agent
               /\ bindings'[q].epoch = bindings[q].epoch
               /\ bindings[q].state # "active" => bindings'[q].state = bindings[q].state
    BY DEF StoreStep, RowsKept, Workers, Reviewers, Bound
  <1>3. e.run \in Reviewers(t)' /\ e.submission \in Workers(t)'
    BY <1>1, RunsAfter DEF StoreStep, Workers, Reviewers
  <1>4. ASSUME NEW w \in Workers(t)', bindings'[w].epoch <= bindings'[e.run].epoch
        PROVE  bindings'[w].epoch <= bindings'[e.submission].epoch
    <2>1. CASE w \in Workers(t)
      BY <1>1, <1>2, <1>4, <2>1 DEF VerdictRow
    <2>2. CASE w \notin Workers(t)
      <3>1. Fresh(w) /\ bindings'[w].task = t /\ bindings'[w].role = "worker" /\ w \in Runs
        BY <1>4, <2>2, RunsAfter DEF StoreStep, Workers
      <3>2. bindings'[w].epoch = tasks[t].revision + 1
        BY <3>1 DEF StoreStep, FreshRows
      <3>3. bindings'[e.run].epoch <= tasks[t].revision /\ tasks[t].revision \in Nat /\ bindings'[e.run].epoch \in Nat
        BY <1>1, EpochsBounded
      <3> QED
        BY <1>4, <3>2, <3>3
    <2> QED
      BY <2>1, <2>2
  <1> QED
    BY <1>1, <1>2, <1>3, <1>4 DEF VerdictRow

\* A reviewer that reports now saw the newest worker.
LEMMA NewVerdictRow ==
  ASSUME StoreInv, NEW t \in Tasks, tasks[t].state = "REVIEW", NEW e \in EvidenceRow,
         e.run \in ActiveReviewers(t), Current(t, e.run), e.acceptance = tasks[t].acceptance,
         e.submission \in LatestCompletedWorker(t),
         \E w \in LatestCompletedWorker(t) : bindings[w].agent # bindings[e.run].agent
  PROVE  VerdictRow(t, e) /\ \A w \in Workers(t) : bindings[w].epoch <= bindings[e.submission].epoch
  <1> DEFINE r == e.run
             s == e.submission
  <1>1. s \in CompletedWorkers(t) /\ s \in Workers(t) /\ bindings[s].state = "completed" /\ Current(t, s)
    BY DEF LatestCompletedWorker, LatestByEpoch, CompletedWorkers
  <1>2. r \in Reviewers(t) /\ bindings[s].epoch <= bindings[r].epoch
    BY <1>1 DEF StoreInv, ActiveIsNewest, ActiveReviewers
  <1>3. PICK n \in CompletedWorkers(t) : \A q \in Workers(t) : bindings[q].epoch <= bindings[n].epoch
    BY DEF StoreInv, SubmissionIsNewest
  <1>4. n \in LatestCompletedWorker(t)
    BY <1>3 DEF LatestCompletedWorker, LatestByEpoch, CompletedWorkers
  <1>5. n = s /\ \A w \in LatestCompletedWorker(t) : w = s
    BY <1>4, LatestIsUnique
  <1> QED
    BY <1>1, <1>2, <1>3, <1>5 DEF Current, VerdictRow

\* The rows of a task after a step: those it had, and perhaps one at the end.
LEMMA RowsAfter ==
  ASSUME StoreInv, EvidenceStep, NEW t \in Tasks
  PROVE  \/ evidence'[t] = evidence[t]
         \/ \E e \in EvidenceRow :
              /\ evidence'[t] = Append(evidence[t], e)
              /\ tasks[t].state = "REVIEW" /\ tasks' = tasks
              /\ e.acceptance = tasks[t].acceptance
              /\ e.run # Null =>
                    VerdictRow(t, e) /\ \A w \in Workers(t) : bindings[w].epoch <= bindings[e.submission].epoch
  <1>1. CASE evidence' = evidence
    BY <1>1
  <1>2. CASE \E u \in Tasks, e \in EvidenceRow :
              /\ evidence' = [evidence EXCEPT ![u] = Append(@, e)]
              /\ tasks[u].state = "REVIEW" /\ tasks' = tasks
              /\ e.acceptance = tasks[u].acceptance
              /\ e.run # Null =>
                    /\ e.run \in ActiveReviewers(u) /\ Current(u, e.run)
                    /\ e.submission \in LatestCompletedWorker(u)
                    /\ \E w \in LatestCompletedWorker(u) : bindings[w].agent # bindings[e.run].agent
    <2>1. PICK u \in Tasks, e \in EvidenceRow :
              /\ evidence' = [evidence EXCEPT ![u] = Append(@, e)]
              /\ tasks[u].state = "REVIEW" /\ tasks' = tasks
              /\ e.acceptance = tasks[u].acceptance
              /\ e.run # Null =>
                    /\ e.run \in ActiveReviewers(u) /\ Current(u, e.run)
                    /\ e.submission \in LatestCompletedWorker(u)
                    /\ \E w \in LatestCompletedWorker(u) : bindings[w].agent # bindings[e.run].agent
      BY <1>2
    <2>2. CASE u = t
      <3>1. evidence'[t] = Append(evidence[t], e)
        BY <2>1, <2>2 DEF StoreInv, TypeOK
      <3>2. e.run # Null =>
               VerdictRow(t, e) /\ \A w \in Workers(t) : bindings[w].epoch <= bindings[e.submission].epoch
        BY <2>1, <2>2, NewVerdictRow
      <3> QED
        BY <2>1, <2>2, <3>1, <3>2
    <2>3. CASE u # t
      BY <2>1, <2>3 DEF StoreInv, TypeOK
    <2> QED
      BY <2>2, <2>3
  <1> QED
    BY <1>1, <1>2 DEF EvidenceStep

LEMMA AppendedRows ==
  ASSUME NEW S, NEW s \in Seq(S), NEW e \in S
  PROVE  /\ DOMAIN s = 1..Len(s) /\ Len(s) \in Nat
         /\ DOMAIN Append(s, e) = 1..(Len(s) + 1)
         /\ \A i \in DOMAIN s : Append(s, e)[i] = s[i]
         /\ Append(s, e)[Len(s) + 1] = e
  OBVIOUS

LEMMA VerdictRowsStep == ReviewInv /\ StoreStep /\ EvidenceStep /\ TypeOK' => VerdictRows'
  <1> SUFFICES ASSUME ReviewInv, StoreStep, EvidenceStep, TypeOK', NEW t \in Tasks,
                      NEW i \in (DOMAIN evidence[t])', NEW f, f = evidence'[t][i]
               PROVE  f.acceptance <= tasks'[t].acceptance /\ (f.run # Null => VerdictRow(t, f)')
    BY DEF VerdictRows, VerdictRow
  <1>1. evidence[t] \in Seq(EvidenceRow) /\ evidence'[t] \in Seq(EvidenceRow) /\ f \in EvidenceRow
    BY DEF ReviewInv, StoreInv, TypeOK
  <1>2. f.acceptance <= tasks[t].acceptance /\ (f.run # Null => VerdictRow(t, f))
    <2>1. CASE evidence'[t] = evidence[t]
      BY <2>1 DEF ReviewInv, VerdictRows
    <2>2. ASSUME NEW e \in EvidenceRow, evidence'[t] = Append(evidence[t], e),
                 e.acceptance = tasks[t].acceptance, e.run # Null => VerdictRow(t, e)
          PROVE  f.acceptance <= tasks[t].acceptance /\ (f.run # Null => VerdictRow(t, f))
      <3>1. (i \in DOMAIN evidence[t] /\ f = evidence[t][i]) \/ f = e
        BY <1>1, <2>2, AppendedRows
      <3>2. CASE i \in DOMAIN evidence[t] /\ f = evidence[t][i]
        BY <3>2 DEF ReviewInv, VerdictRows
      <3>3. CASE f = e
        BY <1>1, <2>2, <3>3 DEF EvidenceRow
      <3> QED
        BY <3>1, <3>2, <3>3
    <2> QED
      BY <2>1, <2>2, RowsAfter DEF ReviewInv
  <1>3. tasks'[t].acceptance >= tasks[t].acceptance /\ tasks[t].acceptance \in Nat /\ tasks'[t].acceptance \in Nat
    <2>1. CASE tasks[t].state = "ABSENT"
      <3>1. tasks[t] = NoTask
        BY <2>1 DEF ReviewInv, StoreInv, TypeOK, TaskRow, TaskStates
      <3>2. f.acceptance \in Nat \ {0}
        BY <1>1 DEF EvidenceRow
      <3> QED
        BY <1>2, <3>1, <3>2 DEF NoTask
    <2>2. CASE tasks[t].state # "ABSENT"
      <3>1. tasks[t] \in TaskRow /\ tasks'[t].state # "ABSENT" /\ tasks'[t].acceptance >= tasks[t].acceptance
        BY <2>2, TaskRowOf DEF ReviewInv, StoreInv, StoreStep, TasksAdvance
      <3>2. tasks'[t] \in TaskRow
        BY <3>1 DEF TypeOK, NoTask
      <3> QED
        BY <3>1, <3>2 DEF TaskRow
    <2> QED
      BY <2>1, <2>2
  <1>4. f.run # Null => VerdictRow(t, f)'
    BY <1>1, <1>2, VerdictRowStays DEF ReviewInv
  <1>5. f.acceptance \in Nat
    BY <1>1 DEF EvidenceRow
  <1> QED
    BY <1>2, <1>3, <1>4, <1>5

LEMMA VerdictOrderStep == ReviewInv /\ StoreStep /\ EvidenceStep /\ TypeOK' => VerdictOrder'
  <1> SUFFICES ASSUME ReviewInv, StoreStep, EvidenceStep, TypeOK', NEW t \in Tasks,
                      NEW i \in (DOMAIN evidence[t])', NEW j \in (DOMAIN evidence[t])', i < j,
                      NEW e, e = evidence'[t][i], NEW f, f = evidence'[t][j]
               PROVE  InOrder(e, f)'
    BY DEF VerdictOrder, InOrder
  <1>1. evidence[t] \in Seq(EvidenceRow) /\ evidence'[t] \in Seq(EvidenceRow)
    BY DEF ReviewInv, StoreInv, TypeOK
  <1>2. InOrder(e, f) /\ (e.run # Null => VerdictRow(t, e)) /\ (f.run # Null => VerdictRow(t, f))
    <2>1. CASE evidence'[t] = evidence[t]
      BY <2>1 DEF ReviewInv, VerdictRows, VerdictOrder
    <2>2. ASSUME NEW x \in EvidenceRow, evidence'[t] = Append(evidence[t], x), x.acceptance = tasks[t].acceptance,
                 x.run # Null =>
                    VerdictRow(t, x) /\ \A w \in Workers(t) : bindings[w].epoch <= bindings[x.submission].epoch
          PROVE  InOrder(e, f) /\ (e.run # Null => VerdictRow(t, e)) /\ (f.run # Null => VerdictRow(t, f))
      <3>1. i \in DOMAIN evidence[t] /\ e = evidence[t][i]
        BY <1>1, <2>2, AppendedRows
      <3>2. e.acceptance <= tasks[t].acceptance /\ (e.run # Null => VerdictRow(t, e))
        BY <3>1 DEF ReviewInv, VerdictRows
      <3>3. CASE j \in DOMAIN evidence[t] /\ f = evidence[t][j]
        BY <3>1, <3>2, <3>3 DEF ReviewInv, VerdictRows, VerdictOrder
      <3>4. CASE f = x
        <4>1. e.run # Null => e.submission \in Workers(t)
          BY <3>2 DEF VerdictRow
        <4> QED
          BY <2>2, <3>2, <3>4, <4>1 DEF InOrder
      <3>5. (j \in DOMAIN evidence[t] /\ f = evidence[t][j]) \/ f = x
        BY <1>1, <2>2, AppendedRows
      <3> QED
        BY <3>3, <3>4, <3>5
    <2> QED
      BY <2>1, <2>2, RowsAfter DEF ReviewInv
  <1>3. /\ e.run # Null => bindings'[e.submission].epoch = bindings[e.submission].epoch
        /\ f.run # Null => bindings'[f.submission].epoch = bindings[f.submission].epoch
    BY <1>2, EpochsBounded DEF ReviewInv, VerdictRow
  <1> QED
    BY <1>2, <1>3 DEF InOrder

\* The gate of updateTask is the statement of DoneIsReviewed: the verdict it
\* reads last is about the submission it picks, and no later reviewer row exists.
LEMMA PassApproves ==
  ASSUME ReviewInv, NEW t \in Tasks, CurrentReviewerPass(t)
  PROVE  Approved(t)
  <1>1. PICK w \in LatestCompletedWorker(t) : LatestIsPass(t, VerdictsOn(t, w))
    BY DEF CurrentReviewerPass
  <1>2. PICK i \in VerdictsOn(t, w) : evidence[t][i].verdict = "PASS" /\ \A j \in VerdictsOn(t, w) : j <= i
    BY <1>1 DEF LatestIsPass
  <1> DEFINE e == evidence[t][i]
  <1>3. i \in DOMAIN evidence[t] /\ e.acceptance = tasks[t].acceptance /\ MayDecide(t, e.run, w)
    BY DEF VerdictsOn
  <1>4. e.run # Null
    BY <1>3, NullAssumption DEF MayDecide, Reviewers
  <1>5. /\ evidence[t] \in Seq(EvidenceRow)
        /\ \A k \in DOMAIN evidence[t] : evidence[t][k] \in EvidenceRow /\ k \in Nat
    BY DEF ReviewInv, StoreInv, TypeOK
  <1>6. w \in Workers(t) /\ \A q \in CompletedWorkers(t) : bindings[q].epoch <= bindings[w].epoch
    BY DEF LatestCompletedWorker, LatestByEpoch, CompletedWorkers
  <1>7. \A q \in Workers(t) : bindings[q].epoch \in Nat
    BY NullAssumption, BoundAssumption DEF ReviewInv, StoreInv, TypeOK, Workers, NoBinding, BindingRow
  <1>8. ASSUME NEW k \in DOMAIN evidence[t], evidence[t][k].run # Null,
               evidence[t][k].acceptance = tasks[t].acceptance,
               bindings[w].epoch <= bindings[evidence[t][k].submission].epoch
        PROVE  evidence[t][k].submission = w
    <2> DEFINE s == evidence[t][k].submission
    <2>1. VerdictRow(t, evidence[t][k])
      BY <1>8 DEF ReviewInv, VerdictRows
    <2>2. s \in Workers(t) /\ bindings[s].state = "completed" /\ bindings[s].acceptance = tasks[t].acceptance
      BY <1>8, <2>1 DEF VerdictRow
    <2>3. s \in CompletedWorkers(t)
      BY <2>2 DEF CompletedWorkers, Current, ReviewInv, StoreInv, AcceptanceNamesContent
    <2>4. bindings[s].epoch = bindings[w].epoch
      BY <1>6, <1>7, <1>8, <2>2, <2>3
    <2> QED
      BY <1>6, <2>2, <2>4 DEF ReviewInv, StoreInv, EpochsDistinct
  <1>9. e.submission = w
    <2>1. VerdictRow(t, e)
      BY <1>3, <1>4 DEF ReviewInv, VerdictRows
    <2>2. bindings[w].epoch <= bindings[e.submission].epoch
      BY <1>3, <1>6, <2>1 DEF VerdictRow, MayDecide
    <2> QED
      BY <1>3, <1>4, <1>8, <2>2
  <1>10. ASSUME NEW j \in DOMAIN evidence[t], j > i, evidence[t][j].run # Null
         PROVE  FALSE
    <2> DEFINE f == evidence[t][j]
    <2>1. i \in Nat /\ j \in Nat /\ i < j
      BY <1>3, <1>5, <1>10
    <2>2. InOrder(e, f) /\ VerdictRow(t, f) /\ f.acceptance <= tasks[t].acceptance
      BY <1>3, <1>10, <2>1 DEF ReviewInv, VerdictRows, VerdictOrder
    <2>3. f.acceptance \in Nat /\ e.acceptance \in Nat
      BY <1>3, <1>5, <1>10 DEF EvidenceRow
    <2>4. f.acceptance = tasks[t].acceptance
      BY <1>3, <2>2, <2>3 DEF InOrder
    <2>5. f.submission = w
      BY <1>4, <1>8, <1>9, <1>10, <2>2, <2>4 DEF InOrder
    <2>6. f.run \in Reviewers(t) /\ Current(t, f.run)
      BY <2>2, <2>4 DEF VerdictRow, Current, ReviewInv, StoreInv, AcceptanceNamesContent
    <2>7. f.run # w
      BY <1>6, <2>6 DEF Workers, Reviewers
    <2>8. bindings[f.run].epoch \in Nat
      BY <2>6, NullAssumption, BoundAssumption DEF ReviewInv, StoreInv, TypeOK, Reviewers, NoBinding, BindingRow
    <2>9. MayDecide(t, f.run, w)
      BY <1>6, <1>7, <2>2, <2>5, <2>6, <2>7, <2>8 DEF MayDecide, VerdictRow
    <2>10. j \in VerdictsOn(t, w)
      BY <2>4, <2>9 DEF VerdictsOn
    <2> QED
      BY <1>2, <2>1, <2>10
  <1> QED
    BY <1>2, <1>3, <1>9, <1>10 DEF Approved, MayDecide

\* What approved a DONE task stays in place.
LEMMA ApprovedStays ==
  ASSUME ReviewInv, StoreStep, DoneStep, NEW t \in Tasks, tasks'[t].state = "DONE", Approved(t)
  PROVE  Approved(t)'
  <1>1. /\ tasks'[t].acceptance = tasks[t].acceptance /\ tasks'[t].digest = tasks[t].digest
        /\ evidence'[t] = evidence[t]
    BY DEF DoneStep
  <1>2. PICK w \in LatestCompletedWorker(t), i \in DOMAIN evidence[t] :
          /\ evidence[t][i].verdict = "PASS"
          /\ evidence[t][i].submission = w
          /\ evidence[t][i].acceptance = tasks[t].acceptance
          /\ evidence[t][i].run \in Reviewers(t)
          /\ bindings[evidence[t][i].run].agent # bindings[w].agent
          /\ \A j \in DOMAIN evidence[t] : j > i => evidence[t][j].run = Null
    BY DEF Approved
  <1> DEFINE r == evidence[t][i].run
  <1>3. ASSUME NEW q \in Runs
        PROVE  q \in CompletedWorkers(t)' <=> q \in CompletedWorkers(t)
    <2>1. CASE Bound(q)
      <3>1. /\ q \in Workers(t)' <=> q \in Workers(t)
            /\ bindings'[q].acceptance = bindings[q].acceptance /\ bindings'[q].digest = bindings[q].digest
        BY <2>1 DEF StoreStep, RowsKept, Workers, Bound
      <3>2. q \in Workers(t) => (bindings'[q].state = "completed" <=> bindings[q].state = "completed")
        BY <2>1 DEF StoreStep, RowsKept, Completions, Workers
      <3> QED
        BY <1>1, <3>1, <3>2 DEF CompletedWorkers, Current
    <2>2. CASE ~Bound(q)
      BY <2>2 DEF StoreStep, FreshRows, CompletedWorkers, Workers, Fresh, Bound
    <2> QED
      BY <2>1, <2>2
  <1>4. w \in CompletedWorkers(t) /\ \A q \in CompletedWorkers(t) : bindings[q].epoch <= bindings[w].epoch
    BY DEF LatestCompletedWorker, LatestByEpoch
  <1>5. \A q \in CompletedWorkers(t) : q \in Runs /\ bindings'[q].epoch = bindings[q].epoch /\ bindings'[q].agent = bindings[q].agent
    BY DEF StoreStep, RowsKept, CompletedWorkers, Workers, Bound
  <1>6. w \in LatestCompletedWorker(t)'
    BY <1>3, <1>4, <1>5 DEF LatestCompletedWorker, LatestByEpoch, CompletedWorkers, Workers
  <1>7. r \in Reviewers(t)' /\ bindings'[r].agent = bindings[r].agent
    BY <1>2, RunsAfter DEF StoreStep, RowsKept, Reviewers, Bound
  <1>8. i \in (DOMAIN evidence[t])' /\ w \in Runs
    BY <1>1, <1>2, <1>5, <1>4
  <1> QED
    BY <1>1, <1>2, <1>4, <1>5, <1>6, <1>7, <1>8 DEF Approved

LEMMA DoneReviewedStep == ReviewInv /\ StoreStep /\ DoneStep => DoneIsReviewed'
  <1> SUFFICES ASSUME ReviewInv, StoreStep, DoneStep, NEW t \in Tasks, tasks'[t].state = "DONE"
               PROVE  Approved(t)'
    BY DEF DoneIsReviewed, Approved
  <1>1. Approved(t)
    BY PassApproves DEF DoneStep, ReviewInv, DoneIsReviewed, Approved
  <1> QED
    BY <1>1, ApprovedStays

LEMMA ReviewInvInit == Init => ReviewInv
  <1> SUFFICES ASSUME Init PROVE ReviewInv
    OBVIOUS
  <1>1. \A t \in Tasks : evidence[t] = << >> /\ tasks[t].state = "ABSENT"
    BY DEF Init, NoTask
  <1> QED
    BY <1>1, StoreInvInit DEF ReviewInv, VerdictRows, VerdictOrder, DoneIsReviewed

LEMMA ReviewInvStep == ReviewInv /\ [Next]_vars => ReviewInv'
  <1> SUFFICES ASSUME ReviewInv, [Next]_vars PROVE ReviewInv'
    OBVIOUS
  <1>1. StoreInv' /\ StoreStep /\ EvidenceStep /\ DoneStep
    BY StoreInvStep, StepIsStoreStep, EvidenceStepHolds, DoneStepHolds DEF ReviewInv, StoreInv
  <1>2. TypeOK'
    BY <1>1 DEF StoreInv
  <1> QED
    BY <1>1, <1>2, VerdictRowsStep, VerdictOrderStep, DoneReviewedStep DEF ReviewInv

LEMMA ReviewInvariant == Spec => []ReviewInv
  BY ReviewInvInit, ReviewInvStep, PTL DEF Spec

---------------------------------------------------------------------------
(* The reports *)

\* A report row x is about a completed worker, under the acceptance it had.
ReportOf(t, x) ==
    /\ x.run \in Workers(t)
    /\ bindings[x.run].state = "completed"
    /\ bindings[x.run].acceptance = x.acceptance

ReportRows == \A t \in Tasks : \A i \in DOMAIN reports[t] : ReportOf(t, reports[t][i])

\* Reports lie in the order in which their runs were assigned: a replaced
\* report keeps its place, so the last row is never that of an older run.
ReportOrder ==
    \A t \in Tasks : \A i, j \in DOMAIN reports[t] :
        i < j => bindings[reports[t][i].run].epoch < bindings[reports[t][j].run].epoch

CompletedReported ==
    \A t \in Tasks : \A r \in Workers(t) :
        bindings[r].state = "completed" => \E i \in DOMAIN reports[t] : reports[t][i].run = r

ReportInv == ReviewInv /\ ReportRows /\ ReportOrder /\ CompletedReported

\* Which worker and which acceptance each row is about stays as it is.
ReportsKept ==
    \A t \in Tasks :
        /\ DOMAIN reports'[t] = DOMAIN reports[t]
        /\ \A i \in DOMAIN reports[t] :
              reports'[t][i].run = reports[t][i].run /\ reports'[t][i].acceptance = reports[t][i].acceptance

NoWorkerCompletes ==
    \A r \in Runs :
        bindings'[r].state = "completed" /\ bindings'[r].role = "worker" => bindings[r].state = "completed"

\* A report is added by the completion of its worker and at no other time.
ReportStep ==
    \/ ReportsKept /\ NoWorkerCompletes
    \/ \E t \in Tasks, x \in ReportRow :
        /\ reports' = [reports EXCEPT ![t] = Append(@, x)]
        /\ x.run \in ActiveWorkers(t) /\ x.acceptance = bindings[x.run].acceptance
        /\ bindings'[x.run].state = "completed"
        /\ \A q \in Runs \ {x.run} : bindings'[q] = bindings[q]

LEMMA SameReports == ASSUME reports' = reports PROVE ReportsKept
  BY DEF ReportsKept

\* The completion of a worker is its first report.
LEMMA AttestReports ==
  ASSUME ReportInv, NEW t \in Tasks, NEW r \in Runs, NEW x \in Reports, AttestCompletion(t, r, x)
  PROVE  ReportStep
  <1> DEFINE row == [acceptance |-> tasks[t].acceptance, run |-> r, report |-> x]
  <1>1. r \in ActiveWorkers(t) /\ Current(t, r) /\ tasks[t].state \in {"RUNNING", "REVIEW"}
    BY DEF AttestCompletion, MayAttest
  <1>2. tasks[t] \in TaskRow /\ bindings[r] \in BindingRow
    BY <1>1, TaskRowOf, BindingRowOf DEF ReportInv, ReviewInv, StoreInv, ActiveWorkers, NoBinding
  <1>3. row \in ReportRow
    BY <1>2 DEF TaskRow, ReportRow
  <1>4. { i \in ReportsFor(t) : reports[t][i].run = r } = {}
    BY <1>1 DEF ReportInv, ReportRows, ReportOf, ReportsFor, ActiveWorkers
  <1>5. reports' = [reports EXCEPT ![t] = Append(@, row)]
    BY <1>4 DEF AttestCompletion, UpsertReport
  <1>6. bindings'[r].state = "completed" /\ \A q \in Runs \ {r} : bindings'[q] = bindings[q]
    BY <1>2 DEF AttestCompletion, ReportInv, ReviewInv, StoreInv, TypeOK, BindingRow
  <1>7. row.run = r /\ row.acceptance = bindings[r].acceptance
    BY <1>1 DEF Current
  <1> QED
    BY <1>1, <1>3, <1>5, <1>6, <1>7 DEF ReportStep

\* An import finds the row of its run and leaves it in its place.
LEMMA ImportReports ==
  ASSUME ReportInv, NEW t \in Tasks, NEW r \in Runs, NEW x \in Reports, ImportReviewReport(t, r, x)
  PROVE  ReportStep
  <1> DEFINE row == [acceptance |-> tasks[t].acceptance, run |-> r, report |-> x]
             at == { i \in ReportsFor(t) : reports[t][i].run = r }
  <1>1. r \in Workers(t) /\ bindings[r].state = "completed" /\ Current(t, r)
    BY DEF ImportReviewReport, LatestCompletedWorker, LatestByEpoch, CompletedWorkers
  <1>2. PICK k \in DOMAIN reports[t] : reports[t][k].run = r
    BY <1>1 DEF ReportInv, CompletedReported
  <1>3. k \in at
    BY <1>1, <1>2 DEF ReportInv, ReportRows, ReportOf, ReportsFor, Current
  <1>4. reports' = [reports EXCEPT ![t] = [i \in DOMAIN @ |-> IF i \in at THEN row ELSE @[i]]]
    BY <1>3 DEF ImportReviewReport, UpsertReport
  <1>5. \A u \in Tasks \ {t} : reports'[u] = reports[u]
    BY <1>4 DEF ReportInv, ReviewInv, StoreInv, TypeOK
  <1>6. reports'[t] = [i \in DOMAIN reports[t] |-> IF i \in at THEN row ELSE reports[t][i]]
    BY <1>4 DEF ReportInv, ReviewInv, StoreInv, TypeOK
  <1>7. \A i \in at : reports[t][i].run = row.run /\ reports[t][i].acceptance = row.acceptance
    BY DEF ReportsFor
  <1>8. DOMAIN reports'[t] = DOMAIN reports[t]
    BY <1>6
  <1>9. \A i \in DOMAIN reports[t] : reports'[t][i].run = reports[t][i].run /\ reports'[t][i].acceptance = reports[t][i].acceptance
    BY <1>6, <1>7
  <1>10. ReportsKept
    BY <1>5, <1>8, <1>9 DEF ReportsKept
  <1>11. NoWorkerCompletes
    BY DEF ImportReviewReport, NoWorkerCompletes
  <1> QED
    BY <1>10, <1>11 DEF ReportStep

\* Releasing the runs of a task and binding a new one completes nobody.
LEMMA ReleaseCompletesNobody ==
  ASSUME TypeOK, NEW t \in Tasks, NEW roles, NEW to \in {"superseded", "failed"}
  PROVE  \A q \in Runs : Released(t, roles, to)[q].state = "completed" => bindings[q].state = "completed"
  BY ReleasedEffect

LEMMA BoundCompletesNobody ==
  ASSUME TypeOK, NEW t \in Tasks, NEW r \in Runs, NEW roles, NEW role, NEW a, NEW p, NEW n,
         bindings' = [Released(t, roles, "superseded") EXCEPT ![r] = NewBinding(t, role, a, p, n)]
  PROVE  NoWorkerCompletes
  <1> SUFFICES ASSUME NEW q \in Runs, bindings'[q].state = "completed" PROVE bindings[q].state = "completed"
    BY DEF NoWorkerCompletes
  <1>1. \A d \in Runs : d = r \/ bindings'[d] = Released(t, roles, "superseded")[d]
    BY DEF Released
  <1>2. bindings'[r] = NewBinding(t, role, a, p, n)
    BY DEF Released
  <1>3. q # r
    BY <1>2 DEF NewBinding
  <1> QED
    BY <1>1, <1>3, ReleaseCompletesNobody

LEMMA UpdateCompletesNobody ==
  ASSUME TypeOK, NEW t \in Tasks, NEW c \in Contents, NEW s \in TaskStates, UpdateTask(t, c, s)
  PROVE  NoWorkerCompletes
  <1>1. \/ bindings' = bindings
        \/ bindings' = Released(t, {"worker", "reviewer"}, "superseded")
        \/ bindings' = Released(t, {"worker", "reviewer"}, "failed")
    BY DEF UpdateTask, BindingsAfterUpdate
  <1> QED
    BY <1>1, ReleaseCompletesNobody DEF NoWorkerCompletes

LEMMA ReportStepHolds == ReportInv /\ [Next]_vars => ReportStep
  <1> SUFFICES ASSUME ReportInv, [Next]_vars PROVE ReportStep
    OBVIOUS
  <1>0. TypeOK
    BY DEF ReportInv, ReviewInv, StoreInv
  <1>1. ASSUME reports' = reports, bindings' = bindings PROVE ReportStep
    BY <1>1, SameReports DEF ReportStep, NoWorkerCompletes
  <1>2. ASSUME NEW t \in Tasks, NEW c \in Contents, NEW s \in TaskStates, CreateTask(t, c, s) PROVE ReportStep
    BY <1>1, <1>2 DEF CreateTask
  <1>3. ASSUME NEW t \in Tasks, NEW c \in Contents, NEW s \in TaskStates, UpdateTask(t, c, s) PROVE ReportStep
    <2>1. reports' = reports
      BY <1>3 DEF UpdateTask
    <2> QED
      BY <1>0, <1>3, <2>1, SameReports, UpdateCompletesNobody DEF ReportStep
  <1>4. ASSUME NEW t \in Tasks, NEW r \in Runs, NEW a \in Agents, NEW p \in Sessions,
               AssignWorker(t, r, a, p) \/ AssignReviewer(t, r, a, p) \/ TransferRun(t, r, a, p)
        PROVE  ReportStep
    <2>1. reports' = reports
      BY <1>4 DEF AssignWorker, AssignReviewer, TransferRun
    <2>2. NoWorkerCompletes
      BY <1>0, <1>4, BoundCompletesNobody DEF AssignWorker, AssignReviewer, TransferRun
    <2> QED
      BY <2>1, <2>2, SameReports DEF ReportStep
  <1>5. ASSUME NEW t \in Tasks, NEW r \in Runs, NEW v \in Verdicts, RecordReviewerEvidence(t, r, v) PROVE ReportStep
    <2>1. bindings[r].role = "reviewer" /\ bindings[r] \in BindingRow
      BY <1>0, <1>5, BindingRowOf DEF RecordReviewerEvidence, MayReview, ActiveReviewers, Reviewers, NoBinding
    <2>2. bindings'[r].role = "reviewer" /\ \A q \in Runs \ {r} : bindings'[q] = bindings[q]
      BY <1>0, <1>5, <2>1 DEF RecordReviewerEvidence, TypeOK, BindingRow
    <2>3. reports' = reports
      BY <1>5 DEF RecordReviewerEvidence
    <2> QED
      BY <2>2, <2>3, SameReports DEF ReportStep, NoWorkerCompletes
  <1>6. ASSUME NEW t \in Tasks, NEW v \in Verdicts, RecordEvidence(t, v) PROVE ReportStep
    BY <1>1, <1>6 DEF RecordEvidence
  <1>7. ASSUME NEW r \in Runs, NEW l \in Lifecycles, UpdateRunActivity(r, l) PROVE ReportStep
    <2>1. bindings[r] \in BindingRow
      BY <1>0, <1>7, BindingRowOf DEF UpdateRunActivity
    <2>2. bindings'[r].state = bindings[r].state /\ \A q \in Runs \ {r} : bindings'[q] = bindings[q]
      BY <1>0, <1>7, <2>1 DEF UpdateRunActivity, TypeOK, BindingRow
    <2>3. reports' = reports
      BY <1>7 DEF UpdateRunActivity
    <2> QED
      BY <2>2, <2>3, SameReports DEF ReportStep, NoWorkerCompletes
  <1>8. CASE UNCHANGED vars
    BY <1>1, <1>8 DEF vars
  <1> QED
    BY <1>2, <1>3, <1>4, <1>5, <1>6, <1>7, <1>8, AttestReports, ImportReports DEF Next

\* A row says the same of its run after the step.
LEMMA ReportOfStays ==
  ASSUME StoreInv, StoreStep, NEW t \in Tasks, NEW x, ReportOf(t, x),
         NEW y, y.run = x.run, y.acceptance = x.acceptance
  PROVE  /\ y.run \in Workers(t)' /\ bindings'[y.run].state = "completed"
         /\ bindings'[y.run].acceptance = y.acceptance
         /\ bindings'[y.run].epoch = bindings[x.run].epoch
  <1>1. x.run \in Workers(t) /\ x.run \in Runs /\ Bound(x.run)
        /\ bindings[x.run].state = "completed" /\ bindings[x.run].acceptance = x.acceptance
    BY DEF ReportOf, Workers, Bound
  <1> QED
    BY <1>1, RunsAfter DEF StoreStep, RowsKept

\* The rows of a task after a step: those it had, or one more for the worker
\* that completes, which is newer than every worker that has a row.
LEMMA ReportsAfter ==
  ASSUME ReportInv, ReportStep, NEW t \in Tasks
  PROVE  \/ /\ DOMAIN reports'[t] = DOMAIN reports[t]
            /\ \A i \in DOMAIN reports[t] :
                  reports'[t][i].run = reports[t][i].run /\ reports'[t][i].acceptance = reports[t][i].acceptance
         \/ \E x \in ReportRow :
              /\ reports'[t] = Append(reports[t], x)
              /\ x.run \in ActiveWorkers(t) /\ x.acceptance = bindings[x.run].acceptance
              /\ bindings'[x.run].state = "completed"
              /\ \A i \in DOMAIN reports[t] : bindings[reports[t][i].run].epoch < bindings[x.run].epoch
  <1>1. CASE ReportsKept
    BY <1>1 DEF ReportsKept
  <1>2. ASSUME NEW u \in Tasks, NEW x \in ReportRow, reports' = [reports EXCEPT ![u] = Append(@, x)],
               x.run \in ActiveWorkers(u), x.acceptance = bindings[x.run].acceptance,
               bindings'[x.run].state = "completed", u = t
        PROVE  /\ reports'[t] = Append(reports[t], x)
               /\ \A i \in DOMAIN reports[t] : bindings[reports[t][i].run].epoch < bindings[x.run].epoch
    <2>1. reports'[t] = Append(reports[t], x)
      BY <1>2 DEF ReportInv, ReviewInv, StoreInv, TypeOK
    <2>2. ASSUME NEW q \in Workers(t), bindings[q].state = "completed"
          PROVE  bindings[q].epoch < bindings[x.run].epoch
      <3>1. x.run \in Workers(t) /\ bindings[x.run].state = "active"
        BY <1>2 DEF ActiveWorkers
      <3>2. bindings[q].epoch <= bindings[x.run].epoch
        BY <1>2 DEF ReportInv, ReviewInv, StoreInv, ActiveIsNewest
      <3>3. bindings[q].epoch # bindings[x.run].epoch
        BY <2>2, <3>1 DEF ReportInv, ReviewInv, StoreInv, EpochsDistinct
      <3>4. bindings[q] \in BindingRow /\ bindings[x.run] \in BindingRow
        BY <3>1, NullAssumption DEF ReportInv, ReviewInv, StoreInv, TypeOK, Workers, NoBinding
      <3> QED
        BY <3>2, <3>3, <3>4, BoundAssumption DEF BindingRow
    <2> QED
      BY <2>1, <2>2 DEF ReportInv, ReportRows, ReportOf
  <1>3. ASSUME NEW u \in Tasks, NEW x \in ReportRow, reports' = [reports EXCEPT ![u] = Append(@, x)], u # t
        PROVE  reports'[t] = reports[t]
    BY <1>3 DEF ReportInv, ReviewInv, StoreInv, TypeOK
  <1>4. CASE \E u \in Tasks, x \in ReportRow :
              /\ reports' = [reports EXCEPT ![u] = Append(@, x)]
              /\ x.run \in ActiveWorkers(u) /\ x.acceptance = bindings[x.run].acceptance
              /\ bindings'[x.run].state = "completed"
    <2>1. PICK u \in Tasks, x \in ReportRow :
              /\ reports' = [reports EXCEPT ![u] = Append(@, x)]
              /\ x.run \in ActiveWorkers(u) /\ x.acceptance = bindings[x.run].acceptance
              /\ bindings'[x.run].state = "completed"
      BY <1>4
    <2>2. CASE u = t
      <3>1. /\ reports'[t] = Append(reports[t], x)
            /\ \A i \in DOMAIN reports[t] : bindings[reports[t][i].run].epoch < bindings[x.run].epoch
        BY <1>2, <2>1, <2>2
      <3> QED
        BY <2>1, <2>2, <3>1
    <2>3. CASE u # t
      BY <1>3, <2>1, <2>3
    <2> QED
      BY <2>2, <2>3
  <1> QED
    BY <1>1, <1>4 DEF ReportStep

LEMMA ReportRowsStep == ReportInv /\ StoreStep /\ ReportStep /\ TypeOK' => ReportRows' /\ ReportOrder'
  <1> SUFFICES ASSUME ReportInv, StoreStep, ReportStep, TypeOK', NEW t \in Tasks
               PROVE  /\ \A i \in (DOMAIN reports[t])' :
                            /\ reports'[t][i].run \in Workers(t)'
                            /\ bindings'[reports'[t][i].run].state = "completed"
                            /\ bindings'[reports'[t][i].run].acceptance = reports'[t][i].acceptance
                      /\ \A i, j \in (DOMAIN reports[t])' : i < j =>
                            bindings'[reports'[t][i].run].epoch < bindings'[reports'[t][j].run].epoch
    BY DEF ReportRows, ReportOf, ReportOrder
  <1>0. reports[t] \in Seq(ReportRow) /\ StoreInv
    BY DEF ReportInv, ReviewInv, StoreInv, TypeOK
  <1>1. ASSUME NEW i \in DOMAIN reports[t], NEW y, y.run = reports[t][i].run, y.acceptance = reports[t][i].acceptance
        PROVE  /\ y.run \in Workers(t)' /\ bindings'[y.run].state = "completed"
               /\ bindings'[y.run].acceptance = y.acceptance
               /\ bindings'[y.run].epoch = bindings[reports[t][i].run].epoch
    BY <1>0, <1>1, ReportOfStays DEF ReportInv, ReportRows
  <1>2. CASE /\ DOMAIN reports'[t] = DOMAIN reports[t]
             /\ \A i \in DOMAIN reports[t] :
                   reports'[t][i].run = reports[t][i].run /\ reports'[t][i].acceptance = reports[t][i].acceptance
    BY <1>1, <1>2 DEF ReportInv, ReportOrder
  <1>3. ASSUME NEW x \in ReportRow, reports'[t] = Append(reports[t], x),
               x.run \in ActiveWorkers(t), x.acceptance = bindings[x.run].acceptance,
               bindings'[x.run].state = "completed",
               \A i \in DOMAIN reports[t] : bindings[reports[t][i].run].epoch < bindings[x.run].epoch
        PROVE  /\ \A i \in (DOMAIN reports[t])' :
                     /\ reports'[t][i].run \in Workers(t)'
                     /\ bindings'[reports'[t][i].run].state = "completed"
                     /\ bindings'[reports'[t][i].run].acceptance = reports'[t][i].acceptance
               /\ \A i, j \in (DOMAIN reports[t])' : i < j =>
                     bindings'[reports'[t][i].run].epoch < bindings'[reports'[t][j].run].epoch
    <2>1. /\ x.run \in Workers(t)' /\ bindings'[x.run].acceptance = x.acceptance
          /\ bindings'[x.run].epoch = bindings[x.run].epoch
      BY <1>3, RunsAfter DEF StoreStep, RowsKept, ActiveWorkers, Workers, Bound
    <2>2. /\ DOMAIN reports[t] = 1..Len(reports[t]) /\ Len(reports[t]) \in Nat
          /\ DOMAIN reports'[t] = 1..(Len(reports[t]) + 1)
          /\ \A i \in DOMAIN reports[t] : reports'[t][i] = reports[t][i]
          /\ reports'[t][Len(reports[t]) + 1] = x
      BY <1>0, <1>3
    <2>3. \A i \in DOMAIN reports'[t] :
             (i \in DOMAIN reports[t] /\ reports'[t][i] = reports[t][i])
             \/ (i = Len(reports[t]) + 1 /\ reports'[t][i] = x)
      BY <2>2
    <2>4. ASSUME NEW i \in DOMAIN reports'[t]
          PROVE  /\ reports'[t][i].run \in Workers(t)'
                 /\ bindings'[reports'[t][i].run].state = "completed"
                 /\ bindings'[reports'[t][i].run].acceptance = reports'[t][i].acceptance
      BY <1>1, <1>3, <2>1, <2>3
    <2>5. ASSUME NEW i \in DOMAIN reports'[t], NEW j \in DOMAIN reports'[t], i < j
          PROVE  bindings'[reports'[t][i].run].epoch < bindings'[reports'[t][j].run].epoch
      <3>1. i \in DOMAIN reports[t] /\ reports'[t][i] = reports[t][i]
        BY <2>2, <2>5
      <3>2. bindings'[reports'[t][i].run].epoch = bindings[reports[t][i].run].epoch
        BY <1>1, <3>1
      <3>3. CASE j \in DOMAIN reports[t] /\ reports'[t][j] = reports[t][j]
        BY <1>1, <2>5, <3>1, <3>2, <3>3 DEF ReportInv, ReportOrder
      <3>4. CASE reports'[t][j] = x
        BY <1>3, <2>1, <3>1, <3>2, <3>4
      <3> QED
        BY <2>3, <3>3, <3>4
    <2> QED
      BY <2>4, <2>5
  <1> QED
    BY <1>0, <1>2, <1>3, ReportsAfter

LEMMA ReportedStep == ReportInv /\ StoreStep /\ ReportStep => CompletedReported'
  <1> SUFFICES ASSUME ReportInv, StoreStep, ReportStep, NEW t \in Tasks, NEW r \in Workers(t)',
                      bindings'[r].state = "completed"
               PROVE  \E i \in (DOMAIN reports[t])' : reports'[t][i].run = r
    BY DEF CompletedReported
  <1>0. reports[t] \in Seq(ReportRow)
    BY DEF ReportInv, ReviewInv, StoreInv, TypeOK
  <1>1. r \in Runs /\ bindings'[r].task = t /\ bindings'[r].role = "worker"
    BY DEF Workers
  <1>2. ~Fresh(r)
    BY <1>1 DEF StoreStep, FreshRows
  <1>3. r \in Workers(t)
    BY <1>1, <1>2, RunsAfter DEF StoreStep
  <1>4. ASSUME bindings[r].state = "completed"
        PROVE  \E i \in (DOMAIN reports[t])' : reports'[t][i].run = r
    <2>1. PICK i \in DOMAIN reports[t] : reports[t][i].run = r
      BY <1>3, <1>4 DEF ReportInv, CompletedReported
    <2>2. i \in (DOMAIN reports[t])' /\ reports'[t][i].run = r
      BY <1>0, <2>1, ReportsAfter
    <2> QED
      BY <2>2
  <1>5. CASE bindings[r].state # "completed"
    <2>1. PICK u \in Tasks, x \in ReportRow :
              /\ reports' = [reports EXCEPT ![u] = Append(@, x)]
              /\ x.run \in ActiveWorkers(u)
              /\ \A q \in Runs \ {x.run} : bindings'[q] = bindings[q]
      BY <1>1, <1>5 DEF ReportStep, NoWorkerCompletes
    <2>2. r = x.run
      BY <1>1, <1>5, <2>1
    <2>3. u = t
      BY <1>3, <2>1, <2>2 DEF ActiveWorkers, Workers
    <2>4. reports'[t] = Append(reports[t], x)
      BY <2>1, <2>3 DEF ReportInv, ReviewInv, StoreInv, TypeOK
    <2>5. /\ Len(reports[t]) + 1 \in (DOMAIN reports[t])'
          /\ reports'[t][Len(reports[t]) + 1] = x
      BY <1>0, <2>4
    <2> QED
      BY <2>2, <2>5
  <1> QED
    BY <1>4, <1>5

LEMMA ReportInvInit == Init => ReportInv
  <1> SUFFICES ASSUME Init PROVE ReportInv
    OBVIOUS
  <1>1. \A t \in Tasks : reports[t] = << >> /\ Workers(t) = {}
    BY NullAssumption DEF Init, NoBinding, Workers
  <1> QED
    BY <1>1, ReviewInvInit DEF ReportInv, ReportRows, ReportOrder, CompletedReported

LEMMA ReportInvStep == ReportInv /\ [Next]_vars => ReportInv'
  <1> SUFFICES ASSUME ReportInv, [Next]_vars PROVE ReportInv'
    OBVIOUS
  <1>1. ReviewInv' /\ StoreStep /\ ReportStep
    BY ReviewInvStep, StepIsStoreStep, ReportStepHolds DEF ReportInv, ReviewInv, StoreInv
  <1>2. TypeOK'
    BY <1>1 DEF ReviewInv, StoreInv
  <1> QED
    BY <1>1, <1>2, ReportRowsStep, ReportedStep DEF ReportInv

LEMMA ReportInvariant == Spec => []ReportInv
  BY ReportInvInit, ReportInvStep, PTL DEF Spec

\* The newest submission is the one the reviewer is shown.
LEMMA NewestIsShown ==
  ASSUME ReportInv, NEW t \in Tasks, NEW w \in CompletedWorkers(t),
         \A q \in Workers(t) : bindings[q].epoch <= bindings[w].epoch
  PROVE  \E i \in LatestReport(t) : reports[t][i].run = w
  <1>1. w \in Workers(t) /\ bindings[w].state = "completed" /\ Current(t, w)
    BY DEF CompletedWorkers
  <1>2. PICK i \in DOMAIN reports[t] : reports[t][i].run = w
    BY <1>1 DEF ReportInv, CompletedReported
  <1>3. i \in ReportsFor(t)
    BY <1>1, <1>2 DEF ReportInv, ReportRows, ReportOf, ReportsFor, Current
  <1>4. ASSUME NEW j \in ReportsFor(t) PROVE j <= i
    <2>1. j \in DOMAIN reports[t] /\ reports[t][j].run \in Workers(t)
      BY DEF ReportsFor, ReportInv, ReportRows, ReportOf
    <2>2. bindings[reports[t][j].run].epoch <= bindings[w].epoch
      BY <2>1
    <2>3. bindings[reports[t][j].run] \in BindingRow /\ bindings[w] \in BindingRow
      BY <1>1, <2>1, NullAssumption DEF ReportInv, ReviewInv, StoreInv, TypeOK, Workers, NoBinding
    <2>4. ~(bindings[w].epoch < bindings[reports[t][j].run].epoch)
      BY <2>2, <2>3, BoundAssumption DEF BindingRow
    <2>5. ~(i < j)
      BY <1>2, <2>1, <2>4 DEF ReportInv, ReportOrder
    <2>6. i \in Nat /\ j \in Nat
      BY <2>1 DEF ReportInv, ReviewInv, StoreInv, TypeOK
    <2> QED
      BY <2>5, <2>6
  <1> QED
    BY <1>2, <1>3, <1>4 DEF LatestReport

\* The verdicts the dashboard counts are those the DONE gate counts: the
\* reviewer of a row whose epoch reaches the submission's reviewed that very
\* submission, and was of another agent.
LEMMA SameVerdicts ==
  ASSUME ReviewInv, NEW t \in Tasks, NEW w \in LatestCompletedWorker(t)
  PROVE  GateVerdicts(t) = VerdictsOn(t, w)
  <1>1. \A v \in LatestCompletedWorker(t) : v = w
    BY LatestIsUnique DEF ReviewInv
  <1>2. VerdictsOn(t, w) \subseteq GateVerdicts(t)
    BY <1>1 DEF VerdictsOn, GateVerdicts, MayDecide
  <1>3. ASSUME NEW i \in GateVerdicts(t) PROVE i \in VerdictsOn(t, w)
    <2> DEFINE e == evidence[t][i]
               s == e.submission
    <2>1. i \in DOMAIN evidence[t] /\ e.acceptance = tasks[t].acceptance /\ e.run \in Reviewers(t)
          /\ bindings[e.run].epoch >= bindings[w].epoch
      BY DEF GateVerdicts
    <2>2. VerdictRow(t, e)
      BY <2>1, NullAssumption DEF ReviewInv, VerdictRows, Reviewers
    <2>3. w \in Workers(t) /\ \A q \in CompletedWorkers(t) : bindings[q].epoch <= bindings[w].epoch
      BY DEF LatestCompletedWorker, LatestByEpoch, CompletedWorkers
    <2>4. s \in Workers(t) /\ s \in CompletedWorkers(t) /\ Current(t, e.run)
      BY <2>1, <2>2 DEF VerdictRow, CompletedWorkers, Current, ReviewInv, StoreInv, AcceptanceNamesContent
    <2>5. bindings[w] \in BindingRow /\ bindings[s] \in BindingRow /\ bindings[e.run] \in BindingRow
      BY <2>1, <2>3, <2>4, NullAssumption DEF ReviewInv, StoreInv, TypeOK, Workers, Reviewers, NoBinding
    <2>6. bindings[w].epoch \in Nat /\ bindings[s].epoch \in Nat /\ bindings[e.run].epoch \in Nat
      BY <2>5, BoundAssumption DEF BindingRow
    <2>7. bindings[w].epoch <= bindings[s].epoch
      BY <2>1, <2>2, <2>3, <2>6 DEF VerdictRow
    <2>8. s = w
      BY <2>3, <2>4, <2>6, <2>7 DEF ReviewInv, StoreInv, EpochsDistinct
    <2>9. bindings[e.run].agent # bindings[w].agent
      BY <2>2, <2>8 DEF VerdictRow
    <2>10. e.run # w
      BY <2>1, <2>3 DEF Workers, Reviewers
    <2> QED
      BY <2>1, <2>4, <2>9, <2>10 DEF VerdictsOn, MayDecide
  <1> QED
    BY <1>2, <1>3

---------------------------------------------------------------------------
(* The theorems *)

\* A task is DONE only with a PASS of another agent's run for the submission
\* that is its latest one, and no later reviewer verdict.
THEOREM OnlyReviewedIsDone == Spec => []DoneIsReviewed
  <1>1. ReviewInv => DoneIsReviewed
    BY DEF ReviewInv
  <1> QED
    BY <1>1, ReviewInvariant, PTL

\* A task in REVIEW has a submission, newer than every other worker it had,
\* and readReviewReport shows that submission's report and no other one.
THEOREM ReviewShowsSubmission == Spec => []ReviewHasSubmission
  <1>1. ReportInv => ReviewHasSubmission
    <2> SUFFICES ASSUME ReportInv, NEW t \in Tasks, tasks[t].state = "REVIEW"
                 PROVE  \E w \in LatestCompletedWorker(t) :
                          /\ \A r \in Workers(t) \ {w} : bindings[r].epoch < bindings[w].epoch
                          /\ \E i \in LatestReport(t) : reports[t][i].run = w
      BY DEF ReviewHasSubmission
    <2>1. PICK w \in CompletedWorkers(t) : \A q \in Workers(t) : bindings[q].epoch <= bindings[w].epoch
      BY DEF ReportInv, ReviewInv, StoreInv, SubmissionIsNewest
    <2>2. w \in LatestCompletedWorker(t) /\ w \in Workers(t)
      BY <2>1 DEF LatestCompletedWorker, LatestByEpoch, CompletedWorkers
    <2>3. ASSUME NEW r \in Workers(t) \ {w} PROVE bindings[r].epoch < bindings[w].epoch
      <3>1. bindings[r].epoch # bindings[w].epoch
        BY <2>2 DEF ReportInv, ReviewInv, StoreInv, EpochsDistinct
      <3>2. bindings[r] \in BindingRow /\ bindings[w] \in BindingRow
        BY <2>2, NullAssumption DEF ReportInv, ReviewInv, StoreInv, TypeOK, Workers, NoBinding
      <3> QED
        BY <2>1, <3>1, <3>2, BoundAssumption DEF BindingRow
    <2> QED
      BY <2>1, <2>2, <2>3, NewestIsShown
  <1> QED
    BY <1>1, ReportInvariant, PTL

\* The gates computeQualityGates shows and the gate updateTask enforces agree.
THEOREM GatesAgree == Spec => []GatesAgreeWithStore
  <1>1. ReportInv => GatesAgreeWithStore
    <2> SUFFICES ASSUME ReportInv, NEW t \in Tasks
                 PROVE  /\ tasks[t].state = "REVIEW" => (ReadyForDone(t) <=> MayMoveTo(t, "DONE"))
                        /\ tasks[t].state = "DONE" => ReadyForDone(t)
      BY DEF GatesAgreeWithStore
    <2>1. tasks[t].state \in {"REVIEW", "DONE"} => BindingIntegrity(t)
      BY DEF ReportInv, ReviewInv, StoreInv, NoWorkerBehindReview, BindingIntegrity
    <2>2. LatestIsPass(t, GateVerdicts(t)) => AcceptanceFresh(t)
      BY DEF LatestIsPass, GateVerdicts, AcceptanceFresh
    <2>3. ASSUME NEW w \in LatestCompletedWorker(t) PROVE ReportsFor(t) # {}
      <3>1. w \in Workers(t) /\ bindings[w].state = "completed" /\ Current(t, w)
        BY DEF LatestCompletedWorker, LatestByEpoch, CompletedWorkers
      <3>2. PICK i \in DOMAIN reports[t] : reports[t][i].run = w
        BY <3>1 DEF ReportInv, CompletedReported
      <3> QED
        BY <3>1, <3>2 DEF ReportInv, ReportRows, ReportOf, ReportsFor, Current
    <2>4. CASE tasks[t].state = "REVIEW"
      <3>1. PICK w \in CompletedWorkers(t) : \A q \in Workers(t) : bindings[q].epoch <= bindings[w].epoch
        BY <2>4 DEF ReportInv, ReviewInv, StoreInv, SubmissionIsNewest
      <3>2. w \in LatestCompletedWorker(t)
        BY <3>1 DEF LatestCompletedWorker, LatestByEpoch, CompletedWorkers
      <3>3. GateVerdicts(t) = VerdictsOn(t, w) /\ \A v \in LatestCompletedWorker(t) : v = w
        BY <3>2, SameVerdicts, LatestIsUnique DEF ReportInv, ReviewInv
      <3>4. CurrentReviewerPass(t) <=> LatestIsPass(t, GateVerdicts(t))
        BY <3>2, <3>3 DEF CurrentReviewerPass
      <3>5. MayMoveTo(t, "DONE") <=> CurrentReviewerPass(t)
        BY <2>4 DEF MayMoveTo, AllowedTransitions
      <3> QED
        BY <2>1, <2>2, <2>3, <2>4, <3>2, <3>4, <3>5 DEF ReadyForDone
    <2>5. CASE tasks[t].state = "DONE"
      <3>1. Approved(t)
        BY <2>5 DEF ReportInv, ReviewInv, DoneIsReviewed, Approved
      <3>2. PICK w \in LatestCompletedWorker(t), i \in DOMAIN evidence[t] :
              /\ evidence[t][i].verdict = "PASS"
              /\ evidence[t][i].submission = w
              /\ evidence[t][i].acceptance = tasks[t].acceptance
              /\ evidence[t][i].run \in Reviewers(t)
              /\ \A j \in DOMAIN evidence[t] : j > i => evidence[t][j].run = Null
        BY <3>1 DEF Approved
      <3>3. bindings[w].epoch <= bindings[evidence[t][i].run].epoch
        BY <3>2, NullAssumption DEF ReportInv, ReviewInv, VerdictRows, VerdictRow, Reviewers
      <3>4. \A v \in LatestCompletedWorker(t) : v = w
        BY LatestIsUnique DEF ReportInv, ReviewInv
      <3>5. w \in Workers(t)
        BY DEF LatestCompletedWorker, LatestByEpoch, CompletedWorkers
      <3>6. bindings[w] \in BindingRow /\ bindings[evidence[t][i].run] \in BindingRow
        BY <3>2, <3>5, NullAssumption DEF ReportInv, ReviewInv, StoreInv, TypeOK, Workers, Reviewers, NoBinding
      <3>7. i \in GateVerdicts(t)
        BY <3>2, <3>3, <3>4, <3>6, BoundAssumption DEF GateVerdicts, BindingRow
      <3>8. ASSUME NEW j \in GateVerdicts(t) PROVE j <= i
        <4>1. j \in DOMAIN evidence[t] /\ evidence[t][j].run # Null
          BY NullAssumption DEF GateVerdicts, Reviewers
        <4>2. i \in Nat /\ j \in Nat
          BY <4>1 DEF ReportInv, ReviewInv, StoreInv, TypeOK
        <4> QED
          BY <3>2, <4>1, <4>2
      <3> QED
        BY <2>1, <2>2, <2>3, <2>5, <3>2, <3>7, <3>8 DEF ReadyForDone, LatestIsPass
    <2> QED
      BY <2>4, <2>5
  <1> QED
    BY <1>1, ReportInvariant, PTL
=============================================================================
