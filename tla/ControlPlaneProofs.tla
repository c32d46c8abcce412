------------------------- MODULE ControlPlaneProofs -------------------------
(***************************************************************************)
(* Orchestration requests are safe for any number of sessions, requests,   *)
(* tasks and runs.  As in TaskStoreSafety the steps are summed up first:   *)
(* what any step may do to a request (RequestStep), and that a task whose  *)
(* revision stays has not changed at all (RevisionTells).  What the        *)
(* processes remember of the requests is an invariant apart (TypesInv): it *)
(* needs that the list of claims names each CLAIMED row once.              *)
(***************************************************************************)
EXTENDS ControlPlane, TaskStoreSafety

\* Every step is a step of the task kernel or leaves it alone.
LEMMA ControlStepIsKernelStep == [ControlNext]_cvars => [Next]_vars
  <1>1. StoreCall => Next
    BY DEF StoreCall
  <1>2. \A s \in Sessions :
           SessionStart(s) \/ SessionStop(s) \/ RecoverSettle(s) \/ RecoverNext(s) => UNCHANGED vars
    BY DEF SessionStart, SessionStop, RecoverSettle, RecoverNext
  <1>3. \A s \in Sessions, t \in Tasks, c \in Commands, r \in Runs \cup {Null} : Post(s, t, c, r) => UNCHANGED vars
    BY DEF Post
  <1>4. \A s \in Sessions, i \in DOMAIN requests :
           PostAgain(s, i) \/ RingFails(s, i) \/ MarkDelivered(s, i) \/ Claim(s, i) \/ Fail(s, i) => UNCHANGED vars
    BY DEF PostAgain, RingFails, MarkDelivered, Claim, Fail
  <1>5. \A s \in Sessions, i \in DOMAIN requests, r \in Runs \cup {Null} : Complete(s, i, r) => UNCHANGED vars
    BY DEF Complete
  <1> QED
    BY <1>1, <1>2, <1>3, <1>4, <1>5 DEF ControlNext, cvars

\* The control plane makes no step the task kernel does not allow, so what
\* was proved of the kernel holds in every run of the control plane.
THEOREM ControlImplementsStore == ControlSpec => Spec
  <1>1. ControlInit => Init
    BY DEF ControlInit
  <1> QED
    BY <1>1, ControlStepIsKernelStep, PTL DEF ControlSpec, Spec

---------------------------------------------------------------------------
(* What a step does to a request *)

RequestType == requests \in Seq(RequestRow)

\* The row of i in its next state is the same but for state, parent and child.
SameRequest(i) ==
    /\ requests'[i].task = requests[i].task
    /\ requests'[i].expected = requests[i].expected
    /\ requests'[i].command = requests[i].command

Moves(i) ==
    \/ requests'[i] = requests[i]
    \/ requests[i].state = "REQUESTED" /\ requests'[i].state = "DELIVERED"
    \/ requests'[i].state = "CLAIMED" /\ Claimable(i)
    \/ /\ requests[i].state = "CLAIMED"
       /\ requests'[i].state = IF IsGo(i) THEN "REQUESTED" ELSE "FAILED"
    \/ requests[i].state \in Outstanding /\ requests'[i].state = "FAILED"
    \/ /\ requests[i].state = "CLAIMED" /\ requests'[i].state = "COMPLETED"
       /\ requests'[i].parent = requests[i].parent
       /\ IsGo(i) => requests'[i].child \in Runs /\ Answers(i, requests'[i].child)

Added(i) ==
    LET q == requests'[i]
    IN  /\ i = Len(requests) + 1
        /\ q.state = "REQUESTED"
        /\ Exists(q.task)
        /\ q.expected = tasks[q.task].revision
        /\ q.command = "GO" => GoApplicable(q.task) /\ OutstandingGo(q.task) = {}

RequestStep ==
    /\ \A i \in DOMAIN requests : i \in DOMAIN requests' /\ SameRequest(i) /\ Moves(i)
    /\ \A i \in DOMAIN requests' \ DOMAIN requests : Added(i)

\* Either the task kernel or the requests move, not both.
Apart == requests' = requests \/ UNCHANGED vars

LEMMA RowReplaced ==
  ASSUME RequestType, NEW i \in DOMAIN requests, NEW q \in RequestRow,
         requests' = [requests EXCEPT ![i] = q],
         q.task = requests[i].task, q.expected = requests[i].expected, q.command = requests[i].command
  PROVE  /\ RequestType'
         /\ DOMAIN requests' = DOMAIN requests
         /\ requests'[i] = q
         /\ \A j \in DOMAIN requests : SameRequest(j)
         /\ \A j \in DOMAIN requests \ {i} : requests'[j] = requests[j]
  BY DEF RequestType, SameRequest

LEMMA PostStep ==
  ASSUME TypeOK, RequestType, NEW s \in Sessions, NEW t \in Tasks, NEW c \in Commands,
         NEW r \in Runs \cup {Null}, Post(s, t, c, r)
  PROVE  RequestType' /\ RequestStep /\ Apart
  <1> DEFINE q == [task |-> t, expected |-> tasks[t].revision, command |-> c,
                   state |-> "REQUESTED", target |-> r, origin |-> s, parent |-> s, child |-> Null]
  <1>1. tasks[t] \in TaskRow
    BY TaskRowOf DEF Post, Exists
  <1>2. q \in RequestRow
    BY <1>1 DEF RequestRow, RequestStates, TaskRow
  <1>3. requests' = Append(requests, q)
    BY DEF Post
  <1>4. /\ RequestType'
        /\ DOMAIN requests' = DOMAIN requests \cup {Len(requests) + 1}
        /\ requests'[Len(requests) + 1] = q
        /\ \A i \in DOMAIN requests : requests'[i] = requests[i]
    <2> HIDE DEF q
    <2> QED
      BY <1>2, <1>3 DEF RequestType
  <1>5. Exists(t) /\ (c = "GO" => GoApplicable(t) /\ OutstandingGo(t) = {}) /\ UNCHANGED vars
    BY DEF Post
  <1> QED
    BY <1>4, <1>5 DEF RequestStep, SameRequest, Moves, Added, Apart

LEMMA UpdateStep ==
  ASSUME RequestType, NEW i \in DOMAIN requests, NEW q \in RequestRow,
         requests' = [requests EXCEPT ![i] = q], UNCHANGED vars,
         q.task = requests[i].task, q.expected = requests[i].expected, q.command = requests[i].command,
         requests'[i] = q => Moves(i)
  PROVE  RequestType' /\ RequestStep /\ Apart
  BY RowReplaced DEF RequestStep, Moves, Apart

LEMMA QuietRequests ==
  ASSUME RequestType, requests' = requests
  PROVE  RequestType' /\ RequestStep /\ Apart
  BY DEF RequestType, RequestStep, SameRequest, Moves, Apart

LEMMA MarkDeliveredStep ==
  ASSUME RequestType, NEW s \in Sessions, NEW i \in DOMAIN requests, MarkDelivered(s, i)
  PROVE  RequestType' /\ RequestStep /\ Apart
  <1>1. requests[i] \in RequestRow
    BY DEF RequestType
  <1> DEFINE q == [requests[i] EXCEPT !.state = DeliveredState(i)]
  <1>2. q \in RequestRow /\ q.state = DeliveredState(i)
        /\ q.task = requests[i].task /\ q.expected = requests[i].expected /\ q.command = requests[i].command
        /\ (requests[i].state # "REQUESTED" => q = requests[i])
    BY <1>1 DEF RequestRow, DeliveredState, RequestStates
  <1>3. requests' = [requests EXCEPT ![i] = q] /\ UNCHANGED vars
    BY DEF MarkDelivered
  <1>4. requests'[i] = q => Moves(i)
    BY <1>2 DEF Moves, DeliveredState
  <1> HIDE DEF q
  <1> QED
    BY <1>2, <1>3, <1>4, UpdateStep

LEMMA ClaimStep ==
  ASSUME RequestType, NEW s \in Sessions, NEW i \in DOMAIN requests, Claim(s, i)
  PROVE  RequestType' /\ RequestStep /\ Apart
  <1>1. requests[i] \in RequestRow
    BY DEF RequestType
  <1> DEFINE q == [requests[i] EXCEPT !.state = "CLAIMED", !.parent = s]
  <1>2. q \in RequestRow /\ q.state = "CLAIMED"
        /\ q.task = requests[i].task /\ q.expected = requests[i].expected /\ q.command = requests[i].command
    BY <1>1 DEF RequestRow, RequestStates
  <1>3. requests' = [requests EXCEPT ![i] = q] /\ UNCHANGED vars /\ Claimable(i)
    BY <1>1 DEF Claim, RequestType, RequestRow
  <1>4. requests'[i] = q => Moves(i)
    BY <1>2, <1>3 DEF Moves
  <1> HIDE DEF q
  <1> QED
    BY <1>2, <1>3, <1>4, UpdateStep

LEMMA CompleteStep ==
  ASSUME RequestType, NEW s \in Sessions, NEW i \in DOMAIN requests, NEW r \in Runs \cup {Null},
         Complete(s, i, r)
  PROVE  RequestType' /\ RequestStep /\ Apart
  <1>1. requests[i] \in RequestRow
    BY DEF RequestType
  <1> DEFINE q == [requests[i] EXCEPT !.state = "COMPLETED", !.child = r]
  <1>2. q \in RequestRow /\ q.state = "COMPLETED" /\ q.child = r /\ q.parent = requests[i].parent
        /\ q.task = requests[i].task /\ q.expected = requests[i].expected /\ q.command = requests[i].command
    BY <1>1 DEF RequestRow, RequestStates
  <1>3. requests' = [requests EXCEPT ![i] = q] /\ UNCHANGED vars
    BY <1>1 DEF Complete, RequestType, RequestRow
  <1>4. requests[i].state = "CLAIMED" /\ (IsGo(i) => r \in Runs /\ Answers(i, r))
    BY DEF Complete, IsGo
  <1>5. requests'[i] = q => Moves(i)
    BY <1>2, <1>4 DEF Moves
  <1> HIDE DEF q
  <1> QED
    BY <1>2, <1>3, <1>5, UpdateStep

LEMMA FailStep ==
  ASSUME RequestType, NEW s \in Sessions, NEW i \in DOMAIN requests, Fail(s, i)
  PROVE  RequestType' /\ RequestStep /\ Apart
  <1>1. requests[i] \in RequestRow
    BY DEF RequestType
  <1> DEFINE q == [requests[i] EXCEPT !.state = "FAILED"]
  <1>2. q \in RequestRow /\ q.state = "FAILED"
        /\ q.task = requests[i].task /\ q.expected = requests[i].expected /\ q.command = requests[i].command
    BY <1>1 DEF RequestRow, RequestStates
  <1>3. requests' = [requests EXCEPT ![i] = q] /\ UNCHANGED vars /\ requests[i].state \in Outstanding
    BY DEF Fail
  <1>4. requests'[i] = q => Moves(i)
    BY <1>2, <1>3 DEF Moves
  <1> HIDE DEF q
  <1> QED
    BY <1>2, <1>3, <1>4, UpdateStep

LEMMA RecoverSettleStep ==
  ASSUME RequestType, NEW s \in Sessions, RecoverSettle(s)
  PROVE  RequestType' /\ RequestStep /\ Apart
  <1> DEFINE i == candidate[s]
  <1>1. CASE i \notin DOMAIN requests
    <2>1. requests' = requests
      BY <1>1 DEF RecoverSettle, Requeue, RequestType
    <2> QED
      BY <2>1, QuietRequests
  <1>2. CASE i \in DOMAIN requests
    <2>1. requests[i] \in RequestRow
      BY <1>2 DEF RequestType
    <2> DEFINE x == IF requests[i].state # "CLAIMED" THEN requests[i].state
                    ELSE IF requests[i].command = "GO" THEN "REQUESTED" ELSE "FAILED"
               q == [requests[i] EXCEPT !.state = x]
    <2>2. q \in RequestRow /\ q.state = x
          /\ q.task = requests[i].task /\ q.expected = requests[i].expected /\ q.command = requests[i].command
          /\ (requests[i].state # "CLAIMED" => q = requests[i])
      BY <2>1 DEF RequestRow, RequestStates
    <2>3. requests' = [requests EXCEPT ![i] = q] /\ UNCHANGED vars
      BY DEF RecoverSettle, Requeue
    <2>4. requests'[i] = q => Moves(i)
      BY <2>2 DEF Moves, IsGo
    <2> HIDE DEF q, x, i
    <2> QED
      BY <1>2, <2>2, <2>3, <2>4, UpdateStep
  <1> QED
    BY <1>1, <1>2

LEMMA StepIsRequestStep ==
  ASSUME TypeOK, RequestType, [ControlNext]_cvars
  PROVE  RequestType' /\ RequestStep /\ Apart
  <1>1. CASE UNCHANGED cvars
    BY <1>1, QuietRequests DEF cvars, control
  <1>2. CASE StoreCall
    BY <1>2, QuietRequests DEF StoreCall, control
  <1>3. ASSUME NEW s \in Sessions, SessionStart(s) \/ SessionStop(s) \/ RecoverNext(s)
        PROVE  requests' = requests
    BY <1>3 DEF SessionStart, SessionStop, RecoverNext
  <1>4. ASSUME NEW s \in Sessions, NEW i \in DOMAIN requests, PostAgain(s, i) \/ RingFails(s, i)
        PROVE  requests' = requests
    BY <1>4 DEF PostAgain, RingFails
  <1>5. CASE ControlNext /\ ~StoreCall
    BY <1>3, <1>4, <1>5, QuietRequests, PostStep, MarkDeliveredStep, ClaimStep, CompleteStep, FailStep,
       RecoverSettleStep DEF ControlNext
  <1> QED
    BY <1>1, <1>2, <1>5

LEMMA RevisionTells ==
  ASSUME TypeOK, [Next]_vars, NEW t \in Tasks
  PROVE  tasks'[t] = tasks[t] \/ tasks'[t].revision > tasks[t].revision
  <1>1. ASSUME NEW u \in Tasks, NEW c \in Contents, NEW s \in TaskStates,
               CreateTask(u, c, s) \/ UpdateTask(u, c, s)
        PROVE  tasks'[t] = tasks[t] \/ tasks'[t].revision > tasks[t].revision
    <2>1. CASE CreateTask(u, c, s)
      <3>1. tasks[u] = NoTask
        BY <2>1 DEF CreateTask, Exists, TypeOK, TaskRow, TaskStates
      <3>2. (t # u => tasks'[t] = tasks[t]) /\ tasks'[u] = NewTask(c, s)
        BY <2>1 DEF CreateTask, TypeOK
      <3>3. tasks'[u].revision > tasks[u].revision
        BY <3>1, <3>2 DEF NoTask, NewTask
      <3> QED
        BY <3>2, <3>3
    <2>2. CASE UpdateTask(u, c, s)
      <3>1. tasks[u] \in TaskRow
        BY <2>2, TaskRowOf DEF UpdateTask, Exists
      <3>2. t # u => tasks'[t] = tasks[t]
        BY <2>2 DEF UpdateTask, TypeOK
      <3>3. tasks'[u].revision = tasks[u].revision + 1
        BY <2>2 DEF UpdateTask, TypeOK
      <3>4. tasks[u].revision \in Nat
        BY <3>1, BoundAssumption DEF TaskRow
      <3>5. tasks'[u].revision > tasks[u].revision
        BY <3>3, <3>4
      <3> QED
        BY <3>2, <3>5
    <2> QED
      BY <1>1, <2>1, <2>2
  <1>2. ASSUME NEW u \in Tasks, NEW a \in Agents, tasks' = TaskAssignedTo(u, a), tasks[u] \in TaskRow
        PROVE  tasks'[t] = tasks[t] \/ tasks'[t].revision > tasks[t].revision
    BY <1>2, BoundAssumption DEF TaskAssignedTo, TypeOK, TaskRow
  <1>3. ASSUME NEW u \in Tasks, NEW r \in Runs, NEW a \in Agents, NEW p \in Sessions,
               AssignWorker(u, r, a, p) \/ TransferRun(u, r, a, p)
        PROVE  tasks'[t] = tasks[t] \/ tasks'[t].revision > tasks[t].revision
    <2>1. tasks[u] \in TaskRow
      BY <1>3, TaskRowOf DEF AssignWorker, TransferRun, Exists
    <2> QED
      BY <1>2, <1>3, <2>1 DEF AssignWorker, TransferRun
  <1>4. ASSUME NEW u \in Tasks, NEW r \in Runs, NEW x \in Reports, AttestCompletion(u, r, x)
        PROVE  tasks'[t] = tasks[t] \/ tasks'[t].revision > tasks[t].revision
    <2>1. tasks[u] \in TaskRow
      BY <1>4, TaskRowOf DEF AttestCompletion, MayAttest
    <2> QED
      BY <1>4, <2>1, BoundAssumption DEF AttestCompletion, TypeOK, TaskRow
  <1>5. ASSUME UNCHANGED tasks
        PROVE  tasks'[t] = tasks[t] \/ tasks'[t].revision > tasks[t].revision
    BY <1>5
  <1>6. CASE Next
    BY <1>1, <1>3, <1>4, <1>5, <1>6
       DEF Next, AssignReviewer, ImportReviewReport, RecordReviewerEvidence, RecordEvidence, UpdateRunActivity
  <1>7. CASE UNCHANGED vars
    BY <1>5, <1>7 DEF vars
  <1> QED
    BY <1>6, <1>7

---------------------------------------------------------------------------
(* The inductive invariant *)

\* A request names a task that exists, at a revision it has had.
ExpectedIsPast ==
    \A i \in DOMAIN requests :
        /\ Exists(requests[i].task)
        /\ requests[i].expected <= tasks[requests[i].task].revision

\* At the revision at which a run was bound its task is worked on or reviewed.
EpochIsAssignment ==
    \A r \in Runs : Bound(r) =>
        LET t == bindings[r].task
        IN  bindings[r].epoch = tasks[t].revision => tasks[t].state \in {"RUNNING", "REVIEW"}

\* No run was bound at the revision of a GO.
NoRunAtExpected ==
    \A i \in DOMAIN requests, r \in Runs :
        IsGo(i) /\ bindings[r].task = requests[i].task => bindings[r].epoch # requests[i].expected

ControlInv ==
    /\ StoreInv
    /\ RequestType
    /\ ExpectedIsPast
    /\ EpochIsAssignment
    /\ FreshGoIsApplicable
    /\ NoRunAtExpected
    /\ OneOutstandingGo
    /\ CompletedGoWasLaunched

\* What the steps of the invariant may use.
ControlStep ==
    /\ StoreStep
    /\ StoreInv'
    /\ RequestType'
    /\ RequestStep
    /\ Apart
    /\ \A t \in Tasks : tasks'[t] = tasks[t] \/ tasks'[t].revision > tasks[t].revision

LEMMA StepIsControlStep == ControlInv /\ [ControlNext]_cvars => ControlStep
  <1> SUFFICES ASSUME ControlInv, [ControlNext]_cvars PROVE ControlStep
    OBVIOUS
  <1>1. TypeOK /\ StoreInv /\ RequestType
    BY DEF ControlInv, StoreInv
  <1>2. [Next]_vars
    BY ControlStepIsKernelStep
  <1>3. StoreStep /\ StoreInv'
    BY <1>1, <1>2, StepIsStoreStep, StoreInvStep
  <1>4. \A t \in Tasks : tasks'[t] = tasks[t] \/ tasks'[t].revision > tasks[t].revision
    BY <1>1, <1>2, RevisionTells
  <1>5. RequestType' /\ RequestStep /\ Apart
    BY <1>1, StepIsRequestStep
  <1> QED
    BY <1>3, <1>4, <1>5 DEF ControlStep

LEMMA RequestRowOf ==
  ASSUME RequestType, NEW i \in DOMAIN requests
  PROVE  /\ requests[i] \in RequestRow
         /\ requests[i].task \in Tasks
         /\ requests[i].expected \in Nat
  <1>1. requests[i] \in RequestRow
    BY DEF RequestType
  <1>2. requests[i].task \in Tasks /\ requests[i].expected \in 1..MaxRevision
    BY <1>1 DEF RequestRow
  <1> QED
    BY <1>1, <1>2, BoundAssumption

LEMMA NextRequestRowOf ==
  ASSUME RequestType', NEW i \in DOMAIN requests'
  PROVE  /\ requests'[i].task \in Tasks
         /\ requests'[i].expected \in Nat
  <1>1. requests'[i] \in RequestRow
    BY DEF RequestType
  <1>2. requests'[i].task \in Tasks /\ requests'[i].expected \in 1..MaxRevision
    BY <1>1 DEF RequestRow
  <1> QED
    BY <1>2, BoundAssumption

LEMMA RevisionIsNat ==
  ASSUME TypeOK, TypeOK', NEW t \in Tasks
  PROVE  tasks[t].revision \in Nat /\ tasks'[t].revision \in Nat
  <1>1. /\ tasks[t] \in TaskRow \cup {NoTask}
        /\ tasks'[t] \in TaskRow \cup {NoTask}
    BY DEF TypeOK
  <1>2. \A x \in TaskRow \cup {NoTask} : x.revision \in Nat
    BY BoundAssumption DEF TaskRow, NoTask
  <1> QED
    BY <1>1, <1>2

LEMMA ExpectedStep == ControlInv /\ ControlStep => ExpectedIsPast'
  <1> SUFFICES ASSUME ControlInv, ControlStep, NEW i \in DOMAIN requests'
               PROVE  Exists(requests[i].task)' /\ requests'[i].expected <= tasks'[requests'[i].task].revision
    BY DEF ExpectedIsPast
  <1>1. TypeOK /\ TypeOK' /\ RequestType /\ RequestType'
    BY DEF ControlInv, ControlStep, StoreInv
  <1>2. CASE i \in DOMAIN requests
    <2> DEFINE t == requests[i].task
    <2>1. requests'[i].task = t /\ requests'[i].expected = requests[i].expected
      BY <1>2 DEF ControlStep, RequestStep, SameRequest
    <2>2. t \in Tasks /\ requests[i].expected \in Nat
      BY <1>1, <1>2, RequestRowOf
    <2>3. tasks[t].revision \in Nat /\ tasks'[t].revision \in Nat
      BY <1>1, <2>2, RevisionIsNat
    <2>4. Exists(t) /\ requests[i].expected <= tasks[t].revision
      BY <1>2 DEF ControlInv, ExpectedIsPast
    <2>5. tasks'[t].state # "ABSENT" /\ tasks'[t].revision >= tasks[t].revision
      BY <2>2, <2>4 DEF ControlStep, StoreStep, TasksAdvance, Exists
    <2> QED
      BY <2>1, <2>2, <2>3, <2>4, <2>5 DEF Exists
  <1>3. CASE i \notin DOMAIN requests
    <2>1. Added(i)
      BY <1>3 DEF ControlStep, RequestStep
    <2>2. UNCHANGED vars
      BY <1>3 DEF ControlStep, Apart
    <2>3. requests'[i].task \in Tasks /\ requests'[i].expected \in Nat
      BY <1>1, NextRequestRowOf
    <2> QED
      BY <2>1, <2>2, <2>3 DEF Added, Exists, vars
  <1> QED
    BY <1>2, <1>3

LEMMA EpochAssignmentStep == ControlInv /\ ControlStep => EpochIsAssignment'
  <1> SUFFICES ASSUME ControlInv, ControlStep, NEW r \in Runs, Bound(r)',
                      bindings'[r].epoch = tasks'[bindings'[r].task].revision
               PROVE  tasks'[bindings'[r].task].state \in {"RUNNING", "REVIEW"}
    BY DEF EpochIsAssignment
  <1>1. TypeOK /\ TypeOK'
    BY DEF ControlInv, ControlStep, StoreInv
  <1>2. CASE Bound(r)
    <2> DEFINE t == bindings[r].task
    <2>1. bindings'[r].task = t /\ bindings'[r].epoch = bindings[r].epoch /\ t \in Tasks
      BY <1>2 DEF ControlStep, StoreStep, RowsKept, Bound
    <2>2. bindings[r].epoch <= tasks[t].revision
      BY <1>2 DEF ControlInv, StoreInv, RowsBounded
    <2>3. tasks'[t] = tasks[t] \/ tasks'[t].revision > tasks[t].revision
      BY <2>1 DEF ControlStep
    <2>4. bindings[r].epoch \in Nat /\ tasks[t].revision \in Nat /\ tasks'[t].revision \in Nat
      BY <1>1, <1>2, <2>1, RevisionIsNat, BoundAssumption, NullAssumption
         DEF TypeOK, BindingRow, NoBinding, Bound
    <2>5. tasks'[t] = tasks[t]
      BY <2>1, <2>2, <2>3, <2>4
    <2> QED
      BY <1>2, <2>1, <2>5 DEF ControlInv, EpochIsAssignment
  <1>3. CASE ~Bound(r)
    <2>1. Fresh(r)
      BY <1>3 DEF Fresh
    <2>2. bindings'[r].role \in {"worker", "reviewer"}
      BY <1>1, NullAssumption DEF TypeOK, BindingRow, NoBinding, Bound
    <2> QED
      BY <2>1, <2>2 DEF ControlStep, StoreStep, FreshRows
  <1> QED
    BY <1>2, <1>3

LEMMA FreshGoStep == ControlInv /\ ControlStep => FreshGoIsApplicable'
  <1> SUFFICES ASSUME ControlInv, ControlStep, NEW i \in DOMAIN requests', requests'[i].command = "GO",
                      requests'[i].expected = tasks'[requests'[i].task].revision
               PROVE  GoApplicable(requests[i].task)'
    BY DEF FreshGoIsApplicable, IsGo
  <1>1. TypeOK /\ TypeOK' /\ RequestType /\ RequestType'
    BY DEF ControlInv, ControlStep, StoreInv
  <1>2. CASE i \in DOMAIN requests
    <2> DEFINE t == requests[i].task
    <2>1. requests'[i].task = t /\ requests'[i].expected = requests[i].expected /\ IsGo(i)
      BY <1>2 DEF ControlStep, RequestStep, SameRequest, IsGo
    <2>2. t \in Tasks /\ requests[i].expected \in Nat
      BY <1>1, <1>2, RequestRowOf
    <2>3. tasks[t].revision \in Nat /\ tasks'[t].revision \in Nat
      BY <1>1, <2>2, RevisionIsNat
    <2>4. requests[i].expected <= tasks[t].revision
      BY <1>2 DEF ControlInv, ExpectedIsPast
    <2>5. tasks'[t] = tasks[t] \/ tasks'[t].revision > tasks[t].revision
      BY <2>2 DEF ControlStep
    <2>6. tasks'[t] = tasks[t] /\ tasks[t].revision = requests[i].expected
      BY <2>1, <2>2, <2>3, <2>4, <2>5
    <2>7. GoApplicable(t)
      BY <1>2, <2>1, <2>6 DEF ControlInv, FreshGoIsApplicable
    <2>8. ASSUME NEW q \in Runs, bindings'[q].task = t, bindings'[q].role = "worker",
                 bindings'[q].state = "active"
          PROVE  FALSE
      <3>1. CASE Bound(q)
        <4>1. bindings[q].task = t /\ bindings[q].role = "worker" /\ bindings[q].state = "active"
          BY <2>8, <3>1 DEF ControlStep, StoreStep, RowsKept
        <4> QED
          BY <2>7, <4>1 DEF GoApplicable, ActiveWorkers, Workers
      <3>2. CASE ~Bound(q)
        <4>1. Fresh(q)
          BY <2>2, <2>8, <3>2 DEF Fresh, Bound
        <4>2. bindings'[q].epoch = tasks'[t].revision /\ bindings'[q].epoch = tasks[t].revision + 1
          BY <2>8, <4>1 DEF ControlStep, StoreStep, FreshRows
        <4> QED
          BY <2>3, <2>6, <4>2
      <3> QED
        BY <3>1, <3>2
    <2> QED
      BY <2>1, <2>6, <2>7, <2>8 DEF GoApplicable, ActiveWorkers, Workers
  <1>3. CASE i \notin DOMAIN requests
    <2>1. Added(i) /\ UNCHANGED vars
      BY <1>3 DEF ControlStep, RequestStep, Apart
    <2> QED
      BY <2>1 DEF Added, GoApplicable, ActiveWorkers, Workers, vars
  <1> QED
    BY <1>2, <1>3

LEMMA NoRunStep == ControlInv /\ ControlStep /\ FreshGoIsApplicable' => NoRunAtExpected'
  <1> SUFFICES ASSUME ControlInv, ControlStep, FreshGoIsApplicable',
                      NEW i \in DOMAIN requests', NEW r \in Runs, requests'[i].command = "GO",
                      bindings'[r].task = requests'[i].task,
                      bindings'[r].epoch = requests'[i].expected
               PROVE  FALSE
    BY DEF NoRunAtExpected, IsGo
  <1>1. TypeOK /\ TypeOK' /\ RequestType /\ RequestType'
    BY DEF ControlInv, ControlStep, StoreInv
  <1>2. requests'[i].task \in Tasks /\ requests'[i].expected \in Nat
    BY <1>1, NextRequestRowOf
  <1>3. CASE i \in DOMAIN requests
    <2> DEFINE t == requests[i].task
    <2>1. requests'[i].task = t /\ requests'[i].expected = requests[i].expected /\ IsGo(i)
      BY <1>3 DEF ControlStep, RequestStep, SameRequest, IsGo
    <2>2. CASE Bound(r)
      <3>1. bindings[r].task = t /\ bindings[r].epoch = requests[i].expected
        BY <2>1, <2>2 DEF ControlStep, StoreStep, RowsKept
      <3> QED
        BY <1>3, <2>1, <3>1 DEF ControlInv, NoRunAtExpected
    <2>3. CASE ~Bound(r)
      <3>1. Fresh(r)
        BY <1>2, <2>3 DEF Fresh, Bound
      <3>2. bindings'[r].role \in {"worker", "reviewer"}
        BY <1>1, <1>2, NullAssumption DEF TypeOK, BindingRow, NoBinding
      <3>3. bindings'[r].epoch = tasks'[t].revision
        BY <2>1, <3>1 DEF ControlStep, StoreStep, FreshRows
      <3>4. tasks'[t].state \in {"RUNNING", "REVIEW"}
        BY <2>1, <3>1, <3>2 DEF ControlStep, StoreStep, FreshRows
      <3>5. GoApplicable(requests[i].task)'
        BY <2>1, <3>3 DEF FreshGoIsApplicable, IsGo
      <3> QED
        BY <2>1, <3>4, <3>5 DEF GoApplicable
    <2> QED
      BY <2>2, <2>3
  <1>4. CASE i \notin DOMAIN requests
    <2>1. Added(i) /\ UNCHANGED vars
      BY <1>4 DEF ControlStep, RequestStep, Apart
    <2>2. bindings[r].task \in Tasks /\ bindings[r].epoch = tasks[bindings[r].task].revision
          /\ GoApplicable(bindings[r].task)
      BY <1>2, <2>1 DEF Added, vars
    <2> QED
      BY <2>2 DEF ControlInv, EpochIsAssignment, Bound, GoApplicable
  <1> QED
    BY <1>3, <1>4

LEMMA OutstandingStays ==
  ASSUME ControlStep, NEW i \in DOMAIN requests, requests'[i].state \in Outstanding
  PROVE  requests[i].state \in Outstanding
  BY DEF ControlStep, RequestStep, Moves, Outstanding, Claimable

LEMMA OneGoStep == ControlInv /\ ControlStep => OneOutstandingGo'
  <1> SUFFICES ASSUME ControlInv, ControlStep, NEW i \in DOMAIN requests', NEW j \in DOMAIN requests',
                      requests'[i].command = "GO", requests'[i].state \in Outstanding,
                      requests'[j].command = "GO", requests'[j].state \in Outstanding,
                      requests'[i].task = requests'[j].task,
                      requests'[i].expected = requests'[j].expected
               PROVE  i = j
    BY DEF OneOutstandingGo, IsGo
  <1>1. ASSUME NEW k \in DOMAIN requests, requests'[k].state \in Outstanding
        PROVE  /\ requests[k].state \in Outstanding
               /\ requests[k].task = requests'[k].task
               /\ requests[k].expected = requests'[k].expected
               /\ requests[k].command = requests'[k].command
    BY <1>1, OutstandingStays DEF ControlStep, RequestStep, SameRequest
  <1>2. ASSUME NEW k \in DOMAIN requests' \ DOMAIN requests, NEW l \in DOMAIN requests,
               requests'[k].command = "GO",
               requests'[l].command = "GO", requests'[l].state \in Outstanding,
               requests'[k].task = requests'[l].task,
               requests'[k].expected = requests'[l].expected
        PROVE  FALSE
    BY <1>1, <1>2 DEF ControlStep, RequestStep, Added, OutstandingGo
  <1>3. CASE i \in DOMAIN requests /\ j \in DOMAIN requests
    BY <1>1, <1>3 DEF ControlInv, OneOutstandingGo, IsGo
  <1>4. CASE i \notin DOMAIN requests /\ j \notin DOMAIN requests
    BY <1>4 DEF ControlStep, RequestStep, Added
  <1> QED
    BY <1>2, <1>3, <1>4

LEMMA LaunchedStep == ControlInv /\ ControlStep => CompletedGoWasLaunched'
  <1> SUFFICES ASSUME ControlInv, ControlStep, NEW i \in DOMAIN requests', requests'[i].command = "GO",
                      requests'[i].state = "COMPLETED"
               PROVE  /\ requests'[i].child \in Workers(requests[i].task)'
                      /\ bindings'[requests'[i].child].parent = requests'[i].parent
                      /\ bindings'[requests'[i].child].epoch > requests'[i].expected
    BY DEF CompletedGoWasLaunched, IsGo
  <1>1. TypeOK /\ RequestType
    BY DEF ControlInv, StoreInv
  <1>2. i \in DOMAIN requests
    BY DEF ControlStep, RequestStep, Added
  <1>3. requests'[i].task = requests[i].task /\ requests'[i].expected = requests[i].expected /\ IsGo(i)
    BY <1>2 DEF ControlStep, RequestStep, SameRequest, IsGo
  <1> DEFINE r == requests'[i].child
  <1>4. /\ r \in Workers(requests[i].task)
        /\ bindings[r].parent = requests'[i].parent
        /\ bindings[r].epoch > requests[i].expected
    <2>1. CASE requests'[i] = requests[i]
      BY <1>2, <1>3, <2>1 DEF ControlInv, CompletedGoWasLaunched
    <2>2. CASE requests'[i] # requests[i]
      <3>1. r \in Runs /\ Answers(i, r) /\ requests'[i].parent = requests[i].parent
        BY <1>2, <1>3, <2>2 DEF ControlStep, RequestStep, Moves
      <3>2. bindings[r].epoch # requests[i].expected
        BY <1>2, <1>3, <3>1 DEF ControlInv, NoRunAtExpected, Answers, Workers
      <3>3. bindings[r].epoch \in Nat /\ requests[i].expected \in Nat
        BY <1>1, <1>2, <3>1, RequestRowOf, BoundAssumption, NullAssumption
           DEF TypeOK, BindingRow, NoBinding
      <3> QED
        BY <3>1, <3>2, <3>3 DEF Answers
    <2> QED
      BY <2>1, <2>2
  <1>5. Bound(r) /\ r \in Runs
    BY <1>1, <1>2, <1>4, RequestRowOf DEF Workers, Bound
  <1>6. /\ bindings'[r].task = bindings[r].task /\ bindings'[r].role = bindings[r].role
        /\ bindings'[r].parent = bindings[r].parent /\ bindings'[r].epoch = bindings[r].epoch
    BY <1>5 DEF ControlStep, StoreStep, RowsKept
  <1> QED
    BY <1>3, <1>4, <1>5, <1>6 DEF Workers

LEMMA ControlInvInit == ControlInit => ControlInv
  <1> SUFFICES ASSUME ControlInit PROVE ControlInv
    OBVIOUS
  <1>1. StoreInv
    BY StoreInvInit DEF ControlInit
  <1>2. \A r \in Runs : ~Bound(r)
    BY NullAssumption DEF ControlInit, Init, Bound, NoBinding
  <1>3. requests = << >> /\ requests \in Seq(RequestRow)
    BY DEF ControlInit
  <1> QED
    BY <1>1, <1>2, <1>3 DEF ControlInv, RequestType, ExpectedIsPast, EpochIsAssignment,
       FreshGoIsApplicable, NoRunAtExpected, OneOutstandingGo, CompletedGoWasLaunched

LEMMA ControlInvStep == ControlInv /\ [ControlNext]_cvars => ControlInv'
  <1> SUFFICES ASSUME ControlInv, [ControlNext]_cvars PROVE ControlInv'
    OBVIOUS
  <1>1. ControlStep
    BY StepIsControlStep
  <1>2. StoreInv' /\ RequestType'
    BY <1>1 DEF ControlStep
  <1>3. FreshGoIsApplicable'
    BY <1>1, FreshGoStep
  <1> QED
    BY <1>1, <1>2, <1>3, ExpectedStep, EpochAssignmentStep, NoRunStep, OneGoStep, LaunchedStep DEF ControlInv

LEMMA ControlInvariant == ControlSpec => []ControlInv
  BY ControlInvInit, ControlInvStep, PTL DEF ControlSpec

---------------------------------------------------------------------------
(* The list of claims *)

\* claims lists the CLAIMED requests and nothing else, each once.
ClaimsAgree ==
    /\ claims \in Seq(DOMAIN requests)
    /\ \A i \in DOMAIN requests : requests[i].state = "CLAIMED" <=> \E n \in DOMAIN claims : claims[n] = i
    /\ \A m, n \in DOMAIN claims : claims[m] = claims[n] => m = n

\* Removing one place of the list keeps every other entry.
LEMMA PlaceRemoved ==
  ASSUME ClaimsAgree, NEW k \in DOMAIN claims,
         NEW d \in [1..(Len(claims) - 1) -> DOMAIN requests],
         \A n \in DOMAIN d : d[n] = IF n < k THEN claims[n] ELSE claims[n + 1]
  PROVE  /\ d \in Seq(DOMAIN requests)
         /\ \A m, n \in DOMAIN d : d[m] = d[n] => m = n
         /\ \A x : (\E n \in DOMAIN d : d[n] = x) <=> (\E n \in DOMAIN claims : claims[n] = x) /\ x # claims[k]
  <1>1. Len(claims) \in Nat /\ DOMAIN claims = 1..Len(claims) /\ k \in 1..Len(claims) /\ Len(claims) - 1 \in Nat
        /\ \A m, n \in DOMAIN claims : claims[m] = claims[n] => m = n
    BY DEF ClaimsAgree
  <1>2. DOMAIN d = 1..(Len(claims) - 1)
    OBVIOUS
  <1> DEFINE at(n) == IF n < k THEN n ELSE n + 1
  <1>3. \A n \in DOMAIN d : at(n) \in DOMAIN claims /\ at(n) # k /\ d[n] = claims[at(n)]
    BY <1>1, <1>2
  <1>4. d \in Seq(DOMAIN requests)
    BY <1>1
  <1>5. ASSUME NEW m \in DOMAIN d, NEW n \in DOMAIN d, d[m] = d[n] PROVE m = n
    <2>1. at(m) = at(n)
      BY <1>1, <1>3, <1>5
    <2> QED
      BY <1>1, <1>2, <2>1
  <1>6. ASSUME NEW x, NEW n \in DOMAIN d, d[n] = x PROVE (\E m \in DOMAIN claims : claims[m] = x) /\ x # claims[k]
    BY <1>1, <1>3, <1>6
  <1>7. ASSUME NEW x, NEW m \in DOMAIN claims, claims[m] = x, x # claims[k] PROVE \E n \in DOMAIN d : d[n] = x
    <2>1. m < k \/ m > k
      BY <1>1, <1>7
    <2>2. CASE m < k
      BY <1>1, <1>2, <1>7, <2>2
    <2>3. CASE m > k
      <3>1. m - 1 \in DOMAIN d /\ at(m - 1) = m
        BY <1>1, <1>2, <2>3
      <3> QED
        BY <1>3, <1>7, <3>1
    <2> QED
      BY <2>1, <2>2, <2>3
  <1> QED
    BY <1>4, <1>5, <1>6, <1>7

LEMMA ClaimsWithout ==
  ASSUME ClaimsAgree, NEW i
  PROVE  /\ Unclaimed(i) \in Seq(DOMAIN requests)
         /\ \A m, n \in DOMAIN Unclaimed(i) : Unclaimed(i)[m] = Unclaimed(i)[n] => m = n
         /\ \A x : (\E n \in DOMAIN Unclaimed(i) : Unclaimed(i)[n] = x) <=> (\E n \in DOMAIN claims : claims[n] = x) /\ x # i
  <1>1. CASE \E n \in DOMAIN claims : claims[n] = i
    <2> DEFINE k == CHOOSE n \in DOMAIN claims : claims[n] = i
               d == [n \in 1..(Len(claims) - 1) |-> IF n < k THEN claims[n] ELSE claims[n + 1]]
    <2>1. k \in DOMAIN claims /\ claims[k] = i
      BY <1>1
    <2>2. Unclaimed(i) = d
      BY <1>1 DEF Unclaimed
    <2>3. /\ claims \in Seq(DOMAIN requests)
          /\ \A m, n \in DOMAIN claims : claims[m] = claims[n] => m = n
      BY DEF ClaimsAgree
    <2> HIDE DEF k
    <2>4. /\ d \in [1..(Len(claims) - 1) -> DOMAIN requests]
          /\ \A n \in DOMAIN d : d[n] = IF n < k THEN claims[n] ELSE claims[n + 1]
      BY <2>1, <2>3
    <2> HIDE DEF d
    <2>5. /\ d \in Seq(DOMAIN requests)
          /\ \A m, n \in DOMAIN d : d[m] = d[n] => m = n
          /\ \A x : (\E n \in DOMAIN d : d[n] = x) <=> (\E n \in DOMAIN claims : claims[n] = x) /\ x # claims[k]
      BY <2>1, <2>4, PlaceRemoved
    <2> QED
      BY <2>1, <2>2, <2>5
  <1>2. CASE ~ \E n \in DOMAIN claims : claims[n] = i
    BY <1>2 DEF ClaimsAgree, Unclaimed
  <1> QED
    BY <1>1, <1>2

LEMMA ClaimsStay ==
  ASSUME ClaimsAgree, claims' = claims, DOMAIN requests \subseteq DOMAIN requests',
         \A i \in DOMAIN requests' : requests'[i].state = "CLAIMED" <=> i \in DOMAIN requests /\ requests[i].state = "CLAIMED"
  PROVE  ClaimsAgree'
  <1>1. claims \in Seq(DOMAIN requests) /\ claims \in Seq(DOMAIN requests')
    BY DEF ClaimsAgree
  <1>2. \A n \in DOMAIN claims : claims[n] \in DOMAIN requests
    BY <1>1
  <1> QED
    BY <1>1, <1>2 DEF ClaimsAgree

LEMMA ClaimAdded ==
  ASSUME ClaimsAgree, NEW i \in DOMAIN requests, claims' = Append(claims, i), requests[i].state # "CLAIMED",
         DOMAIN requests' = DOMAIN requests, requests'[i].state = "CLAIMED",
         \A j \in DOMAIN requests \ {i} : requests'[j] = requests[j]
  PROVE  ClaimsAgree'
  <1>1. claims \in Seq(DOMAIN requests) /\ \A n \in DOMAIN claims : claims[n] # i
    BY DEF ClaimsAgree
  <1>2. /\ claims' \in Seq(DOMAIN requests) /\ Len(claims) \in Nat
        /\ DOMAIN claims = 1..Len(claims) /\ DOMAIN claims' = 1..(Len(claims) + 1)
        /\ \A n \in DOMAIN claims : claims'[n] = claims[n]
        /\ claims'[Len(claims) + 1] = i
    BY <1>1
  <1>3. \A n \in DOMAIN claims' : n \in DOMAIN claims \/ n = Len(claims) + 1
    BY <1>2
  <1>4. \A m, n \in DOMAIN claims' : claims'[m] = claims'[n] => m = n
    BY <1>1, <1>2, <1>3 DEF ClaimsAgree
  <1>5. \A j \in DOMAIN requests : (\E n \in DOMAIN claims' : claims'[n] = j) <=> (j = i \/ \E n \in DOMAIN claims : claims[n] = j)
    BY <1>2, <1>3
  <1> QED
    BY <1>2, <1>4, <1>5 DEF ClaimsAgree

LEMMA ClaimRemoved ==
  ASSUME ClaimsAgree, NEW i, claims' = Unclaimed(i), DOMAIN requests' = DOMAIN requests,
         i \in DOMAIN requests => requests'[i].state # "CLAIMED",
         \A j \in DOMAIN requests \ {i} : requests'[j] = requests[j]
  PROVE  ClaimsAgree'
  <1> DEFINE u == Unclaimed(i)
  <1>1. /\ u \in Seq(DOMAIN requests)
        /\ \A m, n \in DOMAIN u : u[m] = u[n] => m = n
        /\ \A x : (\E n \in DOMAIN u : u[n] = x) <=> (\E n \in DOMAIN claims : claims[n] = x) /\ x # i
    BY ClaimsWithout
  <1>2. claims' = u
    OBVIOUS
  <1> HIDE DEF u
  <1>3. \A j \in DOMAIN requests :
           requests'[j].state = "CLAIMED" <=> (\E n \in DOMAIN claims : claims[n] = j) /\ j # i
    BY DEF ClaimsAgree
  <1>4. \A j \in DOMAIN requests : requests'[j].state = "CLAIMED" <=> \E n \in DOMAIN u : u[n] = j
    BY <1>1, <1>3
  <1> QED
    BY <1>1, <1>2, <1>4 DEF ClaimsAgree

---------------------------------------------------------------------------
(* Types of the control plane *)

\* What a process remembers of the requests names rows that are there.
MemoryOK ==
    /\ Len(requests) <= MaxRequests
    /\ phase \in [Sessions -> Phases]
    /\ candidate \in [Sessions -> 0..Len(requests)]
    /\ ringing \in [Sessions -> SUBSET (DOMAIN requests)]

TypesInv == TypeOK /\ RequestType /\ ClaimsAgree /\ MemoryOK

LEMMA TypesInvInit == ControlInit => TypesInv
  <1> SUFFICES ASSUME ControlInit PROVE TypesInv
    OBVIOUS
  <1>1. requests = << >> /\ claims = << >> /\ Len(requests) = 0 /\ DOMAIN requests = {}
    BY DEF ControlInit
  <1>2. TypeOK
    BY InitType DEF ControlInit
  <1>3. MemoryOK
    BY <1>1, RequestAssumption DEF ControlInit, MemoryOK, Phases
  <1>4. RequestType /\ ClaimsAgree
    BY <1>1 DEF RequestType, ClaimsAgree
  <1> QED
    BY <1>2, <1>3, <1>4 DEF TypesInv

\* The rows of the other requests stay, and so does their number.
LEMMA OneRowChanged ==
  ASSUME RequestType, NEW i, NEW q, requests' = [requests EXCEPT ![i] = q]
  PROVE  /\ DOMAIN requests' = DOMAIN requests /\ Len(requests') = Len(requests)
         /\ \A j \in DOMAIN requests \ {i} : requests'[j] = requests[j]
         /\ i \in DOMAIN requests => requests'[i] = q
  BY DEF RequestType

LEMMA PostTypes ==
  ASSUME TypesInv, NEW s \in Sessions, NEW t \in Tasks, NEW c \in Commands,
         NEW r \in Runs \cup {Null}, Post(s, t, c, r)
  PROVE  ClaimsAgree' /\ MemoryOK'
  <1> DEFINE q == [task |-> t, expected |-> tasks[t].revision, command |-> c,
                   state |-> "REQUESTED", target |-> r, origin |-> s, parent |-> s, child |-> Null]
  <1>1. requests' = Append(requests, q) /\ claims' = claims /\ q.state = "REQUESTED"
    BY DEF Post
  <1>2. requests \in Seq(RequestRow)
    BY DEF TypesInv, RequestType
  <1> HIDE DEF q
  <1>3. /\ Len(requests) \in Nat /\ Len(requests') = Len(requests) + 1
        /\ DOMAIN requests = 1..Len(requests) /\ DOMAIN requests' = 1..(Len(requests) + 1)
        /\ \A i \in DOMAIN requests : requests'[i] = requests[i]
        /\ requests'[Len(requests) + 1] = q
    BY <1>1, <1>2
  <1>4. \A i \in DOMAIN requests' : i \in DOMAIN requests \/ i = Len(requests) + 1
    BY <1>3
  <1>5. ClaimsAgree'
    <2>1. DOMAIN requests \subseteq DOMAIN requests'
      BY <1>3
    <2>2. \A i \in DOMAIN requests' :
             requests'[i].state = "CLAIMED" <=> i \in DOMAIN requests /\ requests[i].state = "CLAIMED"
      BY <1>1, <1>3, <1>4
    <2> QED
      BY <1>1, <2>1, <2>2, ClaimsStay DEF TypesInv
  <1>6. MemoryOK'
    <2>1. Len(requests') <= MaxRequests
      BY <1>3, RequestAssumption DEF Post
    <2>2. phase' \in [Sessions -> Phases] /\ candidate' \in [Sessions -> 0..Len(requests')]
      BY <1>3 DEF Post, TypesInv, MemoryOK
    <2>3. ringing' \in [Sessions -> SUBSET (DOMAIN requests')]
      BY <1>3 DEF Post, TypesInv, MemoryOK
    <2> QED
      BY <2>1, <2>2, <2>3 DEF MemoryOK
  <1> QED
    BY <1>5, <1>6

\* A step that keeps the number of requests and changes the memory of one session.
LEMMA MemoryKept ==
  ASSUME TypesInv, DOMAIN requests' = DOMAIN requests, Len(requests') = Len(requests), NEW s \in Sessions,
         \/ phase' = phase
         \/ \E p \in Phases : phase' = [phase EXCEPT ![s] = p],
         \/ candidate' = candidate
         \/ \E i \in 0..Len(requests) : candidate' = [candidate EXCEPT ![s] = i],
         \/ ringing' = ringing
         \/ \E R \in SUBSET (DOMAIN requests) : ringing' = [ringing EXCEPT ![s] = R]
  PROVE  MemoryOK'
  <1>1. phase' \in [Sessions -> Phases]
    BY DEF TypesInv, MemoryOK
  <1>2. candidate' \in [Sessions -> 0..Len(requests')]
    BY DEF TypesInv, MemoryOK
  <1>3. ringing' \in [Sessions -> SUBSET (DOMAIN requests')]
    BY DEF TypesInv, MemoryOK
  <1> QED
    BY <1>1, <1>2, <1>3 DEF TypesInv, MemoryOK

LEMMA QuietTypes ==
  ASSUME TypesInv, requests' = requests, claims' = claims, NEW s \in Sessions,
         \/ phase' = phase
         \/ \E p \in Phases : phase' = [phase EXCEPT ![s] = p],
         \/ candidate' = candidate
         \/ \E i \in 0..Len(requests) : candidate' = [candidate EXCEPT ![s] = i],
         \/ ringing' = ringing
         \/ \E R \in SUBSET (DOMAIN requests) : ringing' = [ringing EXCEPT ![s] = R]
  PROVE  ClaimsAgree' /\ MemoryOK'
  <1>1. ClaimsAgree'
    BY DEF TypesInv, ClaimsAgree
  <1>2. MemoryOK'
    BY MemoryKept
  <1> QED
    BY <1>1, <1>2

LEMMA SessionTypes ==
  ASSUME TypesInv, NEW s \in Sessions, SessionStart(s) \/ SessionStop(s) \/ RecoverNext(s)
  PROVE  ClaimsAgree' /\ MemoryOK'
  <1>1. Len(requests) \in Nat /\ DOMAIN requests = 1..Len(requests)
    BY DEF TypesInv, RequestType
  <1>2. CASE SessionStart(s)
    <2>1. claims # << >> => Head(claims) \in 0..Len(requests)
      BY <1>1 DEF TypesInv, ClaimsAgree
    <2>2. /\ requests' = requests /\ claims' = claims /\ ringing' = ringing
          /\ \E p \in Phases : phase' = [phase EXCEPT ![s] = p]
          /\ \/ candidate' = candidate
             \/ \E i \in 0..Len(requests) : candidate' = [candidate EXCEPT ![s] = i]
      BY <1>2, <2>1 DEF SessionStart, Phases
    <2> QED
      BY <2>2, QuietTypes
  <1>3. CASE SessionStop(s)
    <2>1. "down" \in Phases /\ 0 \in 0..Len(requests) /\ {} \in SUBSET (DOMAIN requests)
      BY <1>1 DEF Phases
    <2>2. /\ requests' = requests /\ claims' = claims /\ phase' = [phase EXCEPT ![s] = "down"]
          /\ candidate' = [candidate EXCEPT ![s] = 0] /\ ringing' = [ringing EXCEPT ![s] = {}]
      BY <1>3 DEF SessionStop
    <2> QED
      BY <2>1, <2>2, QuietTypes
  <1>4. CASE RecoverNext(s)
    <2>1. NextUndelivered \in SUBSET (DOMAIN requests)
      BY DEF NextUndelivered, Oldest
    <2>2. /\ requests' = requests /\ claims' = claims /\ candidate' = candidate
          /\ \E p \in Phases : phase' = [phase EXCEPT ![s] = p]
          /\ \E R \in SUBSET (DOMAIN requests) : ringing' = [ringing EXCEPT ![s] = R]
      BY <1>4, <2>1 DEF RecoverNext, Phases
    <2> QED
      BY <2>2, QuietTypes
  <1> QED
    BY <1>2, <1>3, <1>4

LEMMA RingTypes ==
  ASSUME TypesInv, NEW s \in Sessions, NEW i \in DOMAIN requests, PostAgain(s, i) \/ RingFails(s, i)
  PROVE  ClaimsAgree' /\ MemoryOK'
  <1>1. ringing[s] \cup {i} \in SUBSET (DOMAIN requests) /\ ringing[s] \ {i} \in SUBSET (DOMAIN requests)
    BY DEF TypesInv, MemoryOK
  <1>2. /\ requests' = requests /\ claims' = claims /\ phase' = phase /\ candidate' = candidate
        /\ \E R \in SUBSET (DOMAIN requests) : ringing' = [ringing EXCEPT ![s] = R]
    BY <1>1 DEF PostAgain, RingFails
  <1> QED
    BY <1>2, QuietTypes

LEMMA MarkTypes ==
  ASSUME TypesInv, NEW s \in Sessions, NEW i \in DOMAIN requests, MarkDelivered(s, i)
  PROVE  ClaimsAgree' /\ MemoryOK'
  <1>1. RequestType /\ requests[i] \in RequestRow
    BY DEF TypesInv, RequestType
  <1> DEFINE q == [requests[i] EXCEPT !.state = DeliveredState(i)]
  <1>2. q.state = "CLAIMED" <=> requests[i].state = "CLAIMED"
    BY <1>1 DEF RequestRow, DeliveredState
  <1>3. requests' = [requests EXCEPT ![i] = q] /\ claims' = claims
    BY DEF MarkDelivered
  <1> HIDE DEF q
  <1>4. /\ DOMAIN requests' = DOMAIN requests /\ Len(requests') = Len(requests)
        /\ \A j \in DOMAIN requests \ {i} : requests'[j] = requests[j]
        /\ requests'[i] = q
    BY <1>1, <1>3, OneRowChanged
  <1>5. ClaimsAgree'
    BY <1>2, <1>3, <1>4, ClaimsStay DEF TypesInv
  <1>6. ringing[s] \ {i} \in SUBSET (DOMAIN requests)
    BY DEF TypesInv, MemoryOK
  <1>7. /\ phase' = phase /\ candidate' = candidate
        /\ \E R \in SUBSET (DOMAIN requests) : ringing' = [ringing EXCEPT ![s] = R]
    BY <1>6 DEF MarkDelivered
  <1>8. MemoryOK'
    BY <1>4, <1>7, MemoryKept
  <1> QED
    BY <1>5, <1>8

LEMMA ClaimTypes ==
  ASSUME TypesInv, NEW s \in Sessions, NEW i \in DOMAIN requests, Claim(s, i)
  PROVE  ClaimsAgree' /\ MemoryOK'
  <1>1. RequestType /\ requests[i] \in RequestRow /\ requests[i].state # "CLAIMED"
    BY DEF TypesInv, RequestType, Claim, Claimable
  <1> DEFINE q == [requests[i] EXCEPT !.state = "CLAIMED", !.parent = s]
  <1>2. q.state = "CLAIMED"
    BY <1>1 DEF RequestRow
  <1>3. requests' = [requests EXCEPT ![i] = q] /\ claims' = Append(claims, i)
    BY <1>1 DEF Claim, RequestType, RequestRow
  <1> HIDE DEF q
  <1>4. /\ DOMAIN requests' = DOMAIN requests /\ Len(requests') = Len(requests)
        /\ \A j \in DOMAIN requests \ {i} : requests'[j] = requests[j]
        /\ requests'[i] = q
    BY <1>1, <1>3, OneRowChanged
  <1>5. ClaimsAgree'
    BY <1>1, <1>2, <1>3, <1>4, ClaimAdded DEF TypesInv
  <1>6. phase' = phase /\ candidate' = candidate /\ ringing' = ringing
    BY DEF Claim
  <1>7. MemoryOK'
    BY <1>4, <1>6, MemoryKept
  <1> QED
    BY <1>5, <1>7

LEMMA EndTypes ==
  ASSUME TypesInv, NEW s \in Sessions, NEW i \in DOMAIN requests,
         Fail(s, i) \/ \E r \in Runs \cup {Null} : Complete(s, i, r)
  PROVE  ClaimsAgree' /\ MemoryOK'
  <1>1. RequestType /\ requests[i] \in RequestRow
    BY DEF TypesInv, RequestType
  <1>2. PICK q : requests' = [requests EXCEPT ![i] = q] /\ q.state # "CLAIMED"
    <2>1. CASE Fail(s, i)
      <3>1. [requests[i] EXCEPT !.state = "FAILED"].state # "CLAIMED"
        BY <1>1 DEF RequestRow
      <3> QED
        BY <2>1, <3>1 DEF Fail
    <2>2. ASSUME NEW r \in Runs \cup {Null}, Complete(s, i, r)
          PROVE  \E q : requests' = [requests EXCEPT ![i] = q] /\ q.state # "CLAIMED"
      <3>1. [requests[i] EXCEPT !.state = "COMPLETED", !.child = r].state # "CLAIMED"
        BY <1>1 DEF RequestRow
      <3>2. requests' = [requests EXCEPT ![i] = [requests[i] EXCEPT !.state = "COMPLETED", !.child = r]]
        BY <1>1, <2>2 DEF Complete, RequestType, RequestRow
      <3> QED
        BY <3>1, <3>2
    <2> QED
      BY <2>1, <2>2
  <1>3. claims' = Unclaimed(i) /\ phase' = phase /\ candidate' = candidate /\ ringing' = ringing
    BY DEF Fail, Complete
  <1>4. /\ DOMAIN requests' = DOMAIN requests /\ Len(requests') = Len(requests)
        /\ \A j \in DOMAIN requests \ {i} : requests'[j] = requests[j]
        /\ requests'[i] = q
    BY <1>1, <1>2, OneRowChanged
  <1>5. ClaimsAgree'
    BY <1>2, <1>3, <1>4, ClaimRemoved DEF TypesInv
  <1>6. MemoryOK'
    BY <1>3, <1>4, MemoryKept
  <1> QED
    BY <1>5, <1>6

LEMMA SettleTypes ==
  ASSUME TypesInv, NEW s \in Sessions, RecoverSettle(s)
  PROVE  ClaimsAgree' /\ MemoryOK'
  <1> DEFINE i == candidate[s]
             x == IF requests[i].state # "CLAIMED" THEN requests[i].state
                  ELSE IF requests[i].command = "GO" THEN "REQUESTED" ELSE "FAILED"
             q == [requests[i] EXCEPT !.state = x]
  <1>1. RequestType /\ Len(requests) \in Nat
    BY DEF TypesInv, RequestType
  <1>2. requests' = [requests EXCEPT ![i] = q] /\ claims' = Unclaimed(i)
    BY DEF RecoverSettle, Requeue
  <1>3. i \in DOMAIN requests => q.state # "CLAIMED"
    BY <1>1 DEF RequestType, RequestRow
  <1>4. /\ phase' = [phase EXCEPT ![s] = "next"] /\ "next" \in Phases
        /\ candidate' = [candidate EXCEPT ![s] = 0] /\ 0 \in 0..Len(requests)
        /\ ringing' = ringing
    BY <1>1 DEF RecoverSettle, Phases
  <1> HIDE DEF q, x, i
  <1>5. /\ DOMAIN requests' = DOMAIN requests /\ Len(requests') = Len(requests)
        /\ \A j \in DOMAIN requests \ {i} : requests'[j] = requests[j]
        /\ i \in DOMAIN requests => requests'[i] = q
    BY <1>1, <1>2, OneRowChanged
  <1>6. ClaimsAgree'
    BY <1>2, <1>3, <1>5, ClaimRemoved DEF TypesInv
  <1>7. MemoryOK'
    BY <1>4, <1>5, MemoryKept
  <1> QED
    BY <1>6, <1>7

LEMMA TypesInvStep == TypesInv /\ [ControlNext]_cvars => TypesInv'
  <1> SUFFICES ASSUME TypesInv, [ControlNext]_cvars PROVE TypesInv'
    OBVIOUS
  <1>1. TypeOK'
    BY ControlStepIsKernelStep, NextType DEF TypesInv
  <1>2. RequestType'
    BY StepIsRequestStep DEF TypesInv
  <1>3. ASSUME UNCHANGED control PROVE ClaimsAgree' /\ MemoryOK'
    BY <1>3 DEF TypesInv, ClaimsAgree, MemoryOK, control
  <1>4. CASE UNCHANGED cvars \/ StoreCall
    BY <1>1, <1>2, <1>3, <1>4 DEF cvars, StoreCall, TypesInv
  <1>5. CASE ControlNext /\ ~StoreCall
    <2>1. ClaimsAgree' /\ MemoryOK'
      BY <1>5, SessionTypes, SettleTypes, PostTypes, RingTypes, MarkTypes, ClaimTypes, EndTypes DEF ControlNext
    <2> QED
      BY <1>1, <1>2, <2>1 DEF TypesInv
  <1> QED
    BY <1>4, <1>5

LEMMA TypesInvariant == ControlSpec => []TypesInv
  BY TypesInvInit, TypesInvStep, PTL DEF ControlSpec

---------------------------------------------------------------------------
(* The theorems *)

\* However many sessions post, claim and recover at once, no two outstanding
\* GO requests were made for the same revision of a task.
THEOREM GoCoalesces == ControlSpec => []OneOutstandingGo
  <1>1. ControlInv => OneOutstandingGo
    BY DEF ControlInv
  <1> QED
    BY <1>1, ControlInvariant, PTL

\* As long as a task has the revision a GO was posted at, it is applicable.
THEOREM FreshGoApplies == ControlSpec => []FreshGoIsApplicable
  <1>1. ControlInv => FreshGoIsApplicable
    BY DEF ControlInv
  <1> QED
    BY <1>1, ControlInvariant, PTL

\* A completed GO names a worker of its task that its claimer bound after the
\* request was posted.
THEOREM CompletedGoLaunched == ControlSpec => []CompletedGoWasLaunched
  <1>1. ControlInv => CompletedGoWasLaunched
    BY DEF ControlInv
  <1> QED
    BY <1>1, ControlInvariant, PTL

\* A GO cannot be claimed any more once a run of its task was bound at or
\* after its revision.
THEOREM LaunchedGoSpent == ControlSpec => LaunchedGoIsSpent
  <1>1. ControlInv /\ [ControlNext]_cvars =>
          [\A i \in DOMAIN requests :
             IsGo(i) /\ requests[i].state # "CLAIMED" /\ requests'[i].state = "CLAIMED" =>
                \A r \in Workers(requests[i].task) \cup Reviewers(requests[i].task) :
                    bindings[r].epoch < requests[i].expected]_cvars
    <2> SUFFICES ASSUME ControlInv, [ControlNext]_cvars, NEW i \in DOMAIN requests,
                        IsGo(i), requests[i].state # "CLAIMED", requests'[i].state = "CLAIMED",
                        NEW r \in Workers(requests[i].task) \cup Reviewers(requests[i].task)
                 PROVE  bindings[r].epoch < requests[i].expected
      OBVIOUS
    <2>1. ControlStep
      BY StepIsControlStep
    <2>2. Claimable(i)
      BY <2>1 DEF ControlStep, RequestStep, Moves, IsGo
    <2>3. tasks[requests[i].task].revision = requests[i].expected
      BY <2>2 DEF Claimable, Actionable, IsGo
    <2>4. TypeOK /\ RequestType
      BY DEF ControlInv, StoreInv
    <2>5. r \in Runs /\ bindings[r].task = requests[i].task /\ bindings[r].task \in Tasks
      BY <2>4, RequestRowOf DEF Workers, Reviewers
    <2>6. bindings[r].epoch <= requests[i].expected
      BY <2>3, <2>5 DEF ControlInv, StoreInv, RowsBounded, Bound
    <2>7. bindings[r].epoch # requests[i].expected
      BY <2>5 DEF ControlInv, NoRunAtExpected
    <2>8. bindings[r].epoch \in Nat /\ requests[i].expected \in Nat
      BY <2>4, <2>5, RequestRowOf, BoundAssumption, NullAssumption DEF TypeOK, BindingRow, NoBinding
    <2> QED
      BY <2>6, <2>7, <2>8
  <1> QED
    BY <1>1, ControlInvariant, PTL DEF ControlSpec, LaunchedGoIsSpent

\* A completed or failed request never changes again, whatever recovery or
\* delivery was under way.
THEOREM RequestsEndForGood == ControlSpec => EndedForGood
  <1>1. ControlInv /\ [ControlNext]_cvars =>
          [\A i \in DOMAIN requests :
             requests[i].state \in {"COMPLETED", "FAILED"} => requests'[i] = requests[i]]_cvars
    BY StepIsControlStep DEF ControlStep, RequestStep, Moves, Claimable, Outstanding
  <1> QED
    BY <1>1, ControlInvariant, PTL DEF ControlSpec, EndedForGood

\* A claim ends by completing, failing or being queued again by a recovery,
\* never by a doorbell that was rung late.
THEOREM ClaimsOutliveDelivery == ControlSpec => ClaimOutlivesDelivery
  <1>1. ControlInv /\ [ControlNext]_cvars =>
          [\A i \in DOMAIN requests :
             requests[i].state = "CLAIMED" =>
                requests'[i].state \in {"CLAIMED", "COMPLETED", "FAILED"}
                                       \cup (IF IsGo(i) THEN {"REQUESTED"} ELSE {})]_cvars
    BY StepIsControlStep DEF ControlStep, RequestStep, Moves, Claimable, Outstanding
  <1> QED
    BY <1>1, ControlInvariant, PTL DEF ControlSpec, ClaimOutlivesDelivery

\* The claims in the order of claimed_at are the CLAIMED rows, whoever claims,
\* completes, fails or recovers them; a recovery settles, and a server rings
\* for, rows that are there.
THEOREM ControlTypeCorrect == ControlSpec => []ControlTypeOK
  <1>1. TypesInv => ControlTypeOK
    <2> SUFFICES ASSUME TypesInv PROVE ControlTypeOK
      OBVIOUS
    <2>1. claims \in Seq(DOMAIN requests)
      BY DEF TypesInv, ClaimsAgree
    <2>2. { claims[n] : n \in DOMAIN claims } = { i \in DOMAIN requests : requests[i].state = "CLAIMED" }
      BY <2>1 DEF TypesInv, ClaimsAgree
    <2> QED
      BY <2>1, <2>2 DEF TypesInv, RequestType, MemoryOK, ControlTypeOK
  <1> QED
    BY <1>1, TypesInvariant, PTL

\* A request is claimed by one session at a time: it is in the list of claims once.
THEOREM ClaimedOnce == ControlSpec => [](\A m, n \in DOMAIN claims : claims[m] = claims[n] => m = n)
  <1>1. TypesInv => \A m, n \in DOMAIN claims : claims[m] = claims[n] => m = n
    BY DEF TypesInv, ClaimsAgree
  <1> QED
    BY <1>1, TypesInvariant, PTL
=============================================================================
