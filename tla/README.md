# Mazzy Command Center: TLA+ models and proofs

Mazzy Command Center is a pi extension that keeps a durable task board for agent
work. A *parent session* (a process) opens a SQLite control store, offers tools to
its agent, and serves a local web dashboard. Several parent sessions, and scripts
run by hand, share one store. This directory holds TLA+ modules translated from the
sources, TLC configurations that check them on small instances, and TLAPS proofs
of the properties that matter most.

Checking a model: `tlc -config Cutover.cfg MCCutover`; a proof: `tlapm TaskStoreSafety.tla`.
`PROJECT.json` lists the components, the runs, the mutants that show each property
can fail, the source lines each definition stands for, the hazards and the theorems.

Paths below are relative to `src/` of the repository (so `store.ts` is `src/src/store.ts`).

## 1. Inventory

| Component | State it keeps | Operations | What is hard | What makes it correct |
|---|---|---|---|---|
| **Task kernel** (`store.ts`, `types.ts`) | tables `tasks`, `run_bindings`, `evidence`, `review_reports` | create, update, assign, transfer, attest completion, report, reviewer evidence, evidence, run activity | many callers in any order; revisions and acceptance revisions; evidence that outlives what it was about | one active run per role; DONE only on a PASS for the latest submission; nothing withdrawn comes back |
| **Control requests** (`store.ts` 121–130, 195–198) | table `orchestration_requests` | create (with coalescing), deliver, claim, complete, fail, recover | two sessions posting, claiming and recovering at once; a GO requeued while its owner is binding a run | a GO is one request and starts one recorded run; ended requests stay ended |
| **Doorbell and session life** (`server.ts` 130–150, `index.ts` 177–256) | per process: the server, the set `delivering`, the session id | session start with one recovery, delivery after a post, shutdown | callback awaited between reading a row and marking it; sessions stop anywhere | no request is lost, no claim of a live session is taken |
| **Live event stream** (`server.ts` 160–184, `store.ts` `listEvents`/`tx`, `static/index.html`) | the `events` table; per stream a high-water mark; per tab a cursor | commit with fan-out, open and replay, heartbeat catch-up, reset, close, read | events of other processes, bounded replay, lost connections | a tab's cursor leaves no event behind |
| **Migration and cutover** (`control-migrate.ts`, `control-endpoint.ts`, `control-resolve.ts`) | the legacy and the canonical store, backup, recovery images, journal, marker, witness, `migrate.lock` | apply, cutover, deactivate, rollback; resolve at session start and reconnect | crash between any two files; partial failure; damage; other sessions writing meanwhile | one authority at any time; partial states seal; no row lost silently |
| **Delegation gate** (`anti-tunnel.ts`, the readiness report of `control-migrate.ts`) | none | decide whether work may be delegated | compares two stores that others write | never "proceed" while a row is in the other store only |
| **Discussion** (`store.ts` 105–119, `server.ts` 130–158) | tables `task_comments`, `comment_notifications` | comment, retry, reply, answer, acknowledge, notify | a receipt claimed before the callback; retries; two transactions for an answer and its acknowledgement; starts of other sessions | a session hears of a comment once, and of every one it is owed |
| **Data move** (`data-move.ts`) | two stores, a lock file | plan, apply (transfer, fork, merge) | two databases without a common transaction; crash between a task and its comments; keys that depend on the source's identity | importing again never duplicates, and success means each task picked was created there |
| **Registry and identity** (`project-registry.ts`, `project.ts`) | `project.json` of each checkout; the registry file, its lock file | publish an identity, enrol, forget, unlock stale | a stale-lock clearer against an owner; read-modify-write; moved and copied checkouts; link and unlink | no registration lost while the lock is respected; an identity is for good |
| **Scaffold** (`scaffold.ts`) | managed files, backups with manifests, receipt | plan, init, rollback, doctor | a crash between files; two runs at once; rollback against init | no text of the user's is lost |
| **Dashboard client** (`static/index.html`, `static/assets/chat-state.js`) | cursor, optimistic comments, refresh flag, control lock | refresh, post, reconcile | refreshes that overlap, answers out of order | the view converges to the store |
| **HTTP routes** (`server.ts`) | none of their own | parse, authorise, call the store, reply | – | the operations behind them |
| **Routing policy** (`routing.ts`) | none | decide | precedence of rules | the decision table |
| **Graph** (`graph-model.ts`, `graph-sources/`, `spec-graph.ts`, `reverse-graph.ts`) | merged graph | merge deltas, sweep dangling edges | order of deltas | no dangling edge |
| **Storage policy** (`storage-policy.ts`) | files under `.mazzy` | plan and apply a clean-up | files that appear meanwhile | protected files stay |
| **Git wrapper** (`git-safe.ts`) | none | build command lines | – | – |

How they interact. The tools of `index.ts` and the routes of `server.ts` call the task
kernel, the control requests and the discussion; each call is one `BEGIN IMMEDIATE`
transaction of the shared store and appends to `events`, which the live stream sends to the
dashboard. A dashboard's GO is a control request; the server rings a doorbell (a callback into its
session) and the agent claims the request, binds a run through the task kernel and
completes the request. A comment reaches the agent by a callback of the same kind. A session
that starts recovers one abandoned claim, rings for one undelivered request and is told the
comments it has no receipt for. Which store file all of this happens in is decided by the
resolver, from the files the migration commands leave behind; the delegation gate reads
the same files. `/mazzy-init` writes the managed files of a checkout, publishes its identity and
enrols it in the registry of the user's home; a data move reads the stores of other
checkouts and keys what it copies by their identity.

## 2. Modules

| Module | What it is |
|---|---|
| `TaskStore` | the task kernel: its operations as actions, its properties |
| `ControlPlane` | EXTENDS `TaskStore`: requests, sessions, doorbells and recovery over the kernel |
| `EventStream` | event table, streams and browser tabs |
| `Discussion` | comments, answers, receipts and callbacks of the sessions of several projects |
| `CutoverAuthority` | abstract: what the cutover promises |
| `Cutover` | the file-by-file protocol and the delegation gate, shown to implement `CutoverAuthority` |
| `DataMove` | copying tasks of other projects into this project's store |
| `ProjectRegistry` | identities of checkouts and the registry that tells moved from copied |
| `MazzyInit` | EXTENDS `ProjectRegistry`: init, its backups and receipt, rollback |
| `MC...` | symmetry sets and small instances for TLC |
| `TaskStoreSafety` | types and the inductive invariant of the kernel, with six properties |
| `TaskStoreReview` | a DONE task was reviewed; the report shown and the gates are the right ones |
| `ControlPlaneProofs` | `ControlPlane` implements `TaskStore`; its requests' properties and types |
| `EventStreamProofs` | frames rise; own events are told; one process skips nothing |
| `DiscussionProofs` | a session is called once; an acknowledgement has its answer |
| `CutoverProofs` | `Cutover` implements `CutoverAuthority`; the gate and what no command loses |
| `MazzyInitProofs` | the registry keeps its registrations; init implements it and loses no text of the user's |
| `DataMoveProofs` | comments are copied once, success means arrival |

### TaskStore

Variables `tasks`, `bindings`, `evidence`, `reports` are the four tables. A row's
`revision`, `acceptance` and binding `epoch` are `revision`, `acceptance_revision` and
`task_revision`. An operation is one transaction and therefore one action:
`CreateTask`, `UpdateTask` (with the restart of RUNNING and REVIEW tasks when the content
changes, the release of runs and the DONE gate), `AssignWorker`, `AssignReviewer`,
`TransferRun`, `AttestCompletion`, `ImportReviewReport`, `RecordReviewerEvidence`,
`RecordEvidence`, `UpdateRunActivity`. A call that throws or replays an idempotency key
changes nothing and is no step; a caller passes the revision it read, so the actions are
the calls whose revision matches. Title and description are one value equal to their
digest (SHA-256 is taken to be injective); columns no guard reads are left out.

### ControlPlane

`requests` is the request table in order of request, `claims` the claimed ones in order of
claim. `phase[s]` says where a session's process is: `down`, `settle` and `next` (the two
points between the three database steps of its start-up recovery), `up`. `candidate[s]`
is the claim its recovery has read, `ringing[s]` the requests whose callback it awaits.
`SessionStart` reads the oldest claim; `RecoverSettle` is the compare-and-set that
requeues or completes it; `RecoverNext` picks the next request; `MarkDelivered` and
`RingFails` end a doorbell; `Post`, `PostAgain`, `Claim`, `Complete`, `Fail` are the calls
and `StoreCall` any action of the kernel by a session that is up. `SessionStop` can come at any
point and clears what the process held. The server is taken to run from the session's
start on (`AUTO_START`). The state `CANCELLED` exists in the type and no code writes it, so
it has no action.

### EventStream

`log` is the event table, reduced to who committed each id. `Commit` includes the fan-out
to the streams of the committing process, which happens in the same call;
`OpenStream` replays or resets, `Heartbeat` sends what other processes committed,
`CloseStream` loses the frames in flight, `ReadFrame` is the tab.

### Discussion

`comments` is `task_comments` of all stores in order, `receipts` is
`comment_notifications`. Between two awaits a process is synchronous, but every store
call is a transaction of its own: `posted`, `ready` and `answer` name what the process does
next, so other sessions act, and the process may die, between the insertion of a comment,
the claim of its receipt and the callback (`Post`, `NotifyPosted`, `Call`), and between an answer and its
acknowledgement (`StoreAnswer`, `Acknowledge`). `PostAgain` is a retry whose answer was
lost. `Reconcile` reads once what the session is owed and `NotifyDue` goes through it.
A doorbell that fails earlier in the same start ends it (`DoorbellFails`).

### Cutover

Each file is a variable: the stores (the set of writes each holds), `backup`, `images`,
`journal`, `marker`, `witness`, `lock`. A command is a chain of actions, one for each file
operation others can see (`step[s]` names the next one); between any two of them the
process may die (`Stop`, which leaves the lock), an operation may fail (`GiveUp`,
`ApplyFails`), and other sessions open, read and write. `Endpoint` is `resolveControlDb`,
`Start` and `Reconnect` open what it says. `LoseControl` and `LoseJournal` are damage from outside,
while no command runs. The writes are numbered, so "newer than the promotion" is a comparison and
strict parity is equality of sets. The retirement of old recovery images is taken
together with the making of the new one. `baseline` is the promotion baseline of an
apply; before that, and in the other commands, it is a history of the last gate passed,
which only the properties read. A copy of a store is taken to hold all that the store
holds (what a SQLite write-ahead log may still keep apart is not modelled). `GateProceeds` is
the delegation gate as the session sees these files; it reads and never writes, so it is a
predicate of the state. `glass` are the processes started with `MAZZY_CUTOVER=1`, chosen
at the start of a behaviour.

`CutoverAuthority` has four variables: the authoritative store, `glass`, the switch each
session's command makes, and the store each has open. Its `Open` opens the authority (canonical for a
break-glass session) and nothing else. `Cutover` maps `authority` to canonical exactly
when `durableCutoverObserved` holds; the run `cutover` checks the refinement.

### DataMove

`source` and `identity` are the other projects' stores and their `project.json`; `dest` the tasks of
this store by `create_idempotency_key`. A mover goes through `Plan`, `Lock`, `Open`, one
`Import` for each row, one `CopyComment` for each comment, `Finish`; `Throw` runs the
`finally` clauses and `Crash` does not, so the lock becomes `Stale`. The sources are edited,
commented and enrolled between any two of these (`EditSource`, `Enrol`), and the sessions of the
destination edit an imported task or start work on it (`EditDest`, `WorkOn`), in the middle of a move or between moves. The key is `KeyOf`:
the source's scope and the task for a transfer, the content for a merge. A row keeps what it was created
from (`print`, the column `create_operation_fingerprint`) beside what it says now; `createTask` compares the former, so
`Conflict` does, and an edit neither makes nor hides one. `Finish` includes the containment query: a
move that finds work on a task it has just imported does not report success. `worked` stands for the rows that query
counts (bindings, evidence, reports); since they are never deleted, it makes no difference that the query
reads the tasks one by one. `from` and `had` of a
destination row are history.

What success means follows from that: each picked task has a task in the destination that was *created* as
it was picked (`AppliedMeansArrived`). It need not read so: an edit of an imported task is not undone by a
second transfer, which is a replay and reports success.

### ProjectRegistry and MazzyInit

`disk` says which directory stands at which root, `ident` and `linked` are
`project.json` and its temporary second link, `registry` the set of entries. A call is a chain
of system calls: `StartNaming`, `Publish` (link), `Unlink`; `StartEnrol` or `StartForget`,
`Acquire`, `Decide` (read and classify), `Write` (rename), `Release`. A clearer looks twice
and removes (`Look`, `LookAgain`, `Clear`). `MoveCheckout` and `CopyCheckout` are the
user's. `MazzyInit` adds one action for each managed file backed up (`SaveCopy`), replaced (`PutFile`)
or restored (`Restore`), the manifest (`ListBackups`), the receipt (`LeaveReceipt`), and the end of a
rollback (`DropBackup`); identity and registration are the actions of
`ProjectRegistry`, run by the same process. `owed` is a history: the user's texts an init
replaced and no rollback restored. Two assumptions are stated in the module and matter:

* `Unattended`: nobody else writes a file in the instant between its backup and the rename
  that replaces it, neither the user nor a rollback. The code does not look again (`scaffold.ts:137`), so a text saved in
  that instant is lost; it is listed as a hazard without a property.
* `Still`: no checkout is moved or copied while an init or a rollback is writing its files.

Of the registry lock nothing is assumed: `Stale` holds of any lock file, because a live owner may be suspended or slow
for the two minutes after which the code takes it for stale, and any number of sessions may run
`unlock-stale`. `evicted` is a history of what comes of it: the calls whose lock another process removed (a
clearer, or an evicted call that releases by name), and those that took the lock while such a call was at
work. `RegistrationsKept` lets an evicted call, and nobody else, write a registry that it did not make of the one it
replaces. Without that exception TLC finds the loss: one call reads the registry, its lock is cleared, a second
enrols, and the first writes what it made before.

## 3. Runs

| Run | Question | Bounds |
|---|---|---|
| `task_store` | type, kernel invariants, review and gates (9 invariants, 1 action property) | 1 task, 3 runs, 2 agents, 2 contents, revision ≤ 7, 2 evidence rows |
| `control_plane` | a GO starts one recorded run, completion names it, ended requests, late doorbells | 2 sessions, 1 request, 2 runs, revision ≤ 6 |
| `control_live` | coalescing; liveness: a lost doorbell is rung again, an abandoned GO is requeued | 2 sessions, 2 requests, 1 run, revision ≤ 2 |
| `event_stream` | frames rise, own events are never skipped, a tab catches up (liveness) | 2 processes, 1 tab, replay limit 2, 6 events |
| `cutover` | refinement, the gate and five properties under crashes, failures, damage | 2 sessions, each break-glass or not, 1 write, 1 damage, retention 1 |
| `data_move` | comments are copied once, success means every picked task was created there | 2 movers, a checkout and its copy of which one is enrolled, 2 tasks, 1 comment, 1 change by a session of a source or of the destination |
| `mazzy_init` | registry, identity and the user's texts under crashes, slow owners, moves and copies | 2 processes, 1 clearer, 2 roots, 2 directories, 2 identities, 1 move, 1 managed file with 1 text and 1 version, 2 runs of init or forget, 2 entries |
| `discussion` | told once; told what it is owed (liveness) | 2 sessions of a project, 2 projects, 2 comments |
| `control_unavailable` | finding 1 (violation) | as `control_plane`, 1 run, revision ≤ 4 |
| `event_stream_shared` | finding 2 (violation) | 2 processes, 1 tab, 3 events |
| `cutover_busy` | finding 3 (violation) | 2 sessions, no writes |
| `data_move_copies` | finding 4 (violation) | as `data_move`, both checkouts enrolled with one identity |

Why the bounds are enough for the cases of interest. One task: no operation of the kernel
reads another task's rows, except that a run id is bound once. Three runs and two agents give a
worker, a second worker after a transfer or a re-edit, and a reviewer of another
agent; revision 7 reaches DONE after an edit in REVIEW; two evidence rows let a
later verdict overturn an earlier one. Two sessions and two requests give every pair that
can interleave; liveness of the queue needs no task progress, so a small revision
suffices. Replay limit 2 with 6 events has gaps below, at and above the limit, twice. In
`cutover` every property is about one row that is or is not somewhere, so one write
suffices. In `data_move` the two checkouts share a task, differ in another, and have keys of
both kinds; with two tasks a merge meets a content twice. In `mazzy_init` an init, a crash,
a second init by another process and two rollbacks of one backup fit in two runs, so do a
call whose lock is cleared and the one that takes the lock after it, and a
copy takes the second directory; the properties speak of one file each, and files
are independent but for the manifest, which one file decides as well. In `discussion` two
comments give a user's comment and its answer, or two comments that a start lists together.

Explored besides the runs, with the same verdicts: `cutover` with two writes and no damage
(1.8 million states) and with processes that change their environment when they
restart (2.3 million), and `mazzy_init` with a second clearer (1.8 million).

`MaxRevision`, `MaxEvidence`, `MaxRequests`, `MaxEvents`, `MaxWrites`, `MaxFaults`,
`MaxComments`, `MaxChanges`, `MaxMoves` and `MaxRuns` stop growth that the program does
not bound; deadlock is not checked because a bounded model stops there and because a system with
nobody calling it rests (`data_move` never stops and is checked for it). `Retention` stands
for `BACKUP_RETENTION` (5), `ReplayLimit` for `EVENT_REPLAY_LIMIT`, `MaxSelected` for
`MAX_SELECTED_TASKS` and `MaxEntries` for `MAX_ENTRIES`.

### Findings

1. **A live session's claim is requeued** (`index.ts:240`, `control_unavailable`).
   `reconcileOneUndelivered` is called without an availability test, so
   every owner but the starting session counts as gone. `skills/mazzy-orchestrator/SKILL.md:16`
   limits recovery to unavailable owners. `LaunchedGoIsSpent` (proved) shows the damage is contained:
   a GO for which a run was bound cannot be claimed again.
2. **Skipped events with two processes** (`server.ts:167`, `event_stream_shared`). A fan-out raises
   the high-water mark over events of other processes that the stream never sends.
3. **The orphaned migration lock** (`control-migrate.ts:360`, `cutover_busy`). Nothing
   removes the lock of a process that died, and the refusal says an operation is in progress.
4. **A copied checkout is dropped** (`data-move.ts:254`, `data_move_copies`). A `cp -r` copy has
   its original's `project.json` and task ids, or, without an identity, the
   same path digest, so its tasks have the original's keys and count as duplicates; the comments at
   lines 231 and 247 say two sources stay distinct.

Met while modelling, without a run of their own:

* The comment at `store.ts:127` asks of a completion a "current-acceptance worker"; the
  code compares task, role, sessions and epoch, not the acceptance, so a worker whose
  acceptance has been withdrawn completes a GO.
* The refusal of `apply` for break-glass reads only the environment of the process that runs it
  (`control-migrate.ts:422`), so another process's `apply --force` replaces a break-glass
  session's writes (they stay in the recovery image, which `NothingDropped` checks, except
  those made after the image).
* A CLAIMED request that recovery leaves alone blocks the recovery of later ones.
* With only the legacy store present, a session that the resolver seals is still answered
  "proceed" by the gate; the row that a third break-glass session writes between the snapshot
  and its stamp needs more sessions than `cutover` has.
* The comment at `data-move.ts:217` says stale locks are reclaimed after two minutes; `acquireMoveLock`
  never reclaims one (`Crash`, `RemoveStale`).
* A merge does not see a task created in the destination with the same content, whose key is
  another. Enrolling a source between two moves changes its scope, and the second move copies its
  tasks again. A source task edited between two transfers makes the second throw at that row. The size of a
  selection is not looked at again when the source is read.
* A task edited in the destination between two moves is a replay or a duplicate still, by the fingerprint it was created with
  (`store.ts:74`): a transfer reports success and leaves the edit; a merge counts a collapse of "content [that] already
  exists in the destination" (`data-move.ts:266`) that may read otherwise by now.
* `data-move.ts:319` calls the containment counts "structurally always zero". They are not when a session of the
  destination assigns an imported task before the move ends: the move then reports a failed assertion, "this is a bug"
  (line 293), although everything arrived. In the model `Finish` goes to `idle`.
* A move that stops between a task and its comments leaves a task that every later move takes for complete
  (`interrupted`).
* A clearer takes a lock two minutes old for stale whoever owns it, and removes what it finds at its third
  access; an owner releases by name (`project-registry.ts:244`, `:259`). A registration can be lost then; the
  exception of `RegistrationsKept` says by which calls.
* A crash between the link and the unlink of `project.json` leaves an identity with two links,
  which every later reader refuses (`project.ts:133`): init plans a conflict there for good.
* A crash before the manifest leaves a backup directory that makes every rollback throw until
  a newer init; a crash before the receipt makes untouched templates a conflict after an
  upgrade; the receipt names conflicting templates that were never written; a rollback writes over
  what the user saved after the init.
* A receipt is claimed before the callback: a crash between the two leaves the comment
  untold to that session id, and a new session is told. A comment posted through another
  session's server is told at the next start only, and one posted on another project's task
  not by this server. A doorbell that fails at a start keeps the comments of that start unread.

## 4. Fairness

Safety runs assume none. `control_live` assumes strong fairness of
`RecoverSettle`, `RecoverNext` and `MarkDelivered`: they are synchronous continuations of
code that is already running, but a session may stop before any of them, so they
need not stay enabled; what is excluded is only that sessions stop at that point for ever.
That sessions return at all is no fairness of the code: it is the premise `SessionsReturn` of the
properties. Agents are never assumed to claim, complete or fail. `event_stream`
assumes weak fairness of `Heartbeat` (an interval timer of an open stream) and `ReadFrame`
(the tab's reading loop). `TabCatchesUp` speaks of a stream that stays open. `discussion` assumes
weak fairness of `Continue`, the steps of code already begun, and strong fairness of `Reconcile` and
`NotifyDue`, continuations of a settled promise that the handlers of new requests
may run before but do not hold back for ever; that a process stops is an alternative in `OwedIsTold`,
not excluded.

## 5. Proofs

All theorems hold for all values of the constants that satisfy the named assumptions of
each module: any number of tasks, runs, agents, sessions, contents, comments, checkouts and files.
The bounds remain in the model, but their values are arbitrary.

* `TaskStoreSafety`: `TypeCorrect`, one lemma per action. `StoreStep` sums up what any step may do to rows, tasks and
  bindings, and each action is shown to be such a step (`StepIsStoreStep`); the invariant
  is then proved from the summary alone, not action by action. The properties are not
  inductive by themselves: that epochs are distinct, and that an acceptance names one content, need
  that no binding carries an epoch or an acceptance its task has not reached yet (`RowsBounded`); that the
  latest completed worker is the one under review needs that no active run is older than a worker
  (`ActiveIsNewest`, `SubmissionIsNewest`). `StoreInv` joins these with the properties. It yields `OneActiveRun`,
  `NobodyBehindReview`, `RunningAttended`, `AcceptanceIsContent`, `EpochsOrderWorkers`;
  `RunsEndForGood` follows from the summary.
* `TaskStoreReview!OnlyReviewedIsDone`: with `VerdictRows` (a verdict row names a reviewer run
  and the newest submission that run could see) and `VerdictOrder` (verdicts are recorded in the order of the submissions), the PASS
  that opened the DONE gate is about the latest submission and is the last verdict.
* `TaskStoreReview!ReviewShowsSubmission`, `GatesAgree`: the reports follow the same scheme in `ReportInv`.
  Every completed worker has a row (`CompletedReported`), the row names its run and acceptance (`ReportRows`) and rows
  lie in the order of assignment (`ReportOrder`); so the last row of the acceptance is that of the newest
  submission (`NewestIsShown`). The order holds because `attestWorkerCompletion` accepts an active worker only,
  which `ActiveIsNewest` makes the newest, and a replaced report keeps its place. The gates shown match reviewer rows by epoch alone,
  the enforced gate by run, agent and submission; `SameVerdicts` shows that they select the same rows.
* `ControlPlaneProofs!ControlImplementsStore`: `ControlSpec => Spec`, so everything
  proved about the kernel holds under sessions, doorbells and recovery.
* `ControlPlaneProofs`: `RequestStep` and `ControlStep` sum up a step; `ControlInv` is
  `StoreInv` with `ExpectedIsPast` (a request's expected revision is not in the future),
  `EpochIsAssignment`, `NoRunAtExpected` and the properties themselves. It yields
  `GoCoalesces`, `FreshGoApplies`, `CompletedGoLaunched`, `LaunchedGoSpent`;
  `RequestsEndForGood` and `ClaimsOutliveDelivery` follow from the summary. The key lemma is
  `RevisionTells`: a kernel step that changes a task's row raises its revision, so what an
  operator saw at a revision is still so while the revision stands. `ControlTypeCorrect` has an
  invariant of its own, `TypesInv`: that a recovery which looks at the oldest claim settles a row that is still there
  needs that `claims` lists exactly the CLAIMED rows, each once (`ClaimsAgree`); `ClaimedOnce` states the latter.
* `EventStreamProofs`: `StreamInOrder` needs that the frames under way lie above the tab's cursor and up to the
  mark of its stream (`StreamsInOrder`), since replay, fan-out and heartbeat each start at the mark. `OwnEventsReach`
  needs `OwnAhead`: an event of the serving process that the tab has not read is on the wire, or a reset that
  covers it comes first. `OneProcessSkipsNothing` states the same of every event for one process, `Procs = {p}`: what finding 2
  loses is lost only because another process appends to the table, and no replay limit or lost connection loses more.
* `DiscussionProofs`: `CalledOnce` needs `Receipted` (a callback begun or about to begin has its
  receipt, and one about to begin has not begun before); `AcknowledgedIsAnswered` needs `Backed`
  (what is about to be acknowledged has its answer); the type invariant needs `Fits`, since an answer under
  way has its place kept.
* `CutoverProofs!CutoverImplementsAuthority`: the refinement. What must be shown is that the authority changes
  at one step of an activation or a deactivation only, and that an open session opened what it says. The witness alone decides, because it
  is published before the marker and the journal's "cutover" and taken away after them (`WitnessOutlasts`); damage from outside
  takes a store or the journal, never the witness. `StepRefines` has one case for each kind of action, and the commands that
  touch no evidence are one kind.
* `CutoverProofs`: `CutoverInv` says what a command knows at each of its steps (`Knows`), whatever other sessions wrote
  since it looked. It is stable because a command is alone (`LockHeld`, `OneCommandAtATime`) and because the
  writes of the others carry numbers above its baseline. `GateIsSound` needs `CopyAtStamp`: a stamped store agreed with the
  legacy one up to its stamp, and a retained backup did too, since an apply that fails or a rollback puts it back.
  `HandoffComplete` needs `HandedOver`, what the final parity gate established. `NothingIsDropped` needs `Copied`: from its recovery
  image on, the store about to be replaced has a copy of each row. `CutoverKeeps` needs that an apply or a rollback past its guard
  runs without any evidence of a cutover. `CutoverUsable` is a part of the invariant. The
  assumption `NullAssumption` of `Cutover` keeps "no file" apart from the files.
* `MazzyInitProofs`, the registry: `RegistryReadable` needs no lock: what a call is about to write
  is as unique as what it has read (`Prepared`). `RegistrationsSurvive` has no premise on owners or
  clearers and rests on `LockInv`: a call past the lock has the lock file or is evicted, and two calls past it are both
  evicted (`Exclusive`), so what a call that is not evicted writes was made of the registry it
  replaces (`Current`). That a call which enters beside an evicted one counts as evicted too is what makes this
  inductive: it may have read the registry before the other one wrote.
  `IdentitiesForGood` needs only what a step may do to an identity.
* `MazzyInitProofs`: `InitKeepsToRegistry` is the refinement `Spec => RegistrySpec`, so the
  theorems of the registry hold under init, rollback and forget. `NoTextIsLost`: that a
  backup has the text is not inductive, for the one that has it may be one that a rollback
  has restored from and is about to throw away. `Kept` asks for a backup that no rollback under way is
  done with; that an init's own backup is one needs `Apart` and `Closed` (nobody else writes or
  restores under its stamp while it replaces files) and `Saving` (the backup just made holds what the file
  holds, which is where `Unattended` is used). Steps that touch no file are summed up in `Quiet`.
* `DataMoveProofs`: `LockHeld` (a mover that is past the lock is its owner, so there is one)
  gives `KeysKnown` (the keys the mover found and those it created are all the
  destination has), so a replay is told from a new task. `EachCommentOnce` needs `HistoryDue`: comments copied
  and comments ahead make up what the source had. `SuccessMeansArrived` needs `Arrived`, row by row, and for a
  merge that swallows a conflict `MergedAlike`: whatever took a merge key was created with its content. Both speak of
  how rows were created, which no session of the destination changes (`SessionsLeave`, `SessionsKeep`).

`ReportInv`, `TypesInv`, `StreamInv`, `CutoverInv` and `LockInv` were checked by TLC on the bounds of a run of their
component before they were proved. Every invariant, every action
property and the refinement that the passing runs check are proved. Only model-checked are the liveness properties
`QueueDrains`, `AbandonedGoReturns`, `TabCatchesUp` and `OwedIsTold`, which need fairness and ENABLED,
out of the prover's reach, and the four violations of the findings. `Unclaimed` of `ControlPlane` removes a request from
the list of claims by its place and not by a filter: the provers have no facts about an operator taken as an argument, and the
list names each request once (`ClaimedOnce`), so the two are the same.

## 6. Not modelled

* The dashboard client: rendering and refresh batching in the browser; the cursor of its
  stream is in `EventStream`. A refresh that overlaps another returns at once (a hazard listed without a property).
* HTTP routes: parsing and replies; the operations behind them are modelled.
* `route()` of the routing policy: a table lookup without state.
* The graph: parsers and pure merges, read-only.
* The storage policy: a sweep of aged files by one process.
* The git wrapper: command lines.

Within the modelled components: wording and layout, `events` rows of control requests and
discussion, malformed or copied publication files and symbolic links in the cutover, the
read-only reports of the migration, the counters of those of the data move, the content of stores row by row, the
registry's key and backup copy, the privacy checks of files, the merge of `settings.json`, and
the doctor, which only reads.

## 7. Plan

What is left, in the order of importance:

1. `DashboardClient`: refresh, affected ids, optimistic comments, over `EventStream`;
   liveness: the view converges.
2. `StoragePolicy`: plan and apply with files that change in between.
3. `Routing`, `GraphModel`: the decision and the merge as operators, each against a
   reference definition over bounded inputs.
4. Proofs: that sealing holds for a session whose `MAZZY_CUTOVER` changes at a restart; that two moves
   import no row twice when no source is enrolled between them.
