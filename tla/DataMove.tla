------------------------------ MODULE DataMove ------------------------------
(***************************************************************************)
(* Copying tasks from other projects into this project's store             *)
(* (data-move.ts).  A mover is a process running applyDataMove; each of    *)
(* its store calls is a transaction of its own, so other movers and the    *)
(* sessions of the source projects and of this one act between them, and   *)
(* it can throw or stop between any two of them.                           *)
(*                                                                         *)
(* Abstractions: content is (title, description), meta is (type, priority, *)
(* risk); the idempotency key is what it is a digest of, and so is the     *)
(* creation fingerprint, whose state is always BACKLOG; a comment is       *)
(* counted, not quoted.  Task states are not kept, so a selection is any   *)
(* set of the source's tasks, chosen again when the source is read: a      *)
(* selection by state can change in between.  The order of the batch       *)
(* (priority, age) is left open.  fork differs from transfer in nothing.   *)
(***************************************************************************)
EXTENDS Naturals, FiniteSets

CONSTANTS
    Movers,         \* processes that run a move into this destination
    Projects,       \* source projects
    Tasks,          \* task ids in the sources; a copied checkout repeats them
    Contents, Metas,
    Ids,            \* project identities (project.json)
    PathScope,      \* the digest of ".pi-ops/state.db", the same everywhere
    Shelf,          \* what each source holds at first
    Enrolled,       \* the identity each source has at first, or Null
    Null, Stale,
    MaxSelected,    \* MAX_SELECTED_TASKS
    MaxComments,    \* bound: comments of one source task
    MaxChanges      \* bound: what the sessions of all projects do meanwhile

Ops == { "transfer", "merge" }

SourceRow == [ content: Contents, meta: Metas, comments: 0..MaxComments ]
NoTask == [ content |-> Null, meta |-> Null, comments |-> 0 ]

ASSUME NullAssumption ==
    /\ Null \notin Movers \cup Contents \cup Ids \cup Tasks
    /\ Stale \notin Movers \cup {Null}
    /\ PathScope \notin Ids
ASSUME BoundAssumption == { MaxSelected, MaxComments, MaxChanges } \subseteq Nat
ASSUME SourceAssumption ==
    /\ Shelf \in [Projects -> [Tasks -> SourceRow \cup {NoTask}]]
    /\ Enrolled \in [Projects -> Ids \cup {Null}]

Picks == [ task: Tasks, content: Contents, meta: Metas, comments: 0..MaxComments ]
TransferKeys == [ scope: Ids \cup {PathScope}, task: Tasks ]
MergeKeys == [ merged: Contents ]
Keys == TransferKeys \cup MergeKeys

ASSUME KeyAssumption == Null \notin Keys

\* print is create_operation_fingerprint; worked, whether the task has run
\* bindings, evidence or reports; comments, how many were imported.  from and
\* had are history: the source task the row was made from, and the comments
\* that task had when it was read.
DestRow == [ content: Contents, meta: Metas, print: Contents \X Metas, worked: BOOLEAN,
             comments: Nat, had: 0..MaxComments, from: Projects \X Tasks ]
NoRow == [ content |-> Null, meta |-> Null, print |-> << Null, Null >>, worked |-> FALSE,
           comments |-> 0, had |-> 0, from |-> Null ]

VARIABLES
    source,         \* [Projects -> [Tasks -> row of that project's store]]
    identity,       \* [Projects -> its projectId, or Null]
    changes,        \* steps the sessions of the projects have taken
    dest,           \* [Keys -> task with that create_idempotency_key]
    lock,           \* owner of the lock file, Stale when the owner is dead
    phase,          \* [Movers -> where the move stands]
    job,            \* [Movers -> the request]
    scope,          \* [Movers -> sourceScope]
    picked,         \* [Movers -> selected]
    todo,           \* [Movers -> rows of the batch still ahead]
    pre,            \* [Movers -> preExisting]
    imported,       \* [Movers -> importedIds]
    copying,        \* [Movers -> the task whose comments are copied, and how many are left]
    interrupted     \* tasks whose move stopped before their last comment

sources == << source, identity, changes >>
batch == << job, scope, picked, pre >>
locals == << job, scope, picked, todo, pre, imported, copying >>
vars == << source, identity, changes, dest, lock, phase, job, scope, picked,
           todo, pre, imported, copying, interrupted >>

Nothing == [ key |-> Null, left |-> 0 ]

TypeOK ==
    /\ source \in [Projects -> [Tasks -> SourceRow \cup {NoTask}]]
    /\ identity \in [Projects -> Ids \cup {Null}]
    /\ changes \in 0..MaxChanges
    /\ dest \in [Keys -> DestRow \cup {NoRow}]
    /\ lock \in Movers \cup { Null, Stale }
    /\ phase \in [Movers -> { "idle", "planned", "locked", "importing", "applied" }]
    /\ job \in [Movers -> [ from: Projects, op: Ops ] \cup {Null}]
    /\ scope \in [Movers -> Ids \cup { PathScope, Null }]
    /\ picked \in [Movers -> SUBSET Picks] /\ todo \in [Movers -> SUBSET Picks]
    /\ pre \in [Movers -> SUBSET Keys] /\ imported \in [Movers -> SUBSET Keys]
    /\ copying \in [Movers -> [ key: Keys, left: 0..MaxComments ] \cup {Nothing}]
    /\ interrupted \subseteq Keys

Init ==
    /\ source = Shelf /\ identity = Enrolled /\ changes = 0
    /\ dest = [k \in Keys |-> NoRow]
    /\ lock = Null
    /\ phase = [m \in Movers |-> "idle"]
    /\ job = [m \in Movers |-> Null] /\ scope = [m \in Movers |-> Null]
    /\ picked = [m \in Movers |-> {}] /\ todo = [m \in Movers |-> {}]
    /\ pre = [m \in Movers |-> {}] /\ imported = [m \in Movers |-> {}]
    /\ copying = [m \in Movers |-> Nothing]
    /\ interrupted = {}

---------------------------------------------------------------------------
(* The store calls of a move *)

Held(p) == { t \in Tasks : source[p][t] # NoTask }
Present(k) == dest[k] # NoRow

\* selectTasks over the chosen task ids.
Rows(p, S) == { [ task |-> t, content |-> source[p][t].content,
                  meta |-> source[p][t].meta,
                  comments |-> source[p][t].comments ] : t \in S }

\* A copied checkout carries its original's project.json.
ScopeOf(p) == IF identity[p] = Null THEN PathScope ELSE identity[p]

KeyOf(m, row) == IF job[m].op = "merge" THEN [ merged |-> row.content ]
                 ELSE [ scope |-> scope[m], task |-> row.task ]

\* createTask finds its key taken by a task created from something else,
\* whatever that task has become since.
Conflict(k, row) == Present(k) /\ dest[k].print # << row.content, row.meta >>

\* A conflict is a collapse in a merge only; elsewhere it ends the move.
Slip_EveryOpSwallows(m, k, row) == Conflict(k, row)

Swallowed(m, k, row) == Conflict(k, row) /\ job[m].op = "merge"

Created(k, row, p) ==
    IF Present(k) THEN dest
    ELSE [dest EXCEPT ![k] = [ content |-> row.content, meta |-> row.meta,
                               print |-> << row.content, row.meta >>, worked |-> FALSE,
                               comments |-> 0, had |-> row.comments, from |-> << p, row.task >> ]]

---------------------------------------------------------------------------
(* A move *)

\* planDataMove inside applyDataMove; a refusal changes nothing.
Plan(m, p, op) ==
    /\ phase[m] \in { "idle", "applied" }
    /\ \E S \in SUBSET Held(p) : S # {} /\ Cardinality(S) <= MaxSelected
    /\ phase' = [phase EXCEPT ![m] = "planned"]
    /\ job' = [job EXCEPT ![m] = [ from |-> p, op |-> op ]]
    /\ UNCHANGED << sources, dest, lock, scope, picked, todo, pre, imported, copying, interrupted >>

\* The lock is busy, or an endpoint was sealed since the plan.
Refuse(m) ==
    /\ phase[m] = "planned"
    /\ phase' = [phase EXCEPT ![m] = "idle"]
    /\ job' = [job EXCEPT ![m] = Null]
    /\ UNCHANGED << sources, dest, lock, scope, picked, todo, pre, imported, copying, interrupted >>

\* O_CREAT | O_EXCL; a dead owner's file counts as busy for ever.
Slip_SharedLock(m) == lock' = m

TakeLock(m) == lock = Null /\ lock' = m

Lock(m) ==
    /\ phase[m] = "planned"
    /\ TakeLock(m)
    /\ phase' = [phase EXCEPT ![m] = "locked"]
    /\ UNCHANGED << sources, dest, locals, interrupted >>

\* The source is read and closed, the destination opened and listed.  The
\* selection's size is not looked at again.
Open(m) ==
    /\ phase[m] = "locked"
    /\ \E S \in SUBSET Held(job[m].from) :
        /\ picked' = [picked EXCEPT ![m] = Rows(job[m].from, S)]
        /\ todo' = [todo EXCEPT ![m] = Rows(job[m].from, S)]
    /\ scope' = [scope EXCEPT ![m] = ScopeOf(job[m].from)]
    /\ pre' = [pre EXCEPT ![m] = { k \in Keys : Present(k) }]
    /\ phase' = [phase EXCEPT ![m] = "importing"]
    /\ UNCHANGED << sources, dest, lock, job, imported, copying, interrupted >>

\* One round of the loop up to its comments.  A replay goes on to the next
\* row: the comments of a task that was there before are not looked at.
Import(m, row) ==
    LET k == KeyOf(m, row) IN
    /\ phase[m] = "importing" /\ copying[m] = Nothing
    /\ row \in todo[m]
    /\ Conflict(k, row) => Swallowed(m, k, row)
    /\ todo' = [todo EXCEPT ![m] = @ \ {row}]
    /\ dest' = Created(k, row, job[m].from)
    /\ IF Swallowed(m, k, row) \/ k \in pre[m] \cup imported[m]
         THEN UNCHANGED << imported, copying >>
         ELSE /\ imported' = [imported EXCEPT ![m] = @ \cup {k}]
              /\ copying' = [copying EXCEPT ![m] =
                    IF row.comments = 0 THEN Nothing
                    ELSE [ key |-> k, left |-> row.comments ]]
    /\ UNCHANGED << sources, lock, phase, batch, interrupted >>

\* What is left after one more comment.
Slip_OneMore(c) == [ key |-> c.key, left |-> c.left - 1 ]

Rest(c) == IF c.left = 1 THEN Nothing ELSE [ key |-> c.key, left |-> c.left - 1 ]

\* One addComment, a transaction of its own.
CopyComment(m) ==
    LET c == copying[m] IN
    /\ phase[m] = "importing" /\ c # Nothing
    /\ dest' = [dest EXCEPT ![c.key].comments = @ + 1]
    /\ copying' = [copying EXCEPT ![m] = Rest(c)]
    /\ UNCHANGED << sources, lock, phase, batch, todo, imported, interrupted >>

\* A lock file with another token is not this move's to remove.
Released(m) == IF lock = m THEN Null ELSE lock

\* The locals of applyDataMove are gone, and a task whose comments were
\* under way keeps those it has.
End(m) ==
    /\ job' = [job EXCEPT ![m] = Null] /\ scope' = [scope EXCEPT ![m] = Null]
    /\ picked' = [picked EXCEPT ![m] = {}] /\ todo' = [todo EXCEPT ![m] = {}]
    /\ pre' = [pre EXCEPT ![m] = {}] /\ imported' = [imported EXCEPT ![m] = {}]
    /\ copying' = [copying EXCEPT ![m] = Nothing]
    /\ interrupted' = interrupted \cup ({copying[m].key} \ {Null})
    /\ UNCHANGED << sources, dest >>

\* assertContainment: none of the tasks this move created has been worked on.
Contained(m) == \A k \in imported[m] : ~dest[k].worked

\* The move reports success, unless it takes a session's work on one of its
\* tasks for something that it has let through itself.
Finish(m) ==
    /\ phase[m] = "importing" /\ copying[m] = Nothing /\ todo[m] = {}
    /\ phase' = [phase EXCEPT ![m] = IF Contained(m) THEN "applied" ELSE "idle"]
    /\ lock' = Released(m)
    /\ End(m)

Stop(m) ==
    /\ phase[m] \in { "locked", "importing" }
    /\ phase' = [phase EXCEPT ![m] = "idle"]
    /\ End(m)

\* A store call throws, createTask on a key conflict among them; the
\* finally clauses run.
Throw(m) == Stop(m) /\ lock' = Released(m)

\* The process dies and leaves its lock file, which no move reclaims.
Crash(m) == Stop(m) /\ lock' = IF lock = m THEN Stale ELSE lock

---------------------------------------------------------------------------
(* The rest of the world *)

\* Someone deletes the lock file of a dead process by hand.
RemoveStale ==
    /\ lock = Stale
    /\ lock' = Null
    /\ UNCHANGED << sources, dest, phase, locals, interrupted >>

\* A session of the source project edits a task or comments on it.
EditSource(p, t) ==
    LET old == source[p][t] IN
    /\ changes < MaxChanges /\ t \in Held(p)
    /\ \E row \in SourceRow :
        /\ row # old
        /\ \/ row.comments = old.comments
           \/ row = [old EXCEPT !.comments = @ + 1]
        /\ source' = [source EXCEPT ![p][t] = row]
    /\ changes' = changes + 1
    /\ UNCHANGED << identity, dest, lock, phase, locals, interrupted >>

\* The source project is initialised and gets its identity.
Enrol(p, id) ==
    /\ changes < MaxChanges /\ identity[p] = Null
    /\ identity' = [identity EXCEPT ![p] = id]
    /\ changes' = changes + 1
    /\ UNCHANGED << source, dest, lock, phase, locals, interrupted >>

\* A session of this project edits an imported task, in the middle of a move
\* or after it; the fingerprint stays.
EditDest(k) ==
    /\ changes < MaxChanges /\ Present(k)
    /\ \E c \in Contents, x \in Metas :
        /\ << c, x >> # << dest[k].content, dest[k].meta >>
        /\ dest' = [dest EXCEPT ![k].content = c, ![k].meta = x]
    /\ changes' = changes + 1
    /\ UNCHANGED << source, identity, lock, phase, locals, interrupted >>

\* It assigns the task or records something for it.
WorkOn(k) ==
    /\ changes < MaxChanges /\ Present(k) /\ ~dest[k].worked
    /\ dest' = [dest EXCEPT ![k].worked = TRUE]
    /\ changes' = changes + 1
    /\ UNCHANGED << source, identity, lock, phase, locals, interrupted >>

Next ==
    \/ \E m \in Movers :
        \/ \E p \in Projects, op \in Ops : Plan(m, p, op)
        \/ \E row \in todo[m] : Import(m, row)
        \/ Refuse(m) \/ Lock(m) \/ Open(m) \/ CopyComment(m)
        \/ Finish(m) \/ Throw(m) \/ Crash(m)
    \/ RemoveStale
    \/ \E p \in Projects, t \in Tasks : EditSource(p, t)
    \/ \E p \in Projects, id \in Ids : Enrol(p, id)
    \/ \E k \in Keys : EditDest(k) \/ WorkOn(k)

Spec == Init /\ [][Next]_vars

---------------------------------------------------------------------------
(* Properties *)

\* Every imported task has each comment its source had when it was read,
\* once: two moves racing for one task, or a second move over it, never
\* copy its history again.  Short of that only while its own move is at it,
\* or for good when that move stopped there (applyDataMove).
CommentsCopiedOnce ==
    \A k \in Keys :
        /\ dest[k].comments <= dest[k].had
        /\ dest[k].comments < dest[k].had =>
              \/ k \in interrupted
              \/ \E m \in Movers : copying[m].key = k

\* The move of m reports success in this step.
Succeeds(m) == phase[m] = "importing" /\ phase'[m] = "applied"

\* A move that reports success left every task it picked in the destination:
\* there is a task of its key that was created as it was picked, by this move
\* or an earlier one, and not of something else that took the key.  What the
\* destination's sessions have made of it since then stays theirs, so the
\* task need not read as it was picked (applyDataMove, createTask).
AppliedMeansArrived ==
    [][\A m \in Movers : Succeeds(m) =>
        \A row \in picked[m] :
            LET d == dest[KeyOf(m, row)] IN
            /\ d.print[1] = row.content
            /\ job[m].op # "merge" => d.print[2] = row.meta]_vars

\* Two sources stay distinct even when they share task ids: a transfer that
\* reports success left a task made from its own source (the comments at
\* lines 229 and 246).
SourcesStayDistinct ==
    [][\A m \in Movers : Succeeds(m) /\ job[m].op = "transfer" =>
        \A row \in picked[m] : dest[KeyOf(m, row)].from = << job[m].from, row.task >>]_vars
=============================================================================
