----------------------------- MODULE Discussion -----------------------------
(***************************************************************************)
(* The discussion of a task: comments, answers and acknowledgements in the *)
(* stores (store.ts), and the notifications of the parent sessions         *)
(* (server.ts).  Each session is a process with a server of its own; the   *)
(* sessions of a project share its store.  What a process does between two *)
(* awaits is synchronous, but each store call is a transaction: the others *)
(* act, and the process may die, between any two of them.                  *)
(*                                                                         *)
(* Abstractions: one task per project; a comment is its number, the order  *)
(* of creation, and a retried request one with the clientMessageId and the *)
(* content of a stored comment.  A callback that fails is caught and no    *)
(* more is done about it, so only its start is kept.  Whether a run is     *)
(* bound to the task's acceptance is read before the transactions of its   *)
(* answer, so an answer that gets past it is as any other.                 *)
(***************************************************************************)
EXTENDS Naturals, Sequences, FiniteSets

CONSTANTS
    Sessions,       \* parent session ids; at most one process has each
    Projects,       \* each with a store
    Home,           \* [Sessions -> the project whose store is `this.store']
    MaxComments     \* bound: comments and answers

ASSUME HomeAssumption == Home \in [Sessions -> Projects] /\ IsFiniteSet(Sessions)
ASSUME BoundAssumption == MaxComments \in Nat

VARIABLES
    comments,       \* task_comments, all stores, oldest first
    receipts,       \* comment_notifications: (comment, session)
    phase,          \* [Sessions -> its process]
    due,            \* [Sessions -> unnotifiedComments, as session_start read it]
    posted,         \* [Sessions -> the stored comment the handler claims next]
    ready,          \* [Sessions -> the claimed comment it calls back about next]
    answer,         \* [Sessions -> its respondToDiscussion under way]
    calls,          \* history: [Sessions -> [comment -> callbacks begun]]
    acknowledged    \* history: [comment -> "comment.acknowledged" events]

store == << comments, receipts >>
process == << phase, due, posted, ready, answer >>
vars == << store, process, calls, acknowledged >>

Ids == 1..MaxComments
Comment == [ project: Projects, role: {"user", "agent"}, replyTo: Ids \cup {0},
             state: {"sent", "acknowledged"} ]
Answer == [ step: {"none", "store", "acknowledge"}, to: Ids \cup {0} ]
NoAnswer == [ step |-> "none", to |-> 0 ]

TypeOK ==
    /\ comments \in Seq(Comment) /\ Len(comments) <= MaxComments
    /\ receipts \subseteq Ids \X Sessions
    /\ phase \in [Sessions -> {"down", "starting", "up", "unread"}]
    /\ due \in [Sessions -> SUBSET Ids]
    /\ posted \in [Sessions -> Ids \cup {0}]
    /\ ready \in [Sessions -> Ids \cup {0}]
    /\ answer \in [Sessions -> Answer]
    /\ calls \in [Sessions -> [Ids -> Nat]]
    /\ acknowledged \in [Ids -> Nat]

Init ==
    /\ comments = << >> /\ receipts = {}
    /\ phase = [s \in Sessions |-> "down"]
    /\ due = [s \in Sessions |-> {}]
    /\ posted = [s \in Sessions |-> 0] /\ ready = [s \in Sessions |-> 0]
    /\ answer = [s \in Sessions |-> NoAnswer]
    /\ calls = [s \in Sessions |-> [c \in Ids |-> 0]]
    /\ acknowledged = [c \in Ids |-> 0]

---------------------------------------------------------------------------
(* The dashboard: POST /api/tasks/:id/comments *)

\* Nothing synchronous is under way in the process.
Free(s) == phase[s] # "down" /\ posted[s] = 0 /\ ready[s] = 0 /\ answer[s] = NoAnswer

\* The bound leaves a place for each answer under way.
Storing == { s \in Sessions : answer[s].step = "store" }
Room == Len(comments) + Cardinality(Storing) < MaxComments

Added(project, role, to) ==
    comments' = Append(comments, [ project |-> project, role |-> role,
                                   replyTo |-> to, state |-> "sent" ])

OnTask(c, project) == c \in DOMAIN comments /\ comments[c].project = project

\* A comment of the user, on any project the server serves; a reply is to a
\* comment of the same task.
Post(s, project, to) ==
    /\ Free(s) /\ Room
    /\ to = 0 \/ OnTask(to, project)
    /\ Added(project, "user", to)
    /\ posted' = [posted EXCEPT ![s] = Len(comments) + 1]
    /\ UNCHANGED << receipts, phase, due, ready, answer, calls, acknowledged >>

\* The answer was lost and the browser sends the same message again, here or
\* to another session's server: addComment returns the stored comment.
PostAgain(s, c) ==
    /\ Free(s)
    /\ c \in DOMAIN comments /\ comments[c].role = "user"
    /\ posted' = [posted EXCEPT ![s] = c]
    /\ UNCHANGED << store, phase, due, ready, answer, calls, acknowledged >>

---------------------------------------------------------------------------
(* Notifications *)

Slip_Unreceipted(s, c) == OnTask(c, Home[s])

\* claimCommentNotification inserts a receipt: the comment is in this
\* session's own store, and the session has none for it.
Claims(s, c) == OnTask(c, Home[s]) /\ <<c, s>> \notin receipts

Notify(s, c) ==
    IF Claims(s, c)
    THEN /\ receipts' = receipts \cup {<<c, s>>}
         /\ ready' = [ready EXCEPT ![s] = c]
    ELSE UNCHANGED << receipts, ready >>

NotifyPosted(s) ==
    /\ posted[s] # 0
    /\ Notify(s, posted[s])
    /\ posted' = [posted EXCEPT ![s] = 0]
    /\ UNCHANGED << comments, phase, due, answer, calls, acknowledged >>

Call(s) ==
    /\ ready[s] # 0
    /\ calls' = [calls EXCEPT ![s][ready[s]] = @ + 1]
    /\ ready' = [ready EXCEPT ![s] = 0]
    /\ UNCHANGED << store, phase, due, posted, answer, acknowledged >>

SessionStart(s) ==
    /\ phase[s] = "down"
    /\ phase' = [phase EXCEPT ![s] = "starting"]
    /\ UNCHANGED << store, due, posted, ready, answer, calls, acknowledged >>

Unnotified(s) ==
    { c \in DOMAIN comments :
        /\ comments[c].project = Home[s] /\ comments[c].role = "user"
        /\ <<c, s>> \notin receipts }

Slip_NewestOnly(s) == { c \in Unnotified(s) : \A d \in Unnotified(s) : d <= c }

Listed(s) == Unnotified(s)

\* reconcileOneUndelivered reads the list once, and no more is read later.
Reconcile(s) ==
    /\ Free(s) /\ phase[s] = "starting"
    /\ due' = [due EXCEPT ![s] = Listed(s)]
    /\ phase' = [phase EXCEPT ![s] = "up"]
    /\ UNCHANGED << store, posted, ready, answer, calls, acknowledged >>

\* The doorbell of a pending request, rung first, has failed: the start ends
\* before the comments are read.
DoorbellFails(s) ==
    /\ Free(s) /\ phase[s] = "starting"
    /\ phase' = [phase EXCEPT ![s] = "unread"]
    /\ UNCHANGED << store, due, posted, ready, answer, calls, acknowledged >>

\* The loop goes on when the last callback has settled; the server may have
\* handled requests since.
NotifyDue(s) ==
    /\ Free(s)
    /\ \E c \in due[s] :
        /\ \A d \in due[s] : c <= d
        /\ due' = [due EXCEPT ![s] = @ \ {c}]
        /\ Notify(s, c)
    /\ UNCHANGED << comments, phase, posted, answer, calls, acknowledged >>

---------------------------------------------------------------------------
(* Answers: mazzy_discussion and the import of an agent's comment *)

\* respondToDiscussion reads the task and the run's binding, and may refuse.
Answers(s, to) ==
    /\ Free(s) /\ Room
    /\ answer' = [answer EXCEPT ![s] = [ step |-> "store", to |-> to ]]
    /\ UNCHANGED << store, phase, due, posted, ready, calls, acknowledged >>

\* addComment; a replyTo that is not on this task is refused.
StoreAnswer(s) ==
    /\ answer[s].step = "store"
    /\ LET to == answer[s].to IN
        IF to # 0 /\ ~OnTask(to, Home[s])
        THEN /\ answer' = [answer EXCEPT ![s] = NoAnswer]
             /\ UNCHANGED comments
        ELSE /\ Added(Home[s], "agent", to)
             /\ answer' = [answer EXCEPT ![s] = IF to = 0 THEN NoAnswer
                                                ELSE [@ EXCEPT !.step = "acknowledge"]]
    /\ UNCHANGED << receipts, phase, due, posted, ready, calls, acknowledged >>

\* Only a user's comment that is still "sent" is acknowledged, with an event.
Acknowledge(s) ==
    /\ answer[s].step = "acknowledge"
    /\ LET c == answer[s].to
           fresh == comments[c].role = "user" /\ comments[c].state = "sent" IN
        /\ comments' = IF fresh THEN [comments EXCEPT ![c].state = "acknowledged"] ELSE comments
        /\ acknowledged' = IF fresh THEN [acknowledged EXCEPT ![c] = @ + 1] ELSE acknowledged
    /\ answer' = [answer EXCEPT ![s] = NoAnswer]
    /\ UNCHANGED << receipts, phase, due, posted, ready, calls >>

---------------------------------------------------------------------------

\* The process ends or dies; the session may be resumed with its id.
Stop(s) ==
    /\ phase[s] # "down"
    /\ phase' = [phase EXCEPT ![s] = "down"]
    /\ due' = [due EXCEPT ![s] = {}]
    /\ posted' = [posted EXCEPT ![s] = 0]
    /\ ready' = [ready EXCEPT ![s] = 0]
    /\ answer' = [answer EXCEPT ![s] = NoAnswer]
    /\ UNCHANGED << store, calls, acknowledged >>

\* The steps a process takes once it has begun something.
Continue(s) ==
    NotifyPosted(s) \/ Call(s) \/ Reconcile(s) \/ NotifyDue(s)
        \/ StoreAnswer(s) \/ Acknowledge(s)

Next ==
    \E s \in Sessions :
        \/ \E p \in Projects, to \in Ids \cup {0} : Post(s, p, to)
        \/ \E c \in Ids : PostAgain(s, c)
        \/ \E to \in Ids \cup {0} : Answers(s, to)
        \/ SessionStart(s) \/ DoorbellFails(s) \/ Continue(s) \/ Stop(s)

Spec == Init /\ [][Next]_vars

\* The event loop runs what was begun, and new requests do not hold back the
\* continuation of a promise for ever.
FairSpec ==
    /\ Spec
    /\ \A s \in Sessions :
        WF_vars(Continue(s)) /\ SF_vars(Reconcile(s)) /\ SF_vars(NotifyDue(s))

---------------------------------------------------------------------------
(* Properties *)

\* However a comment reaches a session - the request that stored it, a retry
\* of that request, the list of a start or of a resumed start - the session is
\* called back about it at most once.
CalledOnce == \A s \in Sessions, c \in Ids : calls[s][c] <= 1

\* A comment is acknowledged once, and only when an answer to it is stored,
\* although the two are transactions of their own.
AcknowledgedIsAnswered ==
    \A c \in Ids :
        /\ acknowledged[c] <= 1
        /\ acknowledged[c] = 1 =>
            \E a \in DOMAIN comments : comments[a].role = "agent" /\ comments[a].replyTo = c

Owed(s, c) ==
    /\ c \in DOMAIN comments /\ comments[c].role = "user"
    /\ comments[c].project = Home[s]
    /\ <<c, s>> \notin receipts

\* A session that starts is called back about every comment its project has
\* then and it has no receipt for, unless the doorbell of that start fails, and
\* about each it stores itself; or its process stops.
OwedIsTold ==
    \A s \in Sessions, c \in Ids :
        /\ phase[s] = "starting" /\ Owed(s, c)
              ~> calls[s][c] = 1 \/ phase[s] \in {"down", "unread"}
        /\ posted[s] = c /\ Owed(s, c) ~> calls[s][c] = 1 \/ phase[s] = "down"
=============================================================================
