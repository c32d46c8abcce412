---------------------------- MODULE ControlPlane ----------------------------
(***************************************************************************)
(* Dashboard orchestration over the durable task kernel: GO, PAUSE and     *)
(* STOP requests (store.ts), their doorbell delivery to a parent session   *)
(* (server.ts), and the recovery each session runs once when it starts     *)
(* (index.ts).  Several parent sessions, each a process with its own       *)
(* server, share the one database.                                         *)
(*                                                                         *)
(* A store transaction is one step.  Where a server decides on a row it has *)
(* read before, or awaits the doorbell callback, the steps of other        *)
(* sessions come in between.  A session may stop at any point; what its    *)
(* server held in memory is lost.                                          *)
(*                                                                         *)
(* Abstractions: a request is named by its place in `requests', the order  *)
(* of (requested_at, id); agent, instructions and cycle limits, which the  *)
(* guards never read, are left out; a child session is named by its run.   *)
(* The parent is an agent that may claim, complete or fail any request     *)
(* through its tool at any time, with or without a doorbell.               *)
(***************************************************************************)
EXTENDS TaskStore

CONSTANT MaxRequests    \* bound: requests ever posted

ASSUME RequestAssumption == MaxRequests \in Nat

VARIABLES
    requests,       \* orchestration_requests rows, in order of request
    claims,         \* the CLAIMED requests, in order of claimed_at
    phase,          \* [Sessions -> where the session's process is]
    candidate,      \* [Sessions -> the claim its recovery has read, or 0]
    ringing         \* [Sessions -> the requests its server is delivering]

control == << requests, claims, phase, candidate, ringing >>
cvars == << vars, control >>

Requests == 1..MaxRequests
Commands == { "GO", "PAUSE", "STOP" }
RequestStates == { "REQUESTED", "DELIVERED", "CLAIMED", "COMPLETED", "FAILED" }
Outstanding == { "REQUESTED", "DELIVERED", "CLAIMED" }

\* expected is expected_task_revision; origin is the session whose server
\* took the request (part of the fingerprint), parent the column
\* parent_session_id, which a claim overwrites.
RequestRow == [ task: Tasks, expected: 1..MaxRevision, command: Commands,
                state: RequestStates, target: Runs \cup {Null},
                origin: Sessions, parent: Sessions, child: Runs \cup {Null} ]

\* A session recovers when it starts, in three steps without an await: it
\* reads the oldest claim, settles it if it must, and picks the next request
\* to deliver.
Phases == { "down", "settle", "next", "up" }

ControlTypeOK ==
    /\ requests \in Seq(RequestRow) /\ Len(requests) <= MaxRequests
    /\ claims \in Seq(DOMAIN requests)
    /\ { claims[n] : n \in DOMAIN claims } = { i \in DOMAIN requests : requests[i].state = "CLAIMED" }
    /\ phase \in [Sessions -> Phases]
    /\ candidate \in [Sessions -> 0..Len(requests)]
    /\ ringing \in [Sessions -> SUBSET (DOMAIN requests)]

---------------------------------------------------------------------------
(* Queries *)

GoApplicable(t) ==
    /\ tasks[t].state \in {"BACKLOG", "READY", "BLOCKED"}
    /\ ActiveWorkers(t) = {}

TargetApplicable(t, r) ==
    /\ tasks[t].state = "RUNNING"
    /\ r \in ActiveWorkers(t)
    /\ Current(t, r)

\* The outstanding GO requests a new one would coalesce onto.
Slip_CoalesceUnclaimed(t) ==
    { i \in DOMAIN requests :
        /\ requests[i].task = t
        /\ requests[i].expected = tasks[t].revision
        /\ requests[i].command = "GO"
        /\ requests[i].state \in {"REQUESTED", "DELIVERED"} }

OutstandingGo(t) ==
    { i \in DOMAIN requests :
        /\ requests[i].task = t
        /\ requests[i].expected = tasks[t].revision
        /\ requests[i].command = "GO"
        /\ requests[i].state \in Outstanding }

Oldest(S) == { i \in S : \A j \in S : i <= j }

Slip_OldestOutstanding == Oldest({ i \in DOMAIN requests : requests[i].state \in Outstanding })

NextUndelivered == Oldest({ i \in DOMAIN requests : requests[i].state = "REQUESTED" })

\* The request can still be acted upon.
Actionable(i) ==
    LET q == requests[i]
    IN  IF q.command = "GO"
        THEN tasks[q.task].revision = q.expected /\ GoApplicable(q.task)
        ELSE TargetApplicable(q.task, q.target)

\* Recovery leaves a claim alone when something shows that it was acted on:
\* for GO any run, of either role, the owner bound since; for PAUSE and
\* STOP a target that is still the running worker.
MatchingRun(i) ==
    LET q == requests[i]
    IN  IF q.command = "GO"
        THEN \E r \in Workers(q.task) \cup Reviewers(q.task) :
                bindings[r].parent = q.parent /\ bindings[r].epoch >= q.expected
        ELSE TargetApplicable(q.task, q.target)

\* Session start passes no predicate, so an owner counts as available when
\* it is the very session that recovers.
Slip_EveryOwner(s, p) == p \in Sessions

OwnerAvailable(s, p) == p = s

---------------------------------------------------------------------------
(* Requests *)

ControlInit ==
    /\ Init
    /\ requests = << >>
    /\ claims = << >>
    /\ phase = [s \in Sessions |-> "down"]
    /\ candidate = [s \in Sessions |-> 0]
    /\ ringing = [s \in Sessions |-> {}]

\* POST /orchestration: the row is committed, then deliver reads it and
\* awaits the callback.
Post(s, t, c, r) ==
    /\ phase[s] = "up"
    /\ Len(requests) < MaxRequests
    /\ Exists(t)
    /\ IF c = "GO" THEN GoApplicable(t) /\ OutstandingGo(t) = {} /\ r = Null
                   ELSE TargetApplicable(t, r)
    /\ requests' = Append(requests,
          [task |-> t, expected |-> tasks[t].revision, command |-> c,
           state |-> "REQUESTED", target |-> r, origin |-> s, parent |-> s,
           child |-> Null])
    /\ ringing' = [ringing EXCEPT ![s] = @ \cup {Len(requests) + 1}]
    /\ UNCHANGED << vars, claims, phase, candidate >>

\* The same POST sent again, or a GO that coalesces onto an outstanding one:
\* no row is written, and deliver is called for the row there is.  It rings
\* for a REQUESTED one that this server is not ringing for already.
PostAgain(s, i) ==
    /\ phase[s] = "up"
    /\ requests[i].state = "REQUESTED"
    /\ i \notin ringing[s]
    /\ \/ requests[i].origin = s
       \/ \E t \in Tasks : GoApplicable(t) /\ i \in Oldest(OutstandingGo(t))
    /\ ringing' = [ringing EXCEPT ![s] = @ \cup {i}]
    /\ UNCHANGED << vars, requests, claims, phase, candidate >>

\* The callback throws: the row stays REQUESTED for the next session start.
RingFails(s, i) ==
    /\ i \in ringing[s]
    /\ ringing' = [ringing EXCEPT ![s] = @ \ {i}]
    /\ UNCHANGED << vars, requests, claims, phase, candidate >>

Slip_DeliveredState(i) == "DELIVERED"

DeliveredState(i) ==
    IF requests[i].state = "REQUESTED" THEN "DELIVERED" ELSE requests[i].state

\* The callback returns, and the row is marked if it is still REQUESTED.
MarkDelivered(s, i) ==
    /\ i \in ringing[s]
    /\ requests' = [requests EXCEPT ![i].state = DeliveredState(i)]
    /\ ringing' = [ringing EXCEPT ![s] = @ \ {i}]
    /\ UNCHANGED << vars, claims, phase, candidate >>

\* A claim of a CLAIMED request returns the row, whoever asks, and is no step.
Slip_ClaimableWhenApplicable(i) ==
    /\ requests[i].state \in {"REQUESTED", "DELIVERED"}
    /\ IF requests[i].command = "GO" THEN GoApplicable(requests[i].task) ELSE Actionable(i)

Claimable(i) == requests[i].state \in {"REQUESTED", "DELIVERED"} /\ Actionable(i)

Claim(s, i) ==
    /\ phase[s] = "up"
    /\ Claimable(i)
    /\ requests' = [requests EXCEPT ![i].state = "CLAIMED", ![i].parent = s]
    /\ claims' = Append(claims, i)
    /\ UNCHANGED << vars, phase, candidate, ringing >>

\* The claims without request i, which is among them at most once.
Unclaimed(i) ==
    LET k == CHOOSE n \in DOMAIN claims : claims[n] = i
    IN  IF \E n \in DOMAIN claims : claims[n] = i
        THEN [n \in 1..(Len(claims) - 1) |-> IF n < k THEN claims[n] ELSE claims[n + 1]]
        ELSE claims

\* The run a GO may be completed with.  Its state and its acceptance are not
\* looked at.
Slip_AnyEpochAnswers(i, r) ==
    /\ r \in Workers(requests[i].task)
    /\ bindings[r].parent = requests[i].parent

Answers(i, r) ==
    /\ r \in Workers(requests[i].task)
    /\ bindings[r].parent = requests[i].parent
    /\ bindings[r].epoch >= requests[i].expected

\* Any session may complete or fail a request, the claimer's or not.
Complete(s, i, r) ==
    /\ phase[s] = "up"
    /\ requests[i].state = "CLAIMED"
    /\ IF requests[i].command = "GO" THEN r \in Runs /\ Answers(i, r) ELSE r = Null
    /\ requests' = [requests EXCEPT ![i].state = "COMPLETED", ![i].child = r]
    /\ claims' = Unclaimed(i)
    /\ UNCHANGED << vars, phase, candidate, ringing >>

Fail(s, i) ==
    /\ phase[s] = "up"
    /\ requests[i].state \in Outstanding
    /\ requests' = [requests EXCEPT ![i].state = "FAILED"]
    /\ claims' = Unclaimed(i)
    /\ UNCHANGED << vars, phase, candidate, ringing >>

---------------------------------------------------------------------------
(* Sessions *)

\* reconcileOneClaimedRequest reads the oldest claim, and only that one,
\* outside the transaction that settles it.
NeedsRecovery(s, i) == ~OwnerAvailable(s, requests[i].parent) /\ ~MatchingRun(i)

SessionStart(s) ==
    /\ phase[s] = "down"
    /\ IF claims # << >> /\ NeedsRecovery(s, Head(claims))
       THEN /\ phase' = [phase EXCEPT ![s] = "settle"]
            /\ candidate' = [candidate EXCEPT ![s] = Head(claims)]
       ELSE /\ phase' = [phase EXCEPT ![s] = "next"]
            /\ UNCHANGED candidate
    /\ UNCHANGED << vars, requests, claims, ringing >>

\* session_shutdown, or the process dies: the server's memory goes.
SessionStop(s) ==
    /\ phase[s] # "down"
    /\ phase' = [phase EXCEPT ![s] = "down"]
    /\ candidate' = [candidate EXCEPT ![s] = 0]
    /\ ringing' = [ringing EXCEPT ![s] = {}]
    /\ UNCHANGED << vars, requests, claims >>

\* The update matches a row that is CLAIMED, by whomever, by now.
Slip_Requeue(i) ==
    [requests EXCEPT ![i].state = IF @ = "FAILED" THEN @
                                  ELSE IF requests[i].command = "GO" THEN "REQUESTED" ELSE "FAILED"]

Requeue(i) ==
    [requests EXCEPT ![i].state = IF @ # "CLAIMED" THEN @
                                  ELSE IF requests[i].command = "GO" THEN "REQUESTED" ELSE "FAILED"]

RecoverSettle(s) ==
    /\ phase[s] = "settle"
    /\ requests' = Requeue(candidate[s])
    /\ claims' = Unclaimed(candidate[s])
    /\ phase' = [phase EXCEPT ![s] = "next"]
    /\ candidate' = [candidate EXCEPT ![s] = 0]
    /\ UNCHANGED << vars, ringing >>

RecoverNext(s) ==
    /\ phase[s] = "next"
    /\ phase' = [phase EXCEPT ![s] = "up"]
    /\ ringing' = [ringing EXCEPT ![s] = NextUndelivered]
    /\ UNCHANGED << vars, requests, claims, candidate >>

\* A call of the task kernel; a run is bound by a session that is there.
StoreCall ==
    /\ Next
    /\ \A r \in Runs : bindings[r] # bindings'[r] /\ bindings[r] = NoBinding =>
                          phase[bindings'[r].parent] = "up"
    /\ UNCHANGED control

ControlNext ==
    \/ StoreCall
    \/ \E s \in Sessions :
        \/ SessionStart(s) \/ SessionStop(s)
        \/ RecoverSettle(s) \/ RecoverNext(s)
        \/ \E t \in Tasks, c \in Commands, r \in Runs \cup {Null} : Post(s, t, c, r)
        \/ \E i \in DOMAIN requests :
            \/ PostAgain(s, i)
            \/ RingFails(s, i) \/ MarkDelivered(s, i)
            \/ Claim(s, i) \/ Fail(s, i)
            \/ \E r \in Runs \cup {Null} : Complete(s, i, r)

ControlSpec == ControlInit /\ [][ControlNext]_cvars

\* What a server has begun it goes on with: its steps need nothing from
\* outside but the callback, which does not fail for ever.  They are strongly
\* fair because a session may stop before any of them and start again.
Fairness ==
    \A s \in Sessions :
        /\ SF_cvars(RecoverSettle(s)) /\ SF_cvars(RecoverNext(s))
        /\ \A i \in Requests : SF_cvars(MarkDelivered(s, i))

ControlFairSpec == ControlSpec /\ Fairness

---------------------------------------------------------------------------
(* Properties *)

IsGo(i) == requests[i].command = "GO"

\* Rapid GO clicks are one request: no two outstanding GO requests were made
\* for the same revision of a task, whichever sessions took them and however
\* often recovery put one back in the queue.
OneOutstandingGo ==
    \A i, j \in DOMAIN requests :
        /\ IsGo(i) /\ requests[i].state \in Outstanding
        /\ IsGo(j) /\ requests[j].state \in Outstanding
        /\ requests[i].task = requests[j].task
        /\ requests[i].expected = requests[j].expected
        => i = j

\* The expected revision stands for what the operator saw: as long as the
\* task has the revision a GO was posted at, the GO is still applicable, so
\* nothing that would refuse it happens without a new revision.
FreshGoIsApplicable ==
    \A i \in DOMAIN requests :
        IsGo(i) /\ requests[i].expected = tasks[requests[i].task].revision =>
            GoApplicable(requests[i].task)

\* A completed GO was answered by a worker launched for it: a run of its
\* task, bound by the session that claimed it, after it was posted.
CompletedGoWasLaunched ==
    \A i \in DOMAIN requests :
        IsGo(i) /\ requests[i].state = "COMPLETED" =>
            LET r == requests[i].child
            IN  /\ r \in Workers(requests[i].task)
                /\ bindings[r].parent = requests[i].parent
                /\ bindings[r].epoch > requests[i].expected

\* A GO starts at most one recorded run: once any run of the task was bound
\* at or after its revision it cannot be claimed again, although recovery
\* may have put it back in the queue while its owner was binding that run.
LaunchedGoIsSpent ==
    [][\A i \in DOMAIN requests :
         IsGo(i) /\ requests[i].state # "CLAIMED" /\ requests'[i].state = "CLAIMED" =>
            \A r \in Workers(requests[i].task) \cup Reviewers(requests[i].task) :
                bindings[r].epoch < requests[i].expected]_cvars

\* A request that was completed or failed never changes: a recovery that
\* read the claim before does not put it back in the queue.
EndedForGood ==
    [][\A i \in DOMAIN requests :
         requests[i].state \in {"COMPLETED", "FAILED"} => requests'[i] = requests[i]]_cvars

\* A doorbell that was rung late does not undo a claim: a CLAIMED request
\* leaves that state only by completing, by failing or, for a GO, by a
\* recovery that queues it again.
ClaimOutlivesDelivery ==
    [][\A i \in DOMAIN requests :
         requests[i].state = "CLAIMED" =>
            requests'[i].state \in {"CLAIMED", "COMPLETED", "FAILED"}
                                   \cup (IF IsGo(i) THEN {"REQUESTED"} ELSE {})]_cvars

\* Sessions come up again and again, each far enough to look for work.
SessionsReturn == []<>(\E s \in Sessions : phase[s] = "next")

\* A request whose doorbell was lost is rung by a later session start: if
\* sessions return and claims do not stay in the way (each return serves one
\* request, the oldest), no request stays REQUESTED.
QueueDrains ==
    SessionsReturn /\ <>[](claims = << >>) =>
        \A i \in Requests :
            []<>(i \in DOMAIN requests => requests[i].state # "REQUESTED")

\* The owner is gone and bound nothing.
Abandoned(i) ==
    /\ i \in DOMAIN requests
    /\ IsGo(i)
    /\ requests[i].state = "CLAIMED"
    /\ phase[requests[i].parent] = "down"
    /\ \A r \in Runs : bindings[r].parent # requests[i].parent

\* An abandoned GO does not stay claimed while other sessions return, when it
\* is the oldest claim.
AbandonedGoReturns ==
    SessionsReturn =>
        \A i \in Requests : ~<>[](Abandoned(i) /\ Head(claims) = i)

\* Session-start recovery puts a claimed GO back in the queue only when the
\* session that claimed it is not there ("If the owning parent session is
\* unavailable", skills/mazzy-orchestrator/SKILL.md).
RecoversOnlyUnavailable ==
    [][\A i \in DOMAIN requests :
         requests[i].state = "CLAIMED" /\ requests'[i].state = "REQUESTED" =>
            phase[requests[i].parent] = "down"]_cvars
=============================================================================
