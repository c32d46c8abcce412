----------------------------- MODULE EventStream -----------------------------
(***************************************************************************)
(* The live event stream of the dashboard (server.ts openEventStream,      *)
(* static/index.html consumeStream).  Several processes append to the one  *)
(* events table of the shared database.  A process fans an event out to    *)
(* the streams it serves itself, right after the commit; what another      *)
(* process committed reaches a stream with the next heartbeat.  A browser  *)
(* tab that loses its stream opens it again at the last id it has seen,    *)
(* and takes a full snapshot when it is told that the gap is too wide.     *)
(*                                                                         *)
(* A handler of the server runs without an await, so it is one step; an    *)
(* event is its id, its place in the log.  A frame in flight is lost when  *)
(* the connection breaks.                                                  *)
(***************************************************************************)
EXTENDS Naturals, Sequences

CONSTANTS
    Procs,          \* processes, each with a server of its own
    Tabs,           \* browser tabs
    Null,           \* no server
    ReplayLimit,    \* EVENT_REPLAY_LIMIT
    MaxEvents       \* bound: events ever committed

ASSUME StreamAssumption ==
    /\ Null \notin Procs
    /\ ReplayLimit \in Nat \ {0}
    /\ MaxEvents \in Nat

VARIABLES
    log,            \* the events table: the process that committed each id
    server,         \* [Tabs -> the process that serves the tab's stream]
    delivered,      \* [Tabs -> the high-water mark of the tab's stream]
    wire,           \* [Tabs -> frames written and not yet read]
    cursor,         \* [Tabs -> STREAM_CURSOR]
    seen            \* [Tabs -> ids the tab has been told of; history]

vars == << log, server, delivered, wire, cursor, seen >>

Ids == 1..MaxEvents
Kinds == { "ops-event", "mazzy-reset" }
Frame == [ kind: Kinds, id: 0..MaxEvents ]

TypeOK ==
    /\ log \in Seq(Procs) /\ Len(log) <= MaxEvents
    /\ server \in [Tabs -> Procs \cup {Null}]
    /\ delivered \in [Tabs -> 0..Len(log)]
    /\ wire \in [Tabs -> Seq(Frame)]
    /\ cursor \in [Tabs -> 0..Len(log)]
    /\ seen \in [Tabs -> SUBSET (1..Len(log))]

---------------------------------------------------------------------------
(* The server *)

MaxOf(m, n) == IF m < n THEN n ELSE m

\* The frames of the events from..to, in order.
EventFrames(from, to) ==
    [k \in 1..(IF to < from THEN 0 ELSE to - from + 1) |->
        [kind |-> "ops-event", id |-> from + k - 1]]

ResetFrame == [kind |-> "mazzy-reset", id |-> Len(log)]

\* listEvents(after, EVENT_REPLAY_LIMIT): the oldest ids after the cursor.
Replay(after) ==
    EventFrames(after + 1, IF Len(log) - after > ReplayLimit THEN after + ReplayLimit ELSE Len(log))

\* The mark after the frames: each one can only raise it.
MarkAfter(mark, frames) ==
    IF frames = << >> THEN mark ELSE MaxOf(mark, frames[Len(frames)].id)

Slip_GapOneWide(from) == Len(log) - from > ReplayLimit + 1

TooWide(from) == Len(log) - from > ReplayLimit

\* What a stream is sent when it is at `from': a reset, or the replay.
CatchUp(from) == IF TooWide(from) THEN << ResetFrame >> ELSE Replay(from)

Init ==
    /\ log = << >>
    /\ server = [c \in Tabs |-> Null]
    /\ delivered = [c \in Tabs |-> 0]
    /\ wire = [c \in Tabs |-> << >>]
    /\ cursor = [c \in Tabs |-> 0]
    /\ seen = [c \in Tabs |-> {}]

\* GET /api/stream with Last-Event-ID.
OpenStream(c, p) ==
    /\ server[c] = Null
    /\ server' = [server EXCEPT ![c] = p]
    /\ wire' = [wire EXCEPT ![c] = CatchUp(cursor[c])]
    /\ delivered' = [delivered EXCEPT ![c] = MarkAfter(cursor[c], CatchUp(cursor[c]))]
    /\ UNCHANGED << log, cursor, seen >>

\* A transaction of p commits n events and fans them out to p's streams.
Slip_FannedOutAhead(n) == EventFrames(Len(log) + 2, Len(log) + n + 1)

FannedOut(n) == EventFrames(Len(log) + 1, Len(log) + n)

Commit(p, n) ==
    /\ Len(log) + n <= MaxEvents
    /\ log' = log \o [k \in 1..n |-> p]
    /\ wire' = [c \in Tabs |-> IF server[c] = p THEN wire[c] \o FannedOut(n) ELSE wire[c]]
    /\ delivered' = [c \in Tabs |-> IF server[c] = p THEN MarkAfter(delivered[c], FannedOut(n))
                                                     ELSE delivered[c]]
    /\ UNCHANGED << server, cursor, seen >>

\* The tick compares the mark with the latest id of the shared table.
Slip_CaughtUp(c) == Len(log) - delivered[c] \notin 1..ReplayLimit

CaughtUp(c) == Len(log) <= delivered[c]

Slip_HeartbeatFrom(c) == cursor[c]

HeartbeatFrom(c) == delivered[c]

Heartbeat(c) ==
    /\ server[c] # Null
    /\ ~CaughtUp(c)
    /\ wire' = [wire EXCEPT ![c] = @ \o CatchUp(HeartbeatFrom(c))]
    /\ delivered' = [delivered EXCEPT ![c] = MarkAfter(@, CatchUp(HeartbeatFrom(c)))]
    /\ UNCHANGED << log, server, cursor, seen >>

\* Either side closes the connection, or the server stops.
CloseStream(c) ==
    /\ server[c] # Null
    /\ server' = [server EXCEPT ![c] = Null]
    /\ wire' = [wire EXCEPT ![c] = << >>]
    /\ UNCHANGED << log, delivered, cursor, seen >>

---------------------------------------------------------------------------
(* The browser tab *)

\* After a reset the tab reads a whole snapshot, which shows every event
\* committed until then.
ReadFrame(c) ==
    /\ wire[c] # << >>
    /\ LET f == Head(wire[c])
       IN  /\ cursor' = [cursor EXCEPT ![c] = MaxOf(@, f.id)]
           /\ seen' = [seen EXCEPT ![c] =
                          IF f.kind = "mazzy-reset" THEN 1..Len(log) ELSE @ \cup {f.id}]
    /\ wire' = [wire EXCEPT ![c] = Tail(@)]
    /\ UNCHANGED << log, server, delivered >>

Next ==
    \/ \E p \in Procs, n \in 1..2 : Commit(p, n)
    \/ \E c \in Tabs :
        \/ \E p \in Procs : OpenStream(c, p)
        \/ Heartbeat(c) \/ CloseStream(c) \/ ReadFrame(c)

\* The interval timer of an open stream keeps firing and the tab keeps reading.
Spec == Init /\ [][Next]_vars
FairSpec == Spec /\ \A c \in Tabs : WF_vars(Heartbeat(c)) /\ WF_vars(ReadFrame(c))

---------------------------------------------------------------------------
(* Properties *)

\* No event is written twice to a stream and none after a later one: the
\* ids on the wire rise, and start above what the tab has read.
FramesRise ==
    \A c \in Tabs :
        /\ \A m, n \in DOMAIN wire[c] : m < n => wire[c][m].id < wire[c][n].id
        /\ server[c] # Null => \A n \in DOMAIN wire[c] :
              cursor[c] < wire[c][n].id /\ wire[c][n].id <= delivered[c]

\* The id a tab resumes at leaves no event behind: whatever the order of
\* replay, fan-out, heartbeat, reset and lost connections, a tab was told of
\* every event up to its cursor.
NothingSkipped == \A c \in Tabs : 1..cursor[c] \subseteq seen[c]

\* Only events of other processes can be passed over (NothingSkipped fails when
\* there are any): a step of the cursor never passes an event of the process
\* that serves the tab without telling it, whatever the order of replay,
\* fan-out, heartbeat, reset and lost connections.
OwnNeverSkipped ==
    [][\A c \in Tabs : cursor'[c] > cursor[c] =>
          { i \in (cursor[c] + 1)..cursor'[c] : log[i] = server[c] } \subseteq seen'[c]]_vars

\* A stream that stays open brings the tab to the end of the log.
TabCatchesUp ==
    \A c \in Tabs : <>[](server[c] # Null) => <>[](cursor[c] = Len(log))
=============================================================================
