---------------------------- MODULE DataMoveProofs ----------------------------
(***************************************************************************)
(* Moves into one store for any number of movers, sources, tasks and       *)
(* comments.  The lock keeps all but one mover out of the destination      *)
(* (LockHeld), so the keys a mover found there or created are all there    *)
(* are (KeysKnown) and a replay is told from a new task.  The comments     *)
(* copied and those still ahead make up what the source had (HistoryDue).  *)
(* That a merge which swallows a conflict loses nothing it promised rests  *)
(* on its key: whatever took it was made with that content (MergedAlike).  *)
(* All of it is said of how a row was created, which the sessions of the   *)
(* destination do not change whatever they make of the row.                *)
(***************************************************************************)
EXTENDS DataMove, TLAPS

Requests == [ from: Projects, op: Ops ]
Scopes == Ids \cup { PathScope }

LockHeld == \A m \in Movers : phase[m] \in { "locked", "importing" } => lock = m

JobKnown ==
    \A m \in Movers :
        /\ phase[m] \in { "planned", "locked", "importing" } => job[m] \in Requests
        /\ phase[m] = "importing" => scope[m] \in Scopes

AtRest == \A m \in Movers : phase[m] # "importing" => imported[m] = {} /\ copying[m] = Nothing

KeysKnown ==
    \A m \in Movers : phase[m] = "importing" =>
        \A k \in Keys : Present(k) <=> k \in pre[m] \cup imported[m]

HistoryDue ==
    \A m \in Movers : copying[m] # Nothing =>
        /\ copying[m].left >= 1 /\ Present(copying[m].key)
        /\ dest[copying[m].key].comments + copying[m].left = dest[copying[m].key].had

MergedAlike ==
    \A c \in Contents : Present([ merged |-> c ]) => dest[[ merged |-> c ]].print[1] = c

\* A picked row has its task in the destination once its round is over.
There(m, row) ==
    /\ Present(KeyOf(m, row))
    /\ dest[KeyOf(m, row)].print[1] = row.content
    /\ job[m].op # "merge" => dest[KeyOf(m, row)].print[2] = row.meta

Arrived ==
    \A m \in Movers : phase[m] = "importing" =>
        todo[m] \subseteq picked[m] /\ \A row \in picked[m] \ todo[m] : There(m, row)

MoveInv == /\ TypeOK /\ LockHeld /\ JobKnown /\ AtRest /\ KeysKnown /\ HistoryDue
           /\ MergedAlike /\ Arrived /\ CommentsCopiedOnce

---------------------------------------------------------------------------
(* Rows and keys *)

LEMMA PresentRow ==
  ASSUME TypeOK, NEW k \in Keys
  PROVE  /\ Present(k) => dest[k] \in DestRow
         /\ ~Present(k) => dest[k] = NoRow
         /\ dest[k].comments \in Nat /\ dest[k].had \in 0..MaxComments
  BY BoundAssumption DEF TypeOK, Present, NoRow, DestRow

LEMMA RowIsPresent ==
  ASSUME NEW r \in DestRow
  PROVE  r # NoRow
  BY NullAssumption DEF DestRow, NoRow

LEMMA OneMoreComment ==
  ASSUME NEW r \in DestRow
  PROVE  /\ [r EXCEPT !.comments = @ + 1] \in DestRow
         /\ [r EXCEPT !.comments = @ + 1].comments = r.comments + 1
         /\ [r EXCEPT !.comments = @ + 1].had = r.had
         /\ [r EXCEPT !.comments = @ + 1].print = r.print
  <1>1. r.comments \in Nat /\ r.comments + 1 \in Nat
    BY DEF DestRow
  <1> QED
    BY <1>1 DEF DestRow

LEMMA Edited ==
  ASSUME NEW r \in DestRow, NEW c \in Contents, NEW x \in Metas
  PROVE  /\ [r EXCEPT !.content = c, !.meta = x] \in DestRow
         /\ [r EXCEPT !.content = c, !.meta = x].comments = r.comments
         /\ [r EXCEPT !.content = c, !.meta = x].had = r.had
         /\ [r EXCEPT !.content = c, !.meta = x].print = r.print
  BY DEF DestRow

LEMMA WorkedOn ==
  ASSUME NEW r \in DestRow
  PROVE  /\ [r EXCEPT !.worked = TRUE] \in DestRow
         /\ [r EXCEPT !.worked = TRUE].comments = r.comments
         /\ [r EXCEPT !.worked = TRUE].had = r.had
         /\ [r EXCEPT !.worked = TRUE].print = r.print
  BY DEF DestRow

\* The destination's sessions leave every row where it is, as it was made and
\* with its imported comments.
LEMMA SessionsLeave ==
  ASSUME TypeOK, NEW k \in Keys, EditDest(k) \/ WorkOn(k)
  PROVE  /\ dest' \in [Keys -> DestRow \cup {NoRow}]
         /\ \A j \in Keys : /\ dest'[j] # NoRow <=> dest[j] # NoRow
                            /\ dest'[j].print = dest[j].print
                            /\ dest'[j].comments = dest[j].comments /\ dest'[j].had = dest[j].had
  <1>1. dest[k] \in DestRow /\ dest[k] # NoRow
    BY PresentRow DEF EditDest, WorkOn, Present
  <1>2. PICK r \in DestRow : /\ dest' = [dest EXCEPT ![k] = r]
                             /\ r.print = dest[k].print
                             /\ r.comments = dest[k].comments /\ r.had = dest[k].had
    <2>1. ASSUME NEW c \in Contents, NEW x \in Metas,
                 dest' = [dest EXCEPT ![k].content = c, ![k].meta = x]
          PROVE  dest' = [dest EXCEPT ![k] = [dest[k] EXCEPT !.content = c, !.meta = x]]
      BY <2>1 DEF TypeOK
    <2>2. CASE EditDest(k)
      <3>1. PICK c \in Contents, x \in Metas :
               dest' = [dest EXCEPT ![k].content = c, ![k].meta = x]
        BY <2>2 DEF EditDest
      <3>2. dest' = [dest EXCEPT ![k] = [dest[k] EXCEPT !.content = c, !.meta = x]]
        BY <2>1, <3>1
      <3>3. PICK r : r = [dest[k] EXCEPT !.content = c, !.meta = x]
        OBVIOUS
      <3>4. /\ r \in DestRow /\ r.print = dest[k].print
            /\ r.comments = dest[k].comments /\ r.had = dest[k].had
        BY <1>1, <3>3, Edited
      <3> QED
        BY <3>2, <3>3, <3>4
    <2>3. CASE WorkOn(k)
      <3>1. dest' = [dest EXCEPT ![k] = [dest[k] EXCEPT !.worked = TRUE]]
        BY <2>3 DEF WorkOn, TypeOK
      <3> QED
        BY <1>1, <3>1, WorkedOn
    <2> QED
      BY <2>2, <2>3
  <1>3. r # NoRow
    BY RowIsPresent
  <1> QED
    BY <1>1, <1>2, <1>3 DEF TypeOK

LEMMA CopyingKey ==
  ASSUME TypeOK, NEW m \in Movers, copying[m] # Nothing
  PROVE  copying[m].key \in Keys /\ copying[m].left \in 0..MaxComments
  BY DEF TypeOK

LEMMA KeyInKeys ==
  ASSUME TypeOK, JobKnown, NEW m \in Movers, phase[m] = "importing", NEW row \in Picks
  PROVE  KeyOf(m, row) \in Keys
  BY DEF JobKnown, KeyOf, Keys, TransferKeys, MergeKeys, Scopes, Picks

LEMMA KeysApart ==
  ASSUME NEW k \in TransferKeys, NEW c \in Contents
  PROVE  k # [ merged |-> c ]
  <1>1. DOMAIN k = { "scope", "task" }
    BY DEF TransferKeys
  <1>2. DOMAIN [ merged |-> c ] = { "merged" }
    OBVIOUS
  <1> QED
    BY <1>1, <1>2

LEMMA RowsArePicks ==
  ASSUME TypeOK, NEW p \in Projects, NEW S \in SUBSET Held(p)
  PROVE  Rows(p, S) \subseteq Picks
  BY DEF TypeOK, Held, Rows, Picks, SourceRow

---------------------------------------------------------------------------
(* Type correctness *)

LEMMA InitType ==
  ASSUME Init
  PROVE  TypeOK
  BY SourceAssumption, BoundAssumption DEF Init, TypeOK, Nothing

LEMMA StepType ==
  ASSUME TypeOK, JobKnown, HistoryDue, [Next]_vars
  PROVE  TypeOK'
  <1> USE DEF TypeOK
  <1>1. ASSUME NEW m \in Movers, NEW p \in Projects, NEW op \in Ops, Plan(m, p, op)
        PROVE  TypeOK'
    BY <1>1 DEF Plan, sources
  <1>2. ASSUME NEW m \in Movers, Refuse(m) \/ Lock(m)
        PROVE  TypeOK'
    BY <1>2 DEF Refuse, Lock, TakeLock, sources, locals
  <1>3. ASSUME NEW m \in Movers, Open(m)
        PROVE  TypeOK'
    <2>1. job[m].from \in Projects
      BY <1>3 DEF Open, JobKnown, Requests
    <2>2. PICK S \in SUBSET Held(job[m].from) :
             /\ picked' = [picked EXCEPT ![m] = Rows(job[m].from, S)]
             /\ todo' = [todo EXCEPT ![m] = Rows(job[m].from, S)]
      BY <1>3 DEF Open
    <2>3. Rows(job[m].from, S) \subseteq Picks
      BY <2>1, RowsArePicks
    <2>4. ScopeOf(job[m].from) \in Ids \cup { PathScope, Null }
      BY <2>1 DEF ScopeOf
    <2> QED
      BY <1>3, <2>2, <2>3, <2>4 DEF Open, sources
  <1>4. ASSUME NEW m \in Movers, NEW row \in todo[m], Import(m, row)
        PROVE  TypeOK'
    <2>1. row \in Picks /\ phase[m] = "importing"
      BY <1>4 DEF Import
    <2>2. KeyOf(m, row) \in Keys /\ job[m].from \in Projects
      BY <2>1, KeyInKeys DEF JobKnown, Requests
    <2> DEFINE k == KeyOf(m, row)
               new == [ content |-> row.content, meta |-> row.meta,
                        print |-> << row.content, row.meta >>, worked |-> FALSE,
                        comments |-> 0, had |-> row.comments, from |-> << job[m].from, row.task >> ]
               owes == IF row.comments = 0 THEN Nothing ELSE [ key |-> k, left |-> row.comments ]
    <2>3. new \in DestRow
      BY <2>1, <2>2 DEF Picks, DestRow
    <2>4. owes \in [ key: Keys, left: 0..MaxComments ] \cup {Nothing}
      BY <2>1, <2>2 DEF Picks
    <2>5. dest' = dest \/ dest' = [dest EXCEPT ![k] = new]
      BY <1>4 DEF Import, Created
    <2>6. /\ todo' = [todo EXCEPT ![m] = @ \ {row}]
          /\ \/ UNCHANGED << imported, copying >>
             \/ /\ imported' = [imported EXCEPT ![m] = @ \cup {k}]
                /\ copying' = [copying EXCEPT ![m] = owes]
          /\ UNCHANGED << sources, lock, phase, batch, interrupted >>
      BY <1>4 DEF Import
    <2> HIDE DEF k, new, owes
    <2>7. k \in Keys
      BY <2>2 DEF k
    <2>8. dest' \in [Keys -> DestRow \cup {NoRow}]
      BY <2>3, <2>5, <2>7
    <2>9. todo' \in [Movers -> SUBSET Picks] /\ imported' \in [Movers -> SUBSET Keys]
      BY <2>6, <2>7
    <2>10. copying' \in [Movers -> [ key: Keys, left: 0..MaxComments ] \cup {Nothing}]
      BY <2>4, <2>6
    <2> QED
      BY <2>6, <2>8, <2>9, <2>10 DEF sources, batch
  <1>5. ASSUME NEW m \in Movers, CopyComment(m)
        PROVE  TypeOK'
    <2>1. copying[m].key \in Keys /\ copying[m].left \in 0..MaxComments
      BY <1>5, CopyingKey DEF CopyComment
    <2> DEFINE k == copying[m].key
    <2>2. dest' = [dest EXCEPT ![k].comments = @ + 1]
      BY <1>5 DEF CopyComment
    <2>3. dest[k] \in DestRow /\ copying[m].left >= 1
      BY <1>5, PresentRow DEF CopyComment, HistoryDue
    <2>4. [dest[k] EXCEPT !.comments = @ + 1] \in DestRow
      BY <2>3, OneMoreComment
    <2>5. dest' \in [Keys -> DestRow \cup {NoRow}]
      BY <2>2, <2>4
    <2>6. MaxComments \in Nat
      BY BoundAssumption
    <2>7. Rest(copying[m]) \in [ key: Keys, left: 0..MaxComments ] \cup {Nothing}
      BY <2>1, <2>3, <2>6 DEF Rest
    <2>8. copying' = [copying EXCEPT ![m] = Rest(copying[m])]
          /\ UNCHANGED << sources, lock, phase, batch, todo, imported, interrupted >>
      BY <1>5 DEF CopyComment
    <2> HIDE DEF k
    <2> QED
      BY <2>5, <2>7, <2>8 DEF sources, batch
  <1>6. ASSUME NEW m \in Movers, Finish(m) \/ Throw(m) \/ Crash(m)
        PROVE  TypeOK'
    <2>1. \E ph \in { "idle", "applied" } : phase' = [phase EXCEPT ![m] = ph]
      BY <1>6 DEF Finish, Throw, Crash, Stop
    <2>2. lock' \in Movers \cup { Null, Stale }
      BY <1>6 DEF Finish, Throw, Crash, Released
    <2>3. End(m)
      BY <1>6 DEF Finish, Throw, Crash, Stop
    <2>4. copying[m].key \in Keys \cup {Null}
      BY CopyingKey DEF Nothing
    <2>5. interrupted' \subseteq Keys
      BY <2>3, <2>4 DEF End
    <2>6. source' \in [Projects -> [Tasks -> SourceRow \cup {NoTask}]]
          /\ identity' \in [Projects -> Ids \cup {Null}]
          /\ changes' \in 0..MaxChanges /\ dest' \in [Keys -> DestRow \cup {NoRow}]
      BY <2>3 DEF End, sources
    <2>7. phase' \in [Movers -> { "idle", "planned", "locked", "importing", "applied" }]
      BY <2>1
    <2>8. /\ job' \in [Movers -> [ from: Projects, op: Ops ] \cup {Null}]
          /\ scope' \in [Movers -> Ids \cup { PathScope, Null }]
          /\ picked' \in [Movers -> SUBSET Picks] /\ todo' \in [Movers -> SUBSET Picks]
          /\ pre' \in [Movers -> SUBSET Keys] /\ imported' \in [Movers -> SUBSET Keys]
          /\ copying' \in [Movers -> [ key: Keys, left: 0..MaxComments ] \cup {Nothing}]
      BY <2>3 DEF End
    <2> QED
      BY <2>2, <2>5, <2>6, <2>7, <2>8
  <1>7. RemoveStale => TypeOK'
    BY DEF RemoveStale, sources, locals
  <1>8. ASSUME NEW p \in Projects, NEW t \in Tasks, EditSource(p, t)
        PROVE  TypeOK'
    BY <1>8, BoundAssumption DEF EditSource, locals
  <1>9. ASSUME NEW p \in Projects, NEW id \in Ids, Enrol(p, id)
        PROVE  TypeOK'
    BY <1>9, BoundAssumption DEF Enrol, locals
  <1>10. ASSUME NEW k \in Keys, EditDest(k) \/ WorkOn(k)
         PROVE  TypeOK'
    <2>1. dest' \in [Keys -> DestRow \cup {NoRow}]
      BY <1>10, SessionsLeave
    <2>2. changes' \in 0..MaxChanges
      BY <1>10, BoundAssumption DEF EditDest, WorkOn
    <2> QED
      BY <1>10, <2>1, <2>2 DEF EditDest, WorkOn, locals
  <1>11. UNCHANGED vars => TypeOK'
    BY DEF vars
  <1> QED
    BY <1>1, <1>2, <1>3, <1>4, <1>5, <1>6, <1>7, <1>8, <1>9, <1>10, <1>11 DEF Next

---------------------------------------------------------------------------
(* Steps beside the destination *)

Aside ==
    /\ UNCHANGED << dest, scope, picked, todo, pre, imported, copying, interrupted >>
    /\ \A m \in Movers : phase'[m] = "importing" <=> phase[m] = "importing"
    /\ \A m \in Movers : phase[m] = "importing" => job'[m] = job[m]

LEMMA AsideKeeps ==
  ASSUME MoveInv, Aside
  PROVE  AtRest' /\ KeysKnown' /\ HistoryDue' /\ MergedAlike' /\ Arrived' /\ CommentsCopiedOnce'
  <1> USE DEF MoveInv, Aside
  <1>1. AtRest' /\ KeysKnown' /\ HistoryDue' /\ MergedAlike' /\ CommentsCopiedOnce'
    BY DEF AtRest, KeysKnown, HistoryDue, MergedAlike, CommentsCopiedOnce, Present
  <1>2. Arrived'
    BY DEF Arrived, There, KeyOf, Present
  <1> QED
    BY <1>1, <1>2

LEMMA AsideSteps ==
  ASSUME MoveInv,
         \/ \E m \in Movers : \/ \E p \in Projects, op \in Ops : Plan(m, p, op)
                              \/ Refuse(m) \/ Lock(m)
         \/ RemoveStale
         \/ \E p \in Projects, t \in Tasks : EditSource(p, t)
         \/ \E p \in Projects, id \in Ids : Enrol(p, id)
         \/ UNCHANGED vars
  PROVE  Aside /\ LockHeld' /\ JobKnown'
  <1> USE DEF MoveInv
  <1>1. ASSUME NEW m \in Movers, NEW p \in Projects, NEW op \in Ops, Plan(m, p, op)
        PROVE  Aside /\ LockHeld' /\ JobKnown'
    BY <1>1 DEF Plan, Aside, LockHeld, JobKnown, Requests, TypeOK
  <1>2. ASSUME NEW m \in Movers, Refuse(m)
        PROVE  Aside /\ LockHeld' /\ JobKnown'
    BY <1>2 DEF Refuse, Aside, LockHeld, JobKnown, TypeOK
  <1>3. ASSUME NEW m \in Movers, Lock(m)
        PROVE  Aside /\ LockHeld' /\ JobKnown'
    BY <1>3, NullAssumption DEF Lock, TakeLock, locals, Aside, LockHeld, JobKnown, TypeOK
  <1>4. ASSUME \/ RemoveStale
               \/ \E p \in Projects, t \in Tasks : EditSource(p, t)
               \/ \E p \in Projects, id \in Ids : Enrol(p, id)
               \/ UNCHANGED vars
        PROVE  Aside /\ LockHeld' /\ JobKnown'
    <2>1. UNCHANGED << dest, phase, locals, interrupted >> /\ (lock = Stale \/ lock' = lock)
      BY <1>4 DEF RemoveStale, EditSource, Enrol, vars, locals
    <2> QED
      BY <2>1, NullAssumption DEF Aside, LockHeld, JobKnown, locals
  <1> QED
    BY <1>1, <1>2, <1>3, <1>4

\* What the destination's sessions do to a row disturbs no move.
LEMMA SessionsKeep ==
  ASSUME MoveInv, TypeOK', NEW k \in Keys, EditDest(k) \/ WorkOn(k)
  PROVE  MoveInv'
  <1> USE DEF MoveInv
  <1>1. UNCHANGED << lock, phase, locals, interrupted >>
    BY DEF EditDest, WorkOn
  <1>2. \A j \in Keys : /\ dest'[j] # NoRow <=> dest[j] # NoRow
                        /\ dest'[j].print = dest[j].print
                        /\ dest'[j].comments = dest[j].comments /\ dest'[j].had = dest[j].had
    BY SessionsLeave
  <1>3. LockHeld' /\ JobKnown' /\ AtRest'
    BY <1>1 DEF LockHeld, JobKnown, AtRest, locals
  <1>4. KeysKnown' /\ CommentsCopiedOnce'
    BY <1>1, <1>2 DEF KeysKnown, CommentsCopiedOnce, Present, locals
  <1>5. HistoryDue'
    BY <1>1, <1>2, CopyingKey DEF HistoryDue, Present, locals
  <1>6. MergedAlike'
    BY <1>2 DEF MergedAlike, Present, Keys, MergeKeys
  <1>7. Arrived'
    <2>1. ASSUME NEW m \in Movers, phase[m] = "importing", NEW r \in picked[m], There(m, r)
          PROVE  There(m, r)'
      <3>1. r \in Picks
        BY DEF TypeOK
      <3>2. PICK j \in Keys : j = KeyOf(m, r) /\ KeyOf(m, r)' = j
        BY <1>1, <2>1, <3>1, KeyInKeys DEF KeyOf, locals
      <3> QED
        BY <1>1, <1>2, <2>1, <3>2 DEF There, Present, locals
    <2> QED
      BY <1>1, <2>1 DEF Arrived, locals
  <1> QED
    BY <1>3, <1>4, <1>5, <1>6, <1>7

---------------------------------------------------------------------------
(* Steps of the mover that holds the lock *)

LEMMA OnlyOne ==
  ASSUME LockHeld, NEW m \in Movers, NEW y \in Movers,
         phase[m] \in { "locked", "importing" }, phase[y] \in { "locked", "importing" }
  PROVE  y = m
  BY DEF LockHeld

LEMMA OpenKeeps ==
  ASSUME MoveInv, TypeOK', NEW m \in Movers, Open(m)
  PROVE  MoveInv'
  <1> USE DEF MoveInv
  <1>1. /\ phase[m] = "locked" /\ phase' = [phase EXCEPT ![m] = "importing"]
        /\ picked'[m] = todo'[m]
        /\ scope'[m] = ScopeOf(job[m].from)
        /\ pre'[m] = { k \in Keys : Present(k) }
        /\ UNCHANGED << dest, lock, job, imported, copying, interrupted >>
    BY DEF Open, TypeOK
  <1>2. \A y \in Movers : y # m => phase'[y] = phase[y] /\ scope'[y] = scope[y]
    BY DEF Open, TypeOK
  <1>3. phase'[m] = "importing" /\ job[m] \in Requests
    BY <1>1 DEF TypeOK, JobKnown
  <1>4. \A y \in Movers : phase'[y] = "importing" => y = m
    BY <1>1, <1>2, OnlyOne
  <1>5. LockHeld'
    BY <1>1, <1>2 DEF LockHeld
  <1>6. ScopeOf(job[m].from) \in Scopes
    BY <1>3 DEF ScopeOf, Requests, TypeOK, Scopes
  <1>7. JobKnown'
    BY <1>1, <1>2, <1>3, <1>6 DEF JobKnown
  <1>8. AtRest'
    BY <1>1, <1>2, <1>3 DEF AtRest
  <1>9. KeysKnown'
    BY <1>1, <1>4 DEF KeysKnown, AtRest, Present
  <1>10. HistoryDue' /\ MergedAlike' /\ CommentsCopiedOnce'
    BY <1>1 DEF HistoryDue, MergedAlike, CommentsCopiedOnce, Present
  <1>11. Arrived'
    BY <1>1, <1>4 DEF Arrived
  <1> QED
    BY <1>5, <1>7, <1>8, <1>9, <1>10, <1>11

\* One round: the key's task is created with all its comments ahead of it,
\* or was there with the row's content.
LEMMA ImportKeeps ==
  ASSUME MoveInv, TypeOK', NEW m \in Movers, NEW row \in todo[m], Import(m, row)
  PROVE  MoveInv'
  <1> USE DEF MoveInv
  <1>1. /\ phase[m] = "importing" /\ copying[m] = Nothing
        /\ todo' = [todo EXCEPT ![m] = @ \ {row}]
        /\ UNCHANGED << lock, phase, job, scope, picked, pre, interrupted >>
    BY DEF Import, batch
  <1>2. row \in Picks /\ job[m] \in Requests
    BY <1>1 DEF TypeOK, JobKnown
  <1>3. PICK k \in Keys : k = KeyOf(m, row)
    BY <1>1, <1>2, KeyInKeys
  <1>4. PICK new \in DestRow :
           new = [ content |-> row.content, meta |-> row.meta,
                   print |-> << row.content, row.meta >>, worked |-> FALSE,
                   comments |-> 0, had |-> row.comments, from |-> << job[m].from, row.task >> ]
    BY <1>2 DEF DestRow, Picks, Requests
  <1>5. /\ new # NoRow /\ new.print[1] = row.content /\ new.print[2] = row.meta
        /\ new.comments = 0 /\ new.had = row.comments /\ row.comments \in Nat
    <2>1. new.print = << row.content, row.meta >> /\ new.comments = 0 /\ new.had = row.comments
      BY <1>4
    <2>2. row.comments \in Nat
      BY <1>2, BoundAssumption DEF Picks
    <2> QED
      BY <2>1, <2>2, RowIsPresent
  <1>6. /\ Conflict(k, row) => job[m].op = "merge"
        /\ Present(k) => dest' = dest /\ UNCHANGED << imported, copying >>
        /\ ~Present(k) =>
              /\ dest' = [dest EXCEPT ![k] = new]
              /\ imported' = [imported EXCEPT ![m] = @ \cup {k}]
              /\ copying' = [copying EXCEPT ![m] =
                    IF row.comments = 0 THEN Nothing ELSE [ key |-> k, left |-> row.comments ]]
    <2>1. Conflict(k, row) => job[m].op = "merge"
      BY <1>3 DEF Import, Swallowed
    <2>2. Present(k) <=> k \in pre[m] \cup imported[m]
      BY <1>1 DEF KeysKnown
    <2>3. Swallowed(m, k, row) => Present(k)
      BY DEF Swallowed, Conflict
    <2> QED
      BY <1>3, <1>4, <2>1, <2>2, <2>3 DEF Import, Created
  <1>7. \A y \in Movers : phase[y] = "importing" => y = m
    BY <1>1, OnlyOne
  <1>8. \A y \in Movers : y # m => copying[y] = Nothing /\ copying'[y] = Nothing
    BY <1>6, <1>7 DEF AtRest, TypeOK
  <1>9. \A j \in Keys : j # k \/ Present(k) => dest'[j] = dest[j]
    BY <1>6 DEF TypeOK
  <1>10. ~Present(k) => /\ dest'[k] = new
                        /\ imported'[m] = imported[m] \cup {k}
                        /\ copying'[m] = IF row.comments = 0 THEN Nothing
                                         ELSE [ key |-> k, left |-> row.comments ]
    BY <1>6 DEF TypeOK
  <1>11. /\ dest'[k] # NoRow /\ dest'[k].print[1] = row.content
         /\ job[m].op # "merge" => dest'[k].print[2] = row.meta
    <2>1. CASE ~Present(k)
      BY <1>5, <1>10, <2>1
    <2>2. CASE Present(k) /\ ~Conflict(k, row)
      <3>1. dest[k].print[1] = row.content /\ dest[k].print[2] = row.meta
        BY <2>2 DEF Conflict
      <3> QED
        BY <1>6, <2>2, <3>1 DEF Present
    <2>3. CASE Present(k) /\ Conflict(k, row)
      <3>1. k = [ merged |-> row.content ] /\ row.content \in Contents
        BY <1>2, <1>3, <1>6, <2>3 DEF KeyOf, Picks
      <3>2. dest[k].print[1] = row.content
        BY <2>3, <3>1 DEF MergedAlike
      <3> QED
        BY <1>6, <2>3, <3>2 DEF Present
    <2> QED
      BY <2>1, <2>2, <2>3
  <1>12. LockHeld' /\ JobKnown'
    BY <1>1 DEF LockHeld, JobKnown
  <1>13. AtRest'
    BY <1>1, <1>6, <1>7 DEF AtRest, TypeOK
  <1>14. KeysKnown'
    <2>1. \A j \in Keys : dest'[j] # NoRow <=> j \in pre[m] \cup imported'[m]
      BY <1>1, <1>5, <1>6, <1>9, <1>10 DEF KeysKnown, Present
    <2> QED
      BY <1>1, <1>7, <2>1 DEF KeysKnown, Present
  <1>15. HistoryDue'
    <2>1. CASE Present(k)
      BY <1>6, <2>1 DEF HistoryDue, Present
    <2>2. CASE ~Present(k)
      <3>1. SUFFICES ASSUME copying'[m] # Nothing
                     PROVE  /\ copying'[m].left >= 1 /\ dest'[copying'[m].key] # NoRow
                            /\ dest'[copying'[m].key].comments + copying'[m].left
                                 = dest'[copying'[m].key].had
        BY <1>8 DEF HistoryDue, Present
      <3>2. row.comments # 0 /\ copying'[m].key = k /\ copying'[m].left = row.comments
        BY <1>10, <2>2, <3>1
      <3>3. dest'[k] = new
        BY <1>10, <2>2
      <3> QED
        BY <1>5, <3>2, <3>3
    <2> QED
      BY <2>1, <2>2
  <1>16. MergedAlike'
    <2>1. SUFFICES ASSUME NEW c \in Contents, dest'[[ merged |-> c ]] # NoRow
                   PROVE  dest'[[ merged |-> c ]].print[1] = c
      BY DEF MergedAlike, Present
    <2>2. [ merged |-> c ] \in Keys
      BY DEF Keys, MergeKeys
    <2>3. CASE k # [ merged |-> c ] \/ Present(k)
      BY <1>9, <2>1, <2>2, <2>3 DEF MergedAlike, Present
    <2>4. CASE k = [ merged |-> c ] /\ ~Present(k)
      <3>1. k \notin TransferKeys
        BY <2>4, KeysApart
      <3>2. job[m].op = "merge"
        BY <1>1, <1>2, <1>3, <3>1 DEF KeyOf, TransferKeys, JobKnown, Scopes, Picks
      <3>3. k = [ merged |-> row.content ]
        BY <1>3, <3>2 DEF KeyOf
      <3>4. row.content = c
        BY <2>4, <3>3
      <3> QED
        BY <1>11, <2>4, <3>4
    <2> QED
      BY <2>3, <2>4
  <1>17. Arrived'
    <2>1. \A r \in Picks : KeyOf(m, r)' = KeyOf(m, r) /\ KeyOf(m, r) \in Keys
      BY <1>1, KeyInKeys DEF KeyOf
    <2>2. ASSUME NEW r \in picked[m], r \notin todo'[m]
          PROVE  There(m, r)'
      <3>1. r \in Picks
        BY DEF TypeOK
      <3>2. PICK j \in Keys : j = KeyOf(m, r) /\ KeyOf(m, r)' = j
        BY <2>1, <3>1
      <3>3. CASE j = k
        <4>1. CASE r = row
          BY <1>1, <1>11, <3>2, <3>3, <4>1 DEF There, Present
        <4>2. CASE r # row
          <5>1. There(m, r)
            BY <1>1, <2>2, <4>2 DEF Arrived, TypeOK
          <5>2. Present(k)
            BY <3>2, <3>3, <5>1 DEF There
          <5> QED
            BY <1>1, <1>9, <3>2, <5>1, <5>2 DEF There, Present
        <4> QED
          BY <4>1, <4>2
      <3>4. CASE j # k
        <4>1. r # row
          BY <1>3, <3>2, <3>4
        <4>2. There(m, r)
          BY <1>1, <2>2, <4>1 DEF Arrived, TypeOK
        <4> QED
          BY <1>1, <1>9, <3>2, <3>4, <4>2 DEF There, Present
      <3> QED
        BY <3>3, <3>4
    <2>3. todo'[m] \subseteq picked[m]
      BY <1>1 DEF Arrived, TypeOK
    <2> QED
      BY <1>1, <1>7, <2>2, <2>3 DEF Arrived
  <1>18. CommentsCopiedOnce'
    <2>1. SUFFICES ASSUME NEW j \in Keys
                   PROVE  /\ dest'[j].comments <= dest'[j].had
                          /\ dest'[j].comments < dest'[j].had =>
                                j \in interrupted' \/ \E y \in Movers : copying'[y].key = j
      BY DEF CommentsCopiedOnce
    <2>2. CASE Present(k)
      BY <1>1, <1>6, <2>2 DEF CommentsCopiedOnce
    <2>3. CASE ~Present(k) /\ j # k
      <3>1. dest'[j] = dest[j] /\ interrupted' = interrupted
        BY <1>1, <1>9, <2>3
      <3>2. ASSUME NEW y \in Movers, copying[y].key = j
            PROVE  FALSE
        <4>1. copying[y] = Nothing
          BY <1>1, <1>8
        <4> QED
          BY <3>2, <4>1, KeyAssumption DEF Nothing
      <3> QED
        BY <3>1, <3>2 DEF CommentsCopiedOnce
    <2>4. CASE ~Present(k) /\ j = k
      <3>1. dest'[k] = new
        BY <1>10, <2>4
      <3>2. row.comments # 0 => copying'[m].key = k
        BY <1>10, <2>4
      <3> QED
        BY <1>5, <2>4, <3>1, <3>2
    <2> QED
      BY <2>2, <2>3, <2>4
  <1> QED
    BY <1>12, <1>13, <1>14, <1>15, <1>16, <1>17, <1>18

LEMMA CopyCommentKeeps ==
  ASSUME MoveInv, TypeOK', NEW m \in Movers, CopyComment(m)
  PROVE  MoveInv'
  <1> USE DEF MoveInv
  <1>1. /\ phase[m] = "importing" /\ copying[m] # Nothing
        /\ UNCHANGED << lock, phase, job, scope, picked, pre, todo, imported, interrupted >>
    BY DEF CopyComment, batch
  <1>2. PICK k \in Keys, n \in 0..MaxComments :
           copying[m].key = k /\ copying[m].left = n /\ copying[m] = [ key |-> k, left |-> n ]
    BY <1>1 DEF TypeOK
  <1>3. n \in Nat /\ n >= 1 /\ Present(k) /\ dest[k].comments + n = dest[k].had
    BY <1>1, <1>2, BoundAssumption DEF HistoryDue
  <1>4. dest[k] \in DestRow
    BY <1>3, PresentRow
  <1>5. \A j \in Keys : j # k => dest'[j] = dest[j]
    BY <1>1, <1>2 DEF CopyComment, TypeOK
  <1>6. /\ dest'[k] \in DestRow /\ dest'[k].comments = dest[k].comments + 1
        /\ dest'[k].had = dest[k].had
        /\ dest'[k].print = dest[k].print
    <2>1. dest'[k] = [dest[k] EXCEPT !.comments = @ + 1]
      BY <1>2 DEF CopyComment, TypeOK
    <2> QED
      BY <1>4, <2>1, OneMoreComment
  <1>7. copying'[m] = IF n = 1 THEN Nothing ELSE [ key |-> k, left |-> n - 1 ]
    BY <1>2 DEF CopyComment, Rest, TypeOK
  <1>8. \A y \in Movers : phase[y] = "importing" => y = m
    BY <1>1, OnlyOne
  <1>9. \A y \in Movers : y # m => copying[y] = Nothing /\ copying'[y] = copying[y]
    BY <1>8 DEF AtRest, CopyComment, TypeOK
  <1>10. \A j \in Keys : /\ dest'[j] # NoRow <=> dest[j] # NoRow
                         /\ dest'[j].print = dest[j].print
    BY <1>3, <1>5, <1>6, RowIsPresent DEF Present
  <1>11. LockHeld' /\ JobKnown' /\ AtRest'
    BY <1>1, <1>8, <1>9 DEF LockHeld, JobKnown, AtRest
  <1>12. KeysKnown'
    BY <1>1, <1>10 DEF KeysKnown, Present
  <1>13. HistoryDue'
    <2>1. SUFFICES ASSUME copying'[m] # Nothing
                   PROVE  /\ copying'[m].left >= 1 /\ dest'[copying'[m].key] # NoRow
                          /\ dest'[copying'[m].key].comments + copying'[m].left
                               = dest'[copying'[m].key].had
      BY <1>9 DEF HistoryDue, Present
    <2>2. n # 1 /\ copying'[m].key = k /\ copying'[m].left = n - 1
      BY <1>7, <2>1
    <2>3. n - 1 >= 1
      BY <1>3, <2>2
    <2>4. (dest[k].comments + 1) + (n - 1) = dest[k].had
      BY <1>3, <1>4 DEF DestRow
    <2> QED
      BY <1>3, <1>6, <1>10, <2>2, <2>3, <2>4 DEF Present
  <1>14. MergedAlike'
    <2>1. \A c \in Contents : [ merged |-> c ] \in Keys
      BY DEF Keys, MergeKeys
    <2> QED
      BY <1>10, <2>1 DEF MergedAlike, Present
  <1>15. Arrived'
    <2>1. ASSUME NEW r \in picked[m], There(m, r)
          PROVE  There(m, r)'
      <3>1. r \in Picks
        BY DEF TypeOK
      <3>2. PICK j \in Keys : j = KeyOf(m, r) /\ KeyOf(m, r)' = j
        BY <1>1, <3>1, KeyInKeys DEF KeyOf
      <3> QED
        BY <1>1, <1>10, <2>1, <3>2 DEF There, Present
    <2> QED
      BY <1>1, <1>8, <2>1 DEF Arrived
  <1>16. CommentsCopiedOnce'
    <2>1. SUFFICES ASSUME NEW j \in Keys
                   PROVE  /\ dest'[j].comments <= dest'[j].had
                          /\ dest'[j].comments < dest'[j].had =>
                                j \in interrupted' \/ \E y \in Movers : copying'[y].key = j
      BY DEF CommentsCopiedOnce
    <2>2. CASE j # k
      BY <1>1, <1>2, <1>5, <1>9, <2>2 DEF CommentsCopiedOnce
    <2>3. CASE j = k
      <3>1. dest[k].comments + 1 <= dest[k].had
        BY <1>3, <1>4 DEF DestRow
      <3>2. dest[k].comments + 1 < dest[k].had => n # 1
        BY <1>3, <1>4 DEF DestRow
      <3>3. n # 1 => copying'[m].key = k
        BY <1>7
      <3> QED
        BY <1>6, <2>3, <3>1, <3>2, <3>3
    <2> QED
      BY <2>2, <2>3
  <1> QED
    BY <1>11, <1>12, <1>13, <1>14, <1>15, <1>16

LEMMA EndKeeps ==
  ASSUME MoveInv, TypeOK', NEW m \in Movers, Finish(m) \/ Throw(m) \/ Crash(m)
  PROVE  MoveInv'
  <1> USE DEF MoveInv
  <1>1. /\ phase[m] \in { "locked", "importing" } /\ End(m)
        /\ \E ph \in { "idle", "applied" } : phase' = [phase EXCEPT ![m] = ph]
    BY DEF Finish, Throw, Crash, Stop
  <1>2. /\ \A y \in Movers : y # m =>
              /\ phase'[y] = phase[y] /\ job'[y] = job[y] /\ copying'[y] = copying[y]
              /\ imported'[y] = imported[y] /\ scope'[y] = scope[y]
        /\ imported'[m] = {} /\ copying'[m] = Nothing
        /\ interrupted' = interrupted \cup ({copying[m].key} \ {Null})
        /\ dest' = dest
    BY <1>1 DEF End, TypeOK
  <1>3. phase'[m] \in { "idle", "applied" }
    BY <1>1 DEF TypeOK
  <1>4. \A y \in Movers : y # m => phase[y] \notin { "locked", "importing" }
    BY <1>1, OnlyOne
  <1>5. LockHeld' /\ JobKnown' /\ AtRest'
    BY <1>2, <1>3, <1>4 DEF LockHeld, JobKnown, AtRest
  <1>6. KeysKnown' /\ Arrived'
    BY <1>2, <1>3, <1>4 DEF KeysKnown, Arrived
  <1>7. HistoryDue' /\ MergedAlike'
    BY <1>2 DEF HistoryDue, MergedAlike, Present
  <1>8. CommentsCopiedOnce'
    BY <1>2, KeyAssumption DEF CommentsCopiedOnce
  <1> QED
    BY <1>5, <1>6, <1>7, <1>8

---------------------------------------------------------------------------

LEMMA InitMove ==
  ASSUME Init
  PROVE  MoveInv
  <1>1. TypeOK
    BY InitType
  <1>2. LockHeld /\ JobKnown /\ AtRest /\ KeysKnown /\ HistoryDue /\ Arrived
    BY DEF Init, LockHeld, JobKnown, AtRest, KeysKnown, HistoryDue, Arrived
  <1>3. \A k \in Keys : dest[k] = NoRow
    BY DEF Init
  <1>4. MergedAlike
    BY <1>3 DEF MergedAlike, Present, Keys, MergeKeys
  <1>5. CommentsCopiedOnce
    BY <1>3 DEF CommentsCopiedOnce, NoRow
  <1> QED
    BY <1>1, <1>2, <1>4, <1>5 DEF MoveInv

LEMMA StepMove ==
  ASSUME MoveInv, [Next]_vars
  PROVE  MoveInv'
  <1>1. TypeOK'
    BY StepType DEF MoveInv
  <1>2. ASSUME \/ \E m \in Movers : \/ \E p \in Projects, op \in Ops : Plan(m, p, op)
                                    \/ Refuse(m) \/ Lock(m)
               \/ RemoveStale
               \/ \E p \in Projects, t \in Tasks : EditSource(p, t)
               \/ \E p \in Projects, id \in Ids : Enrol(p, id)
               \/ UNCHANGED vars
        PROVE  MoveInv'
    <2>1. Aside /\ LockHeld' /\ JobKnown'
      BY <1>2, AsideSteps
    <2> QED
      BY <1>1, <2>1, AsideKeeps DEF MoveInv
  <1>3. ASSUME NEW m \in Movers,
               \/ \E row \in todo[m] : Import(m, row)
               \/ Open(m) \/ CopyComment(m) \/ Finish(m) \/ Throw(m) \/ Crash(m)
        PROVE  MoveInv'
    BY <1>1, <1>3, OpenKeeps, ImportKeeps, CopyCommentKeeps, EndKeeps
  <1>4. ASSUME NEW k \in Keys, EditDest(k) \/ WorkOn(k)
        PROVE  MoveInv'
    BY <1>1, <1>4, SessionsKeep
  <1> QED
    BY <1>2, <1>3, <1>4 DEF Next

LEMMA MoveAlways == Spec => []MoveInv
  BY InitMove, StepMove, PTL DEF Spec

\* Destination rows, keys and the movers' locals are well typed for any
\* number of movers, sources and tasks (applyDataMove).
THEOREM MoveTypeCorrect == Spec => []TypeOK
  <1>1. MoveInv => TypeOK
    BY DEF MoveInv
  <1> QED
    BY <1>1, MoveAlways, PTL

\* No order of moves, crashes, retries and edits of the sources copies a
\* comment twice, and only a move that stopped leaves one behind
\* (applyDataMove's loop over the comments).
THEOREM EachCommentOnce == Spec => []CommentsCopiedOnce
  <1>1. MoveInv => CommentsCopiedOnce
    BY DEF MoveInv
  <1> QED
    BY <1>1, MoveAlways, PTL

LEMMA OnlyFinishApplies ==
  ASSUME TypeOK, [Next]_vars, NEW m \in Movers, phase[m] = "importing", phase'[m] = "applied"
  PROVE  Finish(m)
  <1> USE DEF TypeOK
  <1>1. phase' # phase
    OBVIOUS
  <1>2. ASSUME NEW y \in Movers, NEW ph \in { "planned", "idle", "locked", "importing" },
               phase' = [phase EXCEPT ![y] = ph]
        PROVE  FALSE
    BY <1>2
  <1>3. ASSUME NEW y \in Movers,
               \/ \E p \in Projects, op \in Ops : Plan(y, p, op)
               \/ Refuse(y) \/ Lock(y) \/ Open(y) \/ Throw(y) \/ Crash(y)
        PROVE  FALSE
    BY <1>2, <1>3 DEF Plan, Refuse, Lock, Open, Throw, Crash, Stop
  <1>4. ASSUME NEW y \in Movers, Finish(y)
        PROVE  Finish(m)
    <2>1. y = m
      BY <1>4 DEF Finish
    <2> QED
      BY <1>4, <2>1
  <1>5. ASSUME NEW y \in Movers, (\E row \in todo[y] : Import(y, row)) \/ CopyComment(y)
        PROVE  FALSE
    BY <1>1, <1>5 DEF Import, CopyComment
  <1>6. ASSUME \/ RemoveStale
               \/ \E p \in Projects, t \in Tasks : EditSource(p, t)
               \/ \E p \in Projects, id \in Ids : Enrol(p, id)
               \/ \E k \in Keys : EditDest(k) \/ WorkOn(k)
               \/ UNCHANGED vars
        PROVE  FALSE
    BY <1>1, <1>6 DEF RemoveStale, EditSource, Enrol, EditDest, WorkOn, vars
  <1> QED
    BY <1>3, <1>4, <1>5, <1>6 DEF Next

\* A move that reports success has for each task it picked one in the
\* destination that was created as it was picked, swallowed conflicts of a
\* merge included, whatever the sessions of the destination do to their tasks
\* before, during and after the move (applyDataMove, createTask).
THEOREM SuccessMeansArrived == Spec => AppliedMeansArrived
  <1>1. ASSUME MoveInv, [Next]_vars, NEW m \in Movers, Succeeds(m), NEW row \in picked[m]
        PROVE  There(m, row)
    <2>1. phase[m] = "importing" /\ phase'[m] = "applied"
      BY <1>1 DEF Succeeds
    <2>2. Finish(m)
      BY <1>1, <2>1, OnlyFinishApplies DEF MoveInv
    <2>3. row \in picked[m] \ todo[m]
      BY <2>2 DEF Finish
    <2> QED
      BY <1>1, <2>1, <2>3 DEF MoveInv, Arrived
  <1>2. MoveInv /\ [Next]_vars =>
          [\A m \in Movers : Succeeds(m) =>
             \A row \in picked[m] :
               LET d == dest[KeyOf(m, row)] IN
               /\ d.print[1] = row.content
               /\ job[m].op # "merge" => d.print[2] = row.meta]_vars
    BY <1>1 DEF There
  <1> QED
    BY <1>2, MoveAlways, PTL DEF Spec, AppliedMeansArrived
=============================================================================
