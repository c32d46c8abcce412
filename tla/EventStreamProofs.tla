-------------------------- MODULE EventStreamProofs --------------------------
(***************************************************************************)
(* The event stream for any number of processes, tabs and events and any   *)
(* replay limit.  The frames under way to a tab rise from its cursor to    *)
(* the mark of its stream (StreamsInOrder): a replay, a reset and the      *)
(* fan-out of a commit each start above the mark and end at the log's end. *)
(* Every event that the serving process has committed and that the tab has *)
(* not read is on the wire, or a reset that shows it comes before any      *)
(* later id (OwnAhead).                                                    *)
(***************************************************************************)
EXTENDS EventStream, TLAPS

\* Frames with rising ids above lo and up to hi.
Rising(frames, lo, hi) ==
    /\ \A m, n \in DOMAIN frames : m < n => frames[m].id < frames[n].id
    /\ \A n \in DOMAIN frames : lo < frames[n].id /\ frames[n].id <= hi

\* Who reads these frames is told of event i before a later id is read.
Tells(frames, i) ==
    \E n \in DOMAIN frames :
        \/ frames[n].id = i
        \/ /\ frames[n].kind = "mazzy-reset" /\ i <= frames[n].id
           /\ \A m \in DOMAIN frames : m < n => frames[m].id < i

StreamsInOrder ==
    \A c \in Tabs :
        /\ server[c] = Null => wire[c] = << >>
        /\ server[c] # Null => cursor[c] <= delivered[c] /\ Rising(wire[c], cursor[c], delivered[c])

OwnAhead ==
    \A c \in Tabs : server[c] # Null =>
        \A i \in 1..Len(log) : cursor[c] < i /\ log[i] = server[c] => Tells(wire[c], i)

StreamInv == TypeOK /\ StreamsInOrder /\ OwnAhead

---------------------------------------------------------------------------
(* Frames *)

LEMMA Bounds == ReplayLimit \in Nat /\ ReplayLimit >= 1 /\ MaxEvents \in Nat
  BY StreamAssumption

LEMMA LogLength ==
  ASSUME TypeOK
  PROVE  Len(log) \in Nat /\ Len(log) <= MaxEvents
  BY DEF TypeOK

LEMMA FrameIds ==
  ASSUME NEW seq \in Seq(Frame), NEW n \in 1..Len(seq)
  PROVE  n \in DOMAIN seq /\ seq[n] \in Frame /\ seq[n].id \in Nat
  <1>1. n \in DOMAIN seq /\ seq[n] \in Frame
    OBVIOUS
  <1>2. seq[n].id \in 0..MaxEvents
    BY <1>1 DEF Frame
  <1> QED
    BY <1>1, <1>2, Bounds

\* The frames of the n events after lo: one for each, in order.
LEMMA EventFramesInOrder ==
  ASSUME NEW lo \in Nat, NEW n \in Nat, lo + n <= MaxEvents
  PROVE  /\ EventFrames(lo + 1, lo + n) \in Seq(Frame)
         /\ Len(EventFrames(lo + 1, lo + n)) = n
         /\ \A k \in 1..n :
              EventFrames(lo + 1, lo + n)[k] = [kind |-> "ops-event", id |-> lo + k]
         /\ Rising(EventFrames(lo + 1, lo + n), lo, lo + n)
  <1> DEFINE seq == [k \in 1..n |-> [kind |-> "ops-event", id |-> (lo + 1) + k - 1]]
  <1>1. (IF lo + n < lo + 1 THEN 0 ELSE lo + n - (lo + 1) + 1) = n
    OBVIOUS
  <1>2. EventFrames(lo + 1, lo + n) = seq
    BY <1>1 DEF EventFrames
  <1>3. \A k \in 1..n : (lo + 1) + k - 1 = lo + k /\ lo + k \in 0..MaxEvents
    BY Bounds
  <1>4. \A k \in 1..n : seq[k] = [kind |-> "ops-event", id |-> lo + k]
    BY <1>3
  <1>5. \A k \in 1..n : seq[k] \in Frame
    BY <1>3, <1>4 DEF Frame, Kinds
  <1>6. DOMAIN seq = 1..n
    OBVIOUS
  <1>7. seq \in Seq(Frame) /\ Len(seq) = n
    BY <1>5, <1>6
  <1> HIDE DEF seq
  <1>8. Rising(seq, lo, lo + n)
    BY <1>4, <1>6 DEF Rising
  <1> QED
    BY <1>2, <1>4, <1>7, <1>8

LEMMA RisingAppends ==
  ASSUME NEW seq \in Seq(Frame), NEW add \in Seq(Frame), NEW lo \in Nat, NEW mid \in Nat,
         NEW hi \in Nat, lo <= mid, mid <= hi, Rising(seq, lo, mid), Rising(add, mid, hi)
  PROVE  seq \o add \in Seq(Frame) /\ Rising(seq \o add, lo, hi)
  <1> DEFINE all == seq \o add
  <1>1. /\ all \in Seq(Frame) /\ Len(all) = Len(seq) + Len(add)
        /\ \A n \in 1..Len(seq) : all[n] = seq[n]
        /\ \A n \in (Len(seq) + 1)..Len(all) : n - Len(seq) \in 1..Len(add) /\ all[n] = add[n - Len(seq)]
    OBVIOUS
  <1>2. /\ \A n \in 1..Len(seq) : n \in DOMAIN seq /\ seq[n].id \in Nat
        /\ \A n \in 1..Len(add) : n \in DOMAIN add /\ add[n].id \in Nat
    BY FrameIds
  <1> HIDE DEF all
  <1>3. ASSUME NEW n \in 1..Len(seq)
        PROVE  lo < all[n].id /\ all[n].id <= mid
    BY <1>1, <1>2, <1>3 DEF Rising
  <1>4. ASSUME NEW n \in (Len(seq) + 1)..Len(all)
        PROVE  mid < all[n].id /\ all[n].id <= hi
    BY <1>1, <1>2, <1>4 DEF Rising
  <1>5. ASSUME NEW n \in 1..Len(all)
        PROVE  n \in 1..Len(seq) \/ n \in (Len(seq) + 1)..Len(all)
    BY <1>1
  <1>6. \A n \in 1..Len(all) : all[n].id \in Nat
    BY <1>1, <1>2, <1>5
  <1>7. ASSUME NEW n \in 1..Len(all)
        PROVE  lo < all[n].id /\ all[n].id <= hi
    BY <1>3, <1>4, <1>5, <1>6
  <1>8. ASSUME NEW m \in 1..Len(all), NEW n \in 1..Len(all), m < n
        PROVE  all[m].id < all[n].id
    <2>1. CASE n \in 1..Len(seq)
      <3>1. m \in 1..Len(seq)
        BY <1>8, <2>1
      <3> QED
        BY <1>1, <1>2, <1>8, <2>1, <3>1 DEF Rising
    <2>2. CASE m \in (Len(seq) + 1)..Len(all)
      <3>1. n \in (Len(seq) + 1)..Len(all)
        BY <1>8, <2>2
      <3>2. m - Len(seq) < n - Len(seq)
        BY <1>8, <2>2, <3>1
      <3> QED
        BY <1>1, <1>2, <2>2, <3>1, <3>2 DEF Rising
    <2>3. CASE m \in 1..Len(seq) /\ n \in (Len(seq) + 1)..Len(all)
      BY <1>3, <1>4, <1>6, <2>3
    <2> QED
      BY <1>5, <2>1, <2>2, <2>3
  <1>9. DOMAIN all = 1..Len(all)
    BY <1>1
  <1>10. Rising(all, lo, hi)
    BY <1>7, <1>8, <1>9 DEF Rising
  <1> QED
    BY <1>1, <1>10 DEF all

LEMMA TellsAppends ==
  ASSUME NEW seq \in Seq(Frame), NEW add \in Seq(Frame), NEW i \in Nat, Tells(seq, i)
  PROVE  Tells(seq \o add, i)
  <1> DEFINE all == seq \o add
  <1>1. /\ all \in Seq(Frame) /\ Len(all) = Len(seq) + Len(add)
        /\ \A n \in 1..Len(seq) : all[n] = seq[n]
    OBVIOUS
  <1>2. DOMAIN seq = 1..Len(seq) /\ DOMAIN all = 1..Len(all) /\ Len(seq) \in Nat /\ Len(add) \in Nat
    BY <1>1
  <1> HIDE DEF all
  <1>3. PICK n \in 1..Len(seq) :
           \/ seq[n].id = i
           \/ /\ seq[n].kind = "mazzy-reset" /\ i <= seq[n].id
              /\ \A m \in 1..Len(seq) : m < n => seq[m].id < i
    BY <1>2 DEF Tells
  <1>4. n \in DOMAIN all /\ \A m \in DOMAIN all : m < n => m \in 1..Len(seq)
    BY <1>1, <1>2
  <1>5. Tells(all, i)
    BY <1>1, <1>3, <1>4 DEF Tells
  <1> QED
    BY <1>5 DEF all

\* What a stream is sent to catch up starts above where it is, ends at the
\* end of the log, and tells of every event between.
LEMMA CatchUpInOrder ==
  ASSUME TypeOK, NEW from \in 0..Len(log)
  PROVE  /\ CatchUp(from) \in Seq(Frame)
         /\ Rising(CatchUp(from), from, Len(log))
         /\ MarkAfter(from, CatchUp(from)) = Len(log)
         /\ \A i \in (from + 1)..Len(log) : Tells(CatchUp(from), i)
  <1> USE LogLength, Bounds
  <1>1. CASE TooWide(from)
    <2>1. CatchUp(from) = << ResetFrame >> /\ ResetFrame \in Frame /\ from < Len(log)
      BY <1>1 DEF CatchUp, TooWide, ResetFrame, Frame, Kinds
    <2>2. /\ << ResetFrame >> \in Seq(Frame) /\ Len(<< ResetFrame >>) = 1
          /\ << ResetFrame >>[1] = ResetFrame /\ DOMAIN << ResetFrame >> = 1..1
      BY <2>1
    <2>3. ResetFrame.id = Len(log) /\ ResetFrame.kind = "mazzy-reset"
      BY DEF ResetFrame
    <2>4. Rising(<< ResetFrame >>, from, Len(log))
      BY <2>1, <2>2, <2>3 DEF Rising
    <2>5. MarkAfter(from, << ResetFrame >>) = Len(log)
      BY <2>1, <2>2, <2>3 DEF MarkAfter, MaxOf
    <2>6. \A i \in (from + 1)..Len(log) : Tells(<< ResetFrame >>, i)
      BY <2>2, <2>3 DEF Tells
    <2> QED
      BY <2>1, <2>2, <2>4, <2>5, <2>6
  <1>2. CASE ~TooWide(from)
    <2> DEFINE seq == EventFrames(from + 1, Len(log))
               n == Len(log) - from
    <2>1. CatchUp(from) = seq
      BY <1>2 DEF CatchUp, Replay, TooWide
    <2>2. /\ seq \in Seq(Frame) /\ Len(seq) = n /\ n \in Nat
          /\ \A k \in 1..n : seq[k] = [kind |-> "ops-event", id |-> from + k]
          /\ Rising(seq, from, Len(log))
      <3>1. n \in Nat /\ from \in Nat /\ from + n = Len(log)
        OBVIOUS
      <3>2. seq = EventFrames(from + 1, from + n)
        BY <3>1
      <3> HIDE DEF seq, n
      <3> QED
        BY <3>1, <3>2, EventFramesInOrder
    <2>3. n = Len(log) - from /\ from + n = Len(log) /\ n \in Nat
      OBVIOUS
    <2>4. DOMAIN seq = 1..n
      BY <2>2
    <2> HIDE DEF seq, n
    <2>5. MarkAfter(from, seq) = Len(log)
      <3>1. CASE n = 0
        BY <2>2, <2>3, <3>1 DEF MarkAfter
      <3>2. CASE n > 0
        <4>1. seq # << >> /\ n \in 1..n
          BY <2>2, <2>3, <3>2
        <4>2. seq[n] = [kind |-> "ops-event", id |-> from + n] /\ Len(seq) = n
          BY <2>2, <4>1
        <4>3. seq[Len(seq)].id = Len(log)
          BY <2>3, <4>2
        <4> QED
          BY <2>3, <3>2, <4>1, <4>3 DEF MarkAfter, MaxOf
      <3> QED
        BY <2>3, <3>1, <3>2
    <2>6. ASSUME NEW i \in (from + 1)..Len(log)
          PROVE  Tells(seq, i)
      <3>1. i - from \in 1..n /\ from + (i - from) = i
        BY <2>6, <2>3
      <3>2. i - from \in DOMAIN seq /\ seq[i - from].id = i
        BY <2>2, <2>4, <3>1
      <3> QED
        BY <3>2 DEF Tells
    <2> QED
      BY <2>1, <2>2, <2>5, <2>6 DEF n
  <1> QED
    BY <1>1, <1>2

\* What a commit of n events fans out.
LEMMA FannedOutInOrder ==
  ASSUME TypeOK, NEW n \in 1..2, Len(log) + n <= MaxEvents, NEW mark \in 0..Len(log)
  PROVE  /\ FannedOut(n) \in Seq(Frame)
         /\ Rising(FannedOut(n), Len(log), Len(log) + n)
         /\ MarkAfter(mark, FannedOut(n)) = Len(log) + n
         /\ \A i \in (Len(log) + 1)..(Len(log) + n) :
               \E k \in DOMAIN FannedOut(n) : FannedOut(n)[k].id = i
  <1> DEFINE L == Len(log)
             seq == EventFrames(L + 1, L + n)
  <1>1. L \in Nat /\ n \in Nat /\ L + n <= MaxEvents
    BY LogLength
  <1> HIDE DEF L
  <1>4. /\ seq \in Seq(Frame) /\ Len(seq) = n /\ Rising(seq, L, L + n)
        /\ \A k \in 1..n : seq[k] = [kind |-> "ops-event", id |-> L + k]
    BY <1>1, EventFramesInOrder
  <1> HIDE DEF seq
  <1>5. seq # << >> /\ seq[Len(seq)].id = L + n
    BY <1>4
  <1>6. mark \in 0..L => MarkAfter(mark, seq) = L + n
    BY <1>1, <1>5 DEF MarkAfter, MaxOf
  <1>7. ASSUME NEW i \in (L + 1)..(L + n)
        PROVE  \E k \in DOMAIN seq : seq[k].id = i
    <2>1. i - L \in 1..n /\ L + (i - L) = i
      BY <1>1
    <2>2. i - L \in DOMAIN seq /\ seq[i - L].id = i
      BY <1>4, <2>1
    <2> QED
      BY <2>2
  <1>8. FannedOut(n) = seq
    BY DEF FannedOut, seq, L
  <1> QED
    BY <1>4, <1>6, <1>7, <1>8 DEF L

---------------------------------------------------------------------------
(* The steps *)

LEMMA TabTypes ==
  ASSUME TypeOK, NEW c \in Tabs
  PROVE  /\ wire[c] \in Seq(Frame) /\ server[c] \in Procs \cup {Null}
         /\ cursor[c] \in 0..Len(log) /\ delivered[c] \in 0..Len(log)
         /\ cursor[c] \in Nat /\ delivered[c] \in Nat
  BY LogLength DEF TypeOK

\* A committed event is at the end of the log.
LEMMA LogAfter ==
  ASSUME TypeOK, NEW p \in Procs, NEW n \in 1..2, Commit(p, n)
  PROVE  /\ log' \in Seq(Procs) /\ Len(log') = Len(log) + n /\ Len(log') <= MaxEvents
         /\ \A i \in 1..Len(log) : log'[i] = log[i]
         /\ \A i \in (Len(log) + 1)..Len(log') : log'[i] = p
  <1> DEFINE add == [k \in 1..n |-> p]
  <1>1. add \in Seq(Procs) /\ Len(add) = n /\ \A k \in 1..n : add[k] = p
    OBVIOUS
  <1>2. log' = log \o add /\ Len(log) + n <= MaxEvents /\ log \in Seq(Procs)
    BY DEF Commit, TypeOK
  <1> HIDE DEF add
  <1>3. /\ log \o add \in Seq(Procs) /\ Len(log \o add) = Len(log) + Len(add)
        /\ \A i \in 1..Len(log) : (log \o add)[i] = log[i]
        /\ \A i \in (Len(log) + 1)..(Len(log) + Len(add)) :
              i - Len(log) \in 1..Len(add) /\ (log \o add)[i] = add[i - Len(log)]
    BY <1>1, <1>2
  <1> QED
    BY <1>1, <1>2, <1>3

\* What the tabs of the committing process are sent; the others are left.
LEMMA CommitToTab ==
  ASSUME StreamInv, NEW p \in Procs, NEW n \in 1..2, Commit(p, n), NEW c \in Tabs
  PROVE  /\ server'[c] = server[c] /\ cursor'[c] = cursor[c] /\ seen'[c] = seen[c]
         /\ server[c] = p => /\ wire'[c] = wire[c] \o FannedOut(n)
                             /\ delivered'[c] = Len(log) + n
         /\ server[c] # p => wire'[c] = wire[c] /\ delivered'[c] = delivered[c]
  BY TabTypes, FannedOutInOrder DEF Commit, StreamInv

LEMMA CommitKeeps ==
  ASSUME StreamInv, NEW p \in Procs, NEW n \in 1..2, Commit(p, n)
  PROVE  StreamInv'
  <1>1. /\ TypeOK /\ Len(log) \in Nat /\ n \in Nat /\ Len(log) + n <= MaxEvents
        /\ log' \in Seq(Procs) /\ Len(log') = Len(log) + n /\ Len(log') <= MaxEvents
        /\ \A i \in 1..Len(log) : log'[i] = log[i]
        /\ \A i \in (Len(log) + 1)..Len(log') : log'[i] = p
    <2>1. TypeOK /\ Len(log) + n <= MaxEvents
      BY DEF StreamInv, Commit
    <2>2. n \in Nat /\ Len(log) \in Nat
      BY <2>1, LogLength
    <2> QED
      BY <2>1, <2>2, LogAfter
  <1>2. ASSUME NEW c \in Tabs
        PROVE  /\ wire'[c] \in Seq(Frame)
               /\ delivered'[c] \in 0..Len(log') /\ cursor'[c] \in 0..Len(log')
               /\ seen'[c] \subseteq 1..Len(log')
               /\ server'[c] = Null => wire'[c] = << >>
               /\ server'[c] # Null => /\ cursor'[c] <= delivered'[c]
                                       /\ Rising(wire'[c], cursor'[c], delivered'[c])
    <2>1. /\ wire[c] \in Seq(Frame) /\ cursor[c] \in 0..Len(log) /\ delivered[c] \in 0..Len(log)
          /\ cursor[c] \in Nat /\ delivered[c] \in Nat /\ seen[c] \subseteq 1..Len(log)
      BY <1>1, TabTypes DEF TypeOK
    <2>2. /\ server[c] = Null => wire[c] = << >>
          /\ server[c] # Null => /\ cursor[c] <= delivered[c]
                                 /\ Rising(wire[c], cursor[c], delivered[c])
      BY DEF StreamInv, StreamsInOrder
    <2>3. /\ server'[c] = server[c] /\ cursor'[c] = cursor[c] /\ seen'[c] = seen[c]
          /\ server[c] = p => wire'[c] = wire[c] \o FannedOut(n) /\ delivered'[c] = Len(log) + n
          /\ server[c] # p => wire'[c] = wire[c] /\ delivered'[c] = delivered[c]
      BY CommitToTab
    <2>4. cursor[c] \in 0..Len(log') /\ seen[c] \subseteq 1..Len(log')
      BY <1>1, <2>1
    <2>5. CASE server[c] # p
      <3>1. delivered[c] \in 0..Len(log')
        BY <1>1, <2>1
      <3> QED
        BY <2>1, <2>2, <2>3, <2>4, <2>5, <3>1
    <2>6. CASE server[c] = p
      <3>1. server[c] # Null
        BY <2>6, StreamAssumption
      <3>2. FannedOut(n) \in Seq(Frame) /\ Rising(FannedOut(n), Len(log), Len(log) + n)
        BY <1>1, <2>1, FannedOutInOrder
      <3>3. Rising(wire[c], cursor[c], Len(log))
        <4>1. \A k \in DOMAIN wire[c] : wire[c][k].id \in Nat
          BY <2>1, FrameIds
        <4> QED
          BY <1>1, <2>1, <2>2, <3>1, <4>1 DEF Rising
      <3>4. /\ wire[c] \o FannedOut(n) \in Seq(Frame)
            /\ Rising(wire[c] \o FannedOut(n), cursor[c], Len(log) + n)
        <4>1. Len(log) + n \in Nat /\ cursor[c] <= Len(log) /\ Len(log) <= Len(log) + n
          BY <1>1, <2>1
        <4> QED
          BY <1>1, <2>1, <3>2, <3>3, <4>1, RisingAppends
      <3>5. Len(log) + n \in 0..Len(log') /\ cursor[c] <= Len(log) + n
        BY <1>1, <2>1
      <3> QED
        BY <2>3, <2>4, <2>6, <3>1, <3>4, <3>5
    <2> QED
      BY <2>5, <2>6
  <1>3. TypeOK'
    <2>1. server' \in [Tabs -> Procs \cup {Null}]
      BY DEF Commit, StreamInv, TypeOK
    <2>2. delivered' \in [Tabs -> 0..Len(log')]
      BY <1>2 DEF Commit
    <2>3. wire' \in [Tabs -> Seq(Frame)]
      BY <1>2 DEF Commit
    <2>4. cursor' \in [Tabs -> 0..Len(log')] /\ seen' \in [Tabs -> SUBSET (1..Len(log'))]
      BY <1>2 DEF Commit, StreamInv, TypeOK
    <2> QED
      BY <1>1, <2>1, <2>2, <2>3, <2>4 DEF TypeOK
  <1>4. StreamsInOrder'
    BY <1>2 DEF StreamsInOrder
  <1>5. OwnAhead'
    <2> SUFFICES ASSUME NEW c \in Tabs, server'[c] # Null, NEW i \in 1..Len(log'),
                        cursor'[c] < i, log'[i] = server'[c]
                 PROVE  Tells(wire'[c], i)
      BY DEF OwnAhead
    <2>1. /\ server'[c] = server[c] /\ cursor'[c] = cursor[c]
          /\ server[c] = p => wire'[c] = wire[c] \o FannedOut(n)
          /\ server[c] # p => wire'[c] = wire[c]
      BY CommitToTab
    <2>2. CASE i \in 1..Len(log)
      <3>1. Tells(wire[c], i)
        BY <1>1, <2>1, <2>2 DEF StreamInv, OwnAhead
      <3>2. wire[c] \in Seq(Frame) /\ FannedOut(n) \in Seq(Frame)
        BY <1>1, TabTypes, FannedOutInOrder
      <3>3. i \in Nat
        BY <1>1, <2>2
      <3> QED
        BY <2>1, <3>1, <3>2, <3>3, TellsAppends
    <2>3. CASE i \notin 1..Len(log)
      <3>1. i \in (Len(log) + 1)..(Len(log) + n) /\ server[c] = p
        BY <1>1, <2>1, <2>3
      <3>2. /\ FannedOut(n) \in Seq(Frame) /\ wire[c] \in Seq(Frame)
            /\ \E k \in DOMAIN FannedOut(n) : FannedOut(n)[k].id = i
        BY <1>1, <3>1, TabTypes, FannedOutInOrder
      <3>3. PICK k \in 1..Len(FannedOut(n)) : FannedOut(n)[k].id = i
        BY <3>2
      <3>4. /\ Len(wire[c]) + k \in DOMAIN (wire[c] \o FannedOut(n))
            /\ (wire[c] \o FannedOut(n))[Len(wire[c]) + k] = FannedOut(n)[k]
        BY <3>2
      <3> QED
        BY <2>1, <3>1, <3>3, <3>4 DEF Tells
    <2> QED
      BY <2>2, <2>3
  <1> QED
    BY <1>3, <1>4, <1>5 DEF StreamInv

\* A stream that is opened, or caught up by the heartbeat, is at the end of
\* the log.
LEMMA OpenKeeps ==
  ASSUME StreamInv, NEW c \in Tabs, NEW p \in Procs, OpenStream(c, p)
  PROVE  StreamInv'
  <1>1. TypeOK /\ cursor[c] \in 0..Len(log) /\ cursor[c] \in Nat /\ Len(log) \in Nat
    BY TabTypes, LogLength DEF StreamInv
  <1>2. /\ CatchUp(cursor[c]) \in Seq(Frame) /\ Rising(CatchUp(cursor[c]), cursor[c], Len(log))
        /\ MarkAfter(cursor[c], CatchUp(cursor[c])) = Len(log)
        /\ \A i \in (cursor[c] + 1)..Len(log) : Tells(CatchUp(cursor[c]), i)
    BY <1>1, CatchUpInOrder
  <1>3. /\ log' = log /\ cursor' = cursor /\ seen' = seen
        /\ server' = [server EXCEPT ![c] = p]
        /\ wire' = [wire EXCEPT ![c] = CatchUp(cursor[c])]
        /\ delivered' = [delivered EXCEPT ![c] = Len(log)]
    BY <1>2 DEF OpenStream
  <1>4. TypeOK'
    BY <1>1, <1>2, <1>3 DEF TypeOK
  <1>5. StreamsInOrder'
    <2> SUFFICES ASSUME NEW d \in Tabs
                 PROVE  /\ server'[d] = Null => wire'[d] = << >>
                        /\ server'[d] # Null => /\ cursor'[d] <= delivered'[d]
                                                /\ Rising(wire'[d], cursor'[d], delivered'[d])
      BY DEF StreamsInOrder
    <2>1. CASE d = c
      BY <1>1, <1>2, <1>3, <2>1, StreamAssumption DEF TypeOK
    <2>2. CASE d # c
      BY <1>1, <1>3, <2>2 DEF StreamInv, StreamsInOrder, TypeOK
    <2> QED
      BY <2>1, <2>2
  <1>6. OwnAhead'
    <2> SUFFICES ASSUME NEW d \in Tabs, server'[d] # Null, NEW i \in 1..Len(log'),
                        cursor'[d] < i, log'[i] = server'[d]
                 PROVE  Tells(wire'[d], i)
      BY DEF OwnAhead
    <2>1. CASE d = c
      <3>1. i \in (cursor[c] + 1)..Len(log)
        BY <1>1, <1>3, <2>1
      <3>2. wire'[d] = CatchUp(cursor[c])
        BY <1>1, <1>3, <2>1 DEF TypeOK
      <3> QED
        BY <1>2, <3>1, <3>2
    <2>2. CASE d # c
      BY <1>1, <1>3, <2>2 DEF StreamInv, OwnAhead, TypeOK
    <2> QED
      BY <2>1, <2>2
  <1> QED
    BY <1>4, <1>5, <1>6 DEF StreamInv

LEMMA HeartbeatKeeps ==
  ASSUME StreamInv, NEW c \in Tabs, Heartbeat(c)
  PROVE  StreamInv'
  <1>1. /\ TypeOK /\ delivered[c] \in 0..Len(log) /\ cursor[c] \in Nat /\ delivered[c] \in Nat
        /\ Len(log) \in Nat /\ wire[c] \in Seq(Frame) /\ server[c] # Null
        /\ cursor[c] <= delivered[c] /\ Rising(wire[c], cursor[c], delivered[c])
    BY TabTypes, LogLength DEF StreamInv, StreamsInOrder, Heartbeat
  <1> DEFINE add == CatchUp(delivered[c])
  <1>2. /\ add \in Seq(Frame) /\ Rising(add, delivered[c], Len(log))
        /\ MarkAfter(delivered[c], add) = Len(log)
    BY <1>1, CatchUpInOrder
  <1>3. /\ log' = log /\ cursor' = cursor /\ seen' = seen /\ server' = server
        /\ wire' = [wire EXCEPT ![c] = wire[c] \o add]
        /\ delivered' = [delivered EXCEPT ![c] = Len(log)]
    BY <1>1, <1>2 DEF Heartbeat, HeartbeatFrom, TypeOK
  <1> HIDE DEF add
  <1>4. wire[c] \o add \in Seq(Frame) /\ Rising(wire[c] \o add, cursor[c], Len(log))
    BY <1>1, <1>2, RisingAppends
  <1>5. TypeOK'
    BY <1>1, <1>3, <1>4 DEF TypeOK
  <1>6. StreamsInOrder'
    <2> SUFFICES ASSUME NEW d \in Tabs
                 PROVE  /\ server'[d] = Null => wire'[d] = << >>
                        /\ server'[d] # Null => /\ cursor'[d] <= delivered'[d]
                                                /\ Rising(wire'[d], cursor'[d], delivered'[d])
      BY DEF StreamsInOrder
    <2>1. CASE d = c
      BY <1>1, <1>3, <1>4, <2>1 DEF TypeOK
    <2>2. CASE d # c
      BY <1>1, <1>3, <2>2 DEF StreamInv, StreamsInOrder, TypeOK
    <2> QED
      BY <2>1, <2>2
  <1>7. OwnAhead'
    <2> SUFFICES ASSUME NEW d \in Tabs, server'[d] # Null, NEW i \in 1..Len(log'),
                        cursor'[d] < i, log'[i] = server'[d]
                 PROVE  Tells(wire'[d], i)
      BY DEF OwnAhead
    <2>1. Tells(wire[d], i) /\ i \in Nat
      BY <1>1, <1>3 DEF StreamInv, OwnAhead
    <2>2. CASE d = c
      <3>1. Tells(wire[c] \o add, i)
        BY <1>1, <1>2, <2>1, <2>2, TellsAppends
      <3> QED
        BY <1>1, <1>3, <2>2, <3>1 DEF TypeOK
    <2>3. CASE d # c
      BY <1>1, <1>3, <2>1, <2>3 DEF TypeOK
    <2> QED
      BY <2>2, <2>3
  <1> QED
    BY <1>5, <1>6, <1>7 DEF StreamInv

LEMMA CloseKeeps ==
  ASSUME StreamInv, NEW c \in Tabs, CloseStream(c)
  PROVE  StreamInv'
  <1>1. << >> \in Seq(Frame)
    OBVIOUS
  <1>2. /\ TypeOK /\ log' = log /\ cursor' = cursor /\ seen' = seen /\ delivered' = delivered
        /\ server' = [server EXCEPT ![c] = Null] /\ wire' = [wire EXCEPT ![c] = << >>]
    BY DEF StreamInv, CloseStream
  <1>3. TypeOK'
    BY <1>1, <1>2 DEF TypeOK
  <1>4. \A d \in Tabs : \/ server'[d] = Null /\ wire'[d] = << >>
                        \/ server'[d] = server[d] /\ wire'[d] = wire[d]
    BY <1>2 DEF TypeOK
  <1>5. StreamsInOrder'
    BY <1>2, <1>4 DEF StreamInv, StreamsInOrder
  <1>6. OwnAhead'
    BY <1>2, <1>4 DEF StreamInv, OwnAhead
  <1> QED
    BY <1>3, <1>5, <1>6 DEF StreamInv

\* The first frame on the wire is of an open stream and past the cursor; the
\* others come after it.
LEMMA HeadFrame ==
  ASSUME StreamInv, NEW c \in Tabs, wire[c] # << >>
  PROVE  /\ server[c] # Null /\ Head(wire[c]) = wire[c][1] /\ wire[c][1] \in Frame
         /\ cursor[c] < wire[c][1].id /\ wire[c][1].id <= delivered[c]
         /\ wire[c][1].id \in 1..Len(log)
         /\ Tail(wire[c]) \in Seq(Frame) /\ Len(wire[c]) \in Nat
         /\ DOMAIN Tail(wire[c]) = 1..(Len(wire[c]) - 1) /\ DOMAIN wire[c] = 1..Len(wire[c])
         /\ \A n \in 1..(Len(wire[c]) - 1) : Tail(wire[c])[n] = wire[c][n + 1]
         /\ \A n \in 1..Len(wire[c]) : wire[c][n].id \in Nat
         /\ Rising(wire[c], cursor[c], delivered[c])
  <1>1. /\ wire[c] \in Seq(Frame) /\ cursor[c] \in Nat /\ delivered[c] \in 0..Len(log)
        /\ Len(log) \in Nat
    BY TabTypes, LogLength DEF StreamInv
  <1>2. server[c] # Null /\ Rising(wire[c], cursor[c], delivered[c])
    BY DEF StreamInv, StreamsInOrder
  <1>3. /\ 1 \in 1..Len(wire[c]) /\ DOMAIN wire[c] = 1..Len(wire[c]) /\ Len(wire[c]) \in Nat
        /\ Head(wire[c]) = wire[c][1]
    BY <1>1
  <1>4. /\ Tail(wire[c]) \in Seq(Frame) /\ DOMAIN Tail(wire[c]) = 1..(Len(wire[c]) - 1)
        /\ \A n \in 1..(Len(wire[c]) - 1) : Tail(wire[c])[n] = wire[c][n + 1]
    BY <1>1
  <1>5. /\ wire[c][1] \in Frame /\ wire[c][1].id \in Nat
        /\ \A n \in 1..Len(wire[c]) : wire[c][n].id \in Nat
    BY <1>1, <1>3, FrameIds
  <1>6. cursor[c] < wire[c][1].id /\ wire[c][1].id <= delivered[c]
    BY <1>2, <1>3 DEF Rising
  <1>7. wire[c][1].id \in 1..Len(log)
    BY <1>1, <1>5, <1>6
  <1> QED
    BY <1>2, <1>3, <1>4, <1>5, <1>6, <1>7

LEMMA ReadEffect ==
  ASSUME StreamInv, NEW c \in Tabs, ReadFrame(c)
  PROVE  /\ wire[c] # << >>
         /\ UNCHANGED << log, server, delivered >>
         /\ cursor' = [cursor EXCEPT ![c] = wire[c][1].id]
         /\ wire' = [wire EXCEPT ![c] = Tail(wire[c])]
         /\ seen' = [seen EXCEPT ![c] = IF wire[c][1].kind = "mazzy-reset" THEN 1..Len(log)
                                        ELSE seen[c] \cup {wire[c][1].id}]
  <1>1. wire[c] # << >>
    BY DEF ReadFrame
  <1>2. cursor[c] \in Nat /\ Head(wire[c]) = wire[c][1] /\ cursor[c] < wire[c][1].id
        /\ wire[c][1].id \in Nat
    BY <1>1, HeadFrame, TabTypes DEF StreamInv
  <1>3. MaxOf(cursor[c], wire[c][1].id) = wire[c][1].id
    BY <1>2 DEF MaxOf
  <1> QED
    BY <1>1, <1>2, <1>3 DEF ReadFrame

LEMMA ReadKeeps ==
  ASSUME StreamInv, NEW c \in Tabs, ReadFrame(c)
  PROVE  StreamInv'
  <1>1. /\ wire[c] # << >>
        /\ UNCHANGED << log, server, delivered >>
        /\ cursor' = [cursor EXCEPT ![c] = wire[c][1].id]
        /\ wire' = [wire EXCEPT ![c] = Tail(wire[c])]
        /\ seen' = [seen EXCEPT ![c] = IF wire[c][1].kind = "mazzy-reset" THEN 1..Len(log)
                                       ELSE seen[c] \cup {wire[c][1].id}]
    BY ReadEffect
  <1> DEFINE seq == wire[c]
             rest == Tail(wire[c])
             id == wire[c][1].id
  <1>2. /\ server[c] # Null
        /\ cursor[c] < id /\ id <= delivered[c] /\ id \in 1..Len(log)
        /\ rest \in Seq(Frame) /\ Len(seq) \in Nat
        /\ DOMAIN rest = 1..(Len(seq) - 1) /\ DOMAIN seq = 1..Len(seq)
        /\ \A n \in 1..(Len(seq) - 1) : rest[n] = seq[n + 1]
        /\ \A n \in 1..Len(seq) : seq[n].id \in Nat
        /\ Rising(seq, cursor[c], delivered[c])
    BY <1>1, HeadFrame
  <1>3. TypeOK /\ Len(log) \in Nat /\ cursor[c] \in Nat
    BY LogLength, TabTypes DEF StreamInv
  <1>4. TypeOK'
    <2>1. cursor' \in [Tabs -> 0..Len(log)]
      BY <1>1, <1>2, <1>3 DEF TypeOK
    <2>2. wire' \in [Tabs -> Seq(Frame)]
      BY <1>1, <1>2, <1>3 DEF TypeOK
    <2>3. seen' \in [Tabs -> SUBSET (1..Len(log))]
      BY <1>1, <1>2, <1>3 DEF TypeOK
    <2> QED
      BY <1>1, <1>3, <2>1, <2>2, <2>3 DEF TypeOK
  <1>5. cursor'[c] = id /\ wire'[c] = rest
    BY <1>1, <1>3 DEF TypeOK
  <1>6. \A d \in Tabs \ {c} : cursor'[d] = cursor[d] /\ wire'[d] = wire[d]
    BY <1>1, <1>3 DEF TypeOK
  <1> HIDE DEF seq, rest, id
  <1>7. Rising(rest, id, delivered[c])
    <2>1. ASSUME NEW n \in 1..(Len(seq) - 1)
          PROVE  n + 1 \in 1..Len(seq) /\ 1 \in 1..Len(seq) /\ 1 < n + 1
      BY <1>2, <2>1
    <2>2. id = seq[1].id
      BY DEF id, seq
    <2>3. \A n \in 1..(Len(seq) - 1) : id < rest[n].id /\ rest[n].id <= delivered[c]
      BY <1>2, <2>1, <2>2 DEF Rising
    <2>4. ASSUME NEW m \in 1..(Len(seq) - 1), NEW n \in 1..(Len(seq) - 1), m < n
          PROVE  rest[m].id < rest[n].id
      <3>1. m + 1 \in DOMAIN seq /\ n + 1 \in DOMAIN seq /\ m + 1 < n + 1
        BY <1>2, <2>1, <2>4
      <3>2. seq[m + 1].id < seq[n + 1].id
        BY <1>2, <3>1 DEF Rising
      <3> QED
        BY <1>2, <3>2
    <2> QED
      BY <1>2, <2>3, <2>4 DEF Rising
  <1>8. StreamsInOrder'
    <2> SUFFICES ASSUME NEW d \in Tabs
                 PROVE  /\ server'[d] = Null => wire'[d] = << >>
                        /\ server'[d] # Null => /\ cursor'[d] <= delivered'[d]
                                                /\ Rising(wire'[d], cursor'[d], delivered'[d])
      BY DEF StreamsInOrder
    <2>1. CASE d = c
      BY <1>1, <1>2, <1>5, <1>7, <2>1
    <2>2. CASE d # c
      BY <1>1, <1>6, <2>2 DEF StreamInv, StreamsInOrder
    <2> QED
      BY <2>1, <2>2
  <1>9. OwnAhead'
    <2> SUFFICES ASSUME NEW d \in Tabs, server'[d] # Null, NEW i \in 1..Len(log'),
                        cursor'[d] < i, log'[i] = server'[d]
                 PROVE  Tells(wire'[d], i)
      BY DEF OwnAhead
    <2>1. CASE d = c
      <3>1. i \in Nat /\ id < i /\ cursor[c] < i /\ i \in 1..Len(log) /\ log[i] = server[c]
        BY <1>1, <1>2, <1>3, <1>5, <2>1
      <3>2. Tells(seq, i)
        BY <1>2, <3>1 DEF StreamInv, OwnAhead, seq
      <3>3. PICK n \in 1..Len(seq) :
               \/ seq[n].id = i
               \/ /\ seq[n].kind = "mazzy-reset" /\ i <= seq[n].id
                  /\ \A m \in 1..Len(seq) : m < n => seq[m].id < i
        BY <1>2, <3>2 DEF Tells
      <3>4. n # 1
        BY <1>2, <3>1, <3>3 DEF seq, id
      <3>5. n - 1 \in 1..(Len(seq) - 1) /\ rest[n - 1] = seq[n]
        BY <1>2, <3>4
      <3>6. \A m \in 1..(Len(seq) - 1) : m < n - 1 =>
               m + 1 \in 1..Len(seq) /\ m + 1 < n /\ rest[m] = seq[m + 1]
        BY <1>2
      <3>7. Tells(rest, i)
        BY <1>2, <3>3, <3>5, <3>6 DEF Tells
      <3> QED
        BY <1>5, <2>1, <3>7
    <2>2. CASE d # c
      BY <1>1, <1>6, <2>2 DEF StreamInv, OwnAhead
    <2> QED
      BY <2>1, <2>2
  <1> QED
    BY <1>4, <1>8, <1>9 DEF StreamInv

---------------------------------------------------------------------------
(* The invariants *)

LEMMA StreamInvariant == Spec => []StreamInv
  <1>1. Init => StreamInv
    <2> SUFFICES ASSUME Init
                 PROVE  StreamInv
      OBVIOUS
    <2>1. Len(log) = 0 /\ log \in Seq(Procs) /\ << >> \in Seq(Frame)
      BY DEF Init
    <2>2. TypeOK
      BY <2>1, Bounds DEF Init, TypeOK
    <2> QED
      BY <2>1, <2>2 DEF Init, StreamInv, StreamsInOrder, OwnAhead
  <1>2. StreamInv /\ [Next]_vars => StreamInv'
    <2> SUFFICES ASSUME StreamInv, [Next]_vars
                 PROVE  StreamInv'
      OBVIOUS
    <2>1. CASE UNCHANGED vars
      BY <2>1 DEF vars, StreamInv, TypeOK, StreamsInOrder, OwnAhead
    <2> QED
      BY <2>1, CommitKeeps, OpenKeeps, HeartbeatKeeps, CloseKeeps, ReadKeeps DEF Next
  <1> QED
    BY <1>1, <1>2, PTL DEF Spec

\* Every mark, cursor and id is one of the log, whatever is committed, sent,
\* lost and read again.
THEOREM StreamTypeCorrect == Spec => []TypeOK
  <1>1. StreamInv => TypeOK
    BY DEF StreamInv
  <1> QED
    BY <1>1, StreamInvariant, PTL

\* No event is written twice to a stream and none after a later one, although
\* the replay, the fan-out of a commit and the heartbeat write independently.
THEOREM StreamInOrder == Spec => []FramesRise
  <1>1. ASSUME StreamInv
        PROVE  FramesRise
    <2> SUFFICES ASSUME NEW c \in Tabs
                 PROVE  /\ \A m, n \in DOMAIN wire[c] : m < n => wire[c][m].id < wire[c][n].id
                        /\ server[c] # Null => \A n \in DOMAIN wire[c] :
                              cursor[c] < wire[c][n].id /\ wire[c][n].id <= delivered[c]
      BY DEF FramesRise
    <2>1. CASE server[c] = Null
      BY <1>1, <2>1 DEF StreamInv, StreamsInOrder
    <2>2. CASE server[c] # Null
      BY <1>1, <2>2 DEF StreamInv, StreamsInOrder, Rising
    <2> QED
      BY <2>1, <2>2
  <1> QED
    BY <1>1, StreamInvariant, PTL

\* A tab that moves its cursor over an event of the process that serves it
\* is told of it: the event is the frame it reads, or the frame is a reset.
LEMMA CursorTells ==
  ASSUME StreamInv, [Next]_vars, NEW c \in Tabs, cursor'[c] > cursor[c],
         NEW i \in (cursor[c] + 1)..cursor'[c], log[i] = server[c]
  PROVE  i \in seen'[c]
  <1>1. TypeOK /\ cursor[c] \in Nat
    BY TabTypes DEF StreamInv
  <1>2. \E d \in Tabs : ReadFrame(d)
    <2>1. cursor' # cursor
      BY <1>1
    <2> QED
      BY <2>1 DEF Next, Commit, OpenStream, Heartbeat, CloseStream, vars
  <1>3. PICK d \in Tabs : ReadFrame(d)
    BY <1>2
  <1>4. c = d
    <2>1. cursor' = [cursor EXCEPT ![d] = wire[d][1].id]
      BY <1>3, ReadEffect
    <2> QED
      BY <1>1, <2>1 DEF TypeOK
  <1>5. /\ wire[c] # << >>
        /\ cursor' = [cursor EXCEPT ![c] = wire[c][1].id]
        /\ seen' = [seen EXCEPT ![c] = IF wire[c][1].kind = "mazzy-reset" THEN 1..Len(log)
                                       ELSE seen[c] \cup {wire[c][1].id}]
    BY <1>3, <1>4, ReadEffect
  <1>6. cursor'[c] = wire[c][1].id /\ seen'[c] = IF wire[c][1].kind = "mazzy-reset"
                                                 THEN 1..Len(log)
                                                 ELSE seen[c] \cup {wire[c][1].id}
    BY <1>1, <1>5 DEF TypeOK
  <1>7. /\ server[c] # Null /\ wire[c][1].id \in 1..Len(log) /\ DOMAIN wire[c] = 1..Len(wire[c])
        /\ Len(wire[c]) \in Nat /\ \A n \in 1..Len(wire[c]) : wire[c][n].id \in Nat
        /\ Rising(wire[c], cursor[c], delivered[c])
    BY <1>5, HeadFrame
  <1>8. i \in 1..Len(log) /\ cursor[c] < i /\ i <= wire[c][1].id /\ i \in Nat
    BY <1>1, <1>6, <1>7
  <1>9. PICK n \in 1..Len(wire[c]) :
           \/ wire[c][n].id = i
           \/ /\ wire[c][n].kind = "mazzy-reset"
              /\ \A m \in 1..Len(wire[c]) : m < n => wire[c][m].id < i
    BY <1>7, <1>8 DEF StreamInv, OwnAhead, Tells
  <1>10. n = 1
    <2> SUFFICES ASSUME n # 1
                 PROVE  FALSE
      OBVIOUS
    <2>1. 1 \in 1..Len(wire[c]) /\ 1 < n
      BY <1>7
    <2>2. wire[c][1].id < wire[c][n].id
      BY <1>7, <2>1 DEF Rising
    <2> QED
      BY <1>7, <1>8, <1>9, <2>1, <2>2
  <1> QED
    BY <1>6, <1>8, <1>9, <1>10

\* The cursor of a tab never passes an event that the process serving it has
\* committed, unless the tab is told of it.
THEOREM OwnEventsReach == Spec => OwnNeverSkipped
  <1>1. StreamInv /\ [Next]_vars =>
          \A c \in Tabs : cursor'[c] > cursor[c] =>
             { i \in (cursor[c] + 1)..cursor'[c] : log[i] = server[c] } \subseteq seen'[c]
    BY CursorTells
  <1> QED
    BY <1>1, StreamInvariant, PTL DEF Spec, OwnNeverSkipped

\* While one process serves and commits all, a tab is told of every event up
\* to the id it resumes at.  What a tab can miss it misses only because
\* another process appends to the same table.
THEOREM OneProcessSkipsNothing ==
  ASSUME NEW p, Procs = {p}
  PROVE  Spec => []NothingSkipped
  <1>1. Init => NothingSkipped
    BY DEF Init, NothingSkipped
  <1>2. ASSUME StreamInv, [Next]_vars, NothingSkipped
        PROVE  NothingSkipped'
    <2> SUFFICES ASSUME NEW c \in Tabs, NEW i \in 1..cursor'[c]
                 PROVE  i \in seen'[c]
      BY DEF NothingSkipped
    <2>1. TypeOK /\ cursor[c] \in Nat /\ seen[c] \subseteq 1..Len(log)
      BY <1>2, TabTypes DEF StreamInv, TypeOK
    <2>2. CASE cursor'[c] = cursor[c] /\ seen'[c] = seen[c]
      BY <1>2, <2>2 DEF NothingSkipped
    <2>3. CASE ReadFrame(c)
      <3>1. /\ cursor'[c] = wire[c][1].id
            /\ seen[c] \subseteq seen'[c]
            /\ cursor[c] < wire[c][1].id /\ wire[c][1].id \in 1..Len(log) /\ server[c] # Null
        <4>1. /\ wire[c] # << >>
              /\ cursor' = [cursor EXCEPT ![c] = wire[c][1].id]
              /\ seen' = [seen EXCEPT ![c] = IF wire[c][1].kind = "mazzy-reset" THEN 1..Len(log)
                                             ELSE seen[c] \cup {wire[c][1].id}]
          BY <1>2, <2>3, ReadEffect
        <4>2. /\ cursor[c] < wire[c][1].id /\ wire[c][1].id \in 1..Len(log)
              /\ server[c] # Null
          BY <1>2, <4>1, HeadFrame
        <4> QED
          BY <2>1, <4>1, <4>2 DEF TypeOK
      <3>2. CASE i <= cursor[c]
        <4>1. i \in 1..cursor[c]
          BY <2>1, <3>1, <3>2
        <4> QED
          BY <1>2, <3>1, <4>1 DEF NothingSkipped
      <3>3. CASE ~(i <= cursor[c])
        <4>1. /\ i \in (cursor[c] + 1)..cursor'[c] /\ i \in 1..Len(log)
              /\ cursor'[c] > cursor[c]
          BY <2>1, <3>1, <3>3
        <4>2. log[i] = p /\ server[c] = p
          BY <2>1, <3>1, <4>1 DEF TypeOK
        <4> QED
          BY <1>2, <4>1, <4>2, CursorTells
      <3> QED
        BY <3>2, <3>3
    <2>4. ReadFrame(c) \/ (cursor'[c] = cursor[c] /\ seen'[c] = seen[c])
      <3>1. ASSUME NEW d \in Tabs \ {c}, ReadFrame(d)
            PROVE  cursor'[c] = cursor[c] /\ seen'[c] = seen[c]
        BY <2>1, <3>1 DEF ReadFrame, TypeOK
      <3>2. \/ \E d \in Tabs : ReadFrame(d)
            \/ cursor' = cursor /\ seen' = seen
        BY <1>2 DEF Next, Commit, OpenStream, Heartbeat, CloseStream, vars
      <3> QED
        BY <3>1, <3>2
    <2> QED
      BY <2>2, <2>3, <2>4
  <1> QED
    BY <1>1, <1>2, StreamInvariant, PTL DEF Spec
=============================================================================
