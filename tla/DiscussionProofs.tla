-------------------------- MODULE DiscussionProofs --------------------------
(***************************************************************************)
(* Notifications and acknowledgements for any number of sessions, projects *)
(* and comments.  A callback is paid for with a receipt: begun or about to *)
(* begin, it has one (Receipted), and only a claim without a receipt makes *)
(* a comment ready.  An acknowledgement is preceded by its answer: what is *)
(* about to be acknowledged, and what is, has one (Backed).                *)
(***************************************************************************)
EXTENDS Discussion, FiniteSetTheorems, TLAPS

Fits == Len(comments) + Cardinality(Storing) <= MaxComments

Receipted ==
    \A s \in Sessions, c \in Ids :
        /\ calls[s][c] <= 1
        /\ calls[s][c] = 1 => <<c, s>> \in receipts
        /\ ready[s] = c => <<c, s>> \in receipts /\ calls[s][c] = 0

HasAnswer(c) == \E a \in DOMAIN comments : comments[a].role = "agent" /\ comments[a].replyTo = c

Backed ==
    /\ \A s \in Sessions : answer[s].step = "acknowledge" =>
          answer[s].to \in DOMAIN comments /\ HasAnswer(answer[s].to)
    /\ \A c \in Ids :
          /\ acknowledged[c] <= 1
          /\ acknowledged[c] = 1 =>
                c \in DOMAIN comments /\ comments[c].state = "acknowledged" /\ HasAnswer(c)

Inv == TypeOK /\ Fits /\ Receipted /\ Backed

---------------------------------------------------------------------------
(* Rows and bounds *)

LEMMA CommentOf ==
  ASSUME TypeOK, NEW c \in DOMAIN comments
  PROVE  comments[c] \in Comment /\ c \in Ids /\ c # 0
  BY BoundAssumption DEF TypeOK, Ids

LEMMA StoringFinite ==
  ASSUME TypeOK
  PROVE  IsFiniteSet(Storing) /\ Cardinality(Storing) \in Nat
  <1>1. Storing \subseteq Sessions
    BY DEF Storing
  <1>2. IsFiniteSet(Storing)
    BY <1>1, HomeAssumption, FS_Subset
  <1> QED
    BY <1>2, FS_CardinalityType

\* What a step may do to the answers under way: none, one more, one less.
LEMMA StoringSteps ==
  ASSUME TypeOK, NEW s \in Sessions
  PROVE  /\ answer' = answer => Cardinality(Storing') = Cardinality(Storing)
         /\ \A a \in Answer :
              answer' = [answer EXCEPT ![s] = a] =>
                /\ Cardinality(Storing') <= Cardinality(Storing) + 1
                /\ a.step # "store" => Cardinality(Storing') <= Cardinality(Storing)
                /\ a.step # "store" /\ s \in Storing =>
                      Cardinality(Storing') = Cardinality(Storing) - 1
  <1>1. ASSUME answer' = answer
        PROVE  Storing' = Storing
    BY <1>1 DEF Storing
  <1>2. ASSUME NEW a \in Answer, answer' = [answer EXCEPT ![s] = a]
        PROVE  Storing' = IF a.step = "store" THEN Storing \cup {s} ELSE Storing \ {s}
    BY <1>2 DEF Storing, TypeOK
  <1>3. /\ IsFiniteSet(Storing) /\ Cardinality(Storing) \in Nat
        /\ Cardinality(Storing \cup {s}) = IF s \in Storing THEN Cardinality(Storing)
                                           ELSE Cardinality(Storing) + 1
        /\ Cardinality(Storing \ {s}) = IF s \in Storing THEN Cardinality(Storing) - 1
                                        ELSE Cardinality(Storing)
    BY StoringFinite, FS_AddElement, FS_RemoveElement
  <1>4. ASSUME NEW a \in Answer, answer' = [answer EXCEPT ![s] = a]
        PROVE  /\ Cardinality(Storing') <= Cardinality(Storing) + 1
               /\ a.step # "store" => Cardinality(Storing') <= Cardinality(Storing)
               /\ a.step # "store" /\ s \in Storing =>
                     Cardinality(Storing') = Cardinality(Storing) - 1
    <2>1. CASE a.step = "store"
      <3>1. Storing' = Storing \cup {s}
        BY <1>2, <1>4, <2>1
      <3> QED
        BY <1>3, <2>1, <3>1
    <2>2. CASE a.step # "store"
      <3>1. Storing' = Storing \ {s}
        BY <1>2, <1>4, <2>2
      <3> QED
        BY <1>3, <2>2, <3>1
    <2> QED
      BY <2>1, <2>2
  <1> QED
    BY <1>1, <1>4

\* No comment goes, and none changes but from "sent" to "acknowledged".
CommentsKept ==
    \A c \in DOMAIN comments :
        /\ c \in DOMAIN comments'
        /\ comments'[c].role = comments[c].role
        /\ comments'[c].replyTo = comments[c].replyTo
        /\ comments[c].state = "acknowledged" => comments'[c].state = "acknowledged"

LEMMA CommentAdded ==
  ASSUME TypeOK, NEW p \in Projects, NEW role \in {"user", "agent"}, NEW to \in Ids \cup {0},
         Added(p, role, to)
  PROVE  /\ comments' \in Seq(Comment) /\ Len(comments') = Len(comments) + 1
         /\ Len(comments) + 1 \in DOMAIN comments'
         /\ comments'[Len(comments) + 1].role = role
         /\ comments'[Len(comments) + 1].replyTo = to
         /\ CommentsKept
  <1> DEFINE row == [ project |-> p, role |-> role, replyTo |-> to, state |-> "sent" ]
  <1>1. row \in Comment /\ comments' = Append(comments, row) /\ comments \in Seq(Comment)
    BY DEF Comment, Added, TypeOK
  <1>2. /\ comments' \in Seq(Comment) /\ Len(comments') = Len(comments) + 1
        /\ \A i \in 1..Len(comments) : comments'[i] = comments[i]
        /\ comments'[Len(comments) + 1] = row
        /\ Len(comments) \in Nat
        /\ DOMAIN comments = 1..Len(comments) /\ DOMAIN comments' = 1..Len(comments')
    <2> HIDE DEF row
    <2> QED
      BY <1>1
  <1>3. row.role = role /\ row.replyTo = to
    OBVIOUS
  <1>4. Len(comments) + 1 \in DOMAIN comments'
    BY <1>2
  <1>5. CommentsKept
    BY <1>2 DEF CommentsKept
  <1> QED
    BY <1>2, <1>3, <1>4, <1>5

LEMMA CommentAcknowledged ==
  ASSUME TypeOK, NEW c \in DOMAIN comments,
         comments' = [comments EXCEPT ![c].state = "acknowledged"]
  PROVE  /\ comments' \in Seq(Comment) /\ Len(comments') = Len(comments)
         /\ comments'[c].state = "acknowledged"
         /\ CommentsKept
  <1> DEFINE row == [comments[c] EXCEPT !.state = "acknowledged"]
  <1>1. comments[c] \in Comment /\ comments \in Seq(Comment)
    BY CommentOf DEF TypeOK
  <1>2. /\ row \in Comment /\ row.state = "acknowledged"
        /\ row.role = comments[c].role /\ row.replyTo = comments[c].replyTo
    BY <1>1 DEF Comment
  <1>3. comments' = [comments EXCEPT ![c] = row]
    OBVIOUS
  <1> HIDE DEF row
  <1>4. /\ comments' \in Seq(Comment) /\ Len(comments') = Len(comments)
        /\ DOMAIN comments' = DOMAIN comments
        /\ \A i \in DOMAIN comments : comments'[i] = IF i = c THEN row ELSE comments[i]
    BY <1>1, <1>2, <1>3
  <1>5. CommentsKept
    BY <1>2, <1>4 DEF CommentsKept
  <1> QED
    BY <1>2, <1>4, <1>5

HasAnswerNext(c) == \E a \in DOMAIN comments' : comments'[a].role = "agent" /\ comments'[a].replyTo = c

LEMMA AnswerKept ==
  ASSUME CommentsKept, NEW c, HasAnswer(c)
  PROVE  HasAnswerNext(c)
  BY DEF CommentsKept, HasAnswer, HasAnswerNext

---------------------------------------------------------------------------
(* Types, and the bound *)

StepKeeps == TypeOK' /\ Fits' /\ CommentsKept

LEMMA PostStep ==
  ASSUME TypeOK, Fits, NEW s \in Sessions, NEW p \in Projects, NEW to \in Ids \cup {0},
         Post(s, p, to)
  PROVE  StepKeeps
  <1>1. /\ comments' \in Seq(Comment) /\ Len(comments') = Len(comments) + 1 /\ CommentsKept
    BY CommentAdded DEF Post
  <1>2. Len(comments) \in Nat /\ Cardinality(Storing) \in Nat
    BY StoringFinite DEF TypeOK
  <1>3. Cardinality(Storing') = Cardinality(Storing)
    BY StoringSteps DEF Post
  <1>4. Len(comments) + Cardinality(Storing) < MaxComments
    BY DEF Post, Room
  <1>5. Len(comments') <= MaxComments /\ Len(comments) + 1 \in Ids /\ Fits'
    BY <1>1, <1>2, <1>3, <1>4, BoundAssumption DEF Fits, Ids
  <1>6. TypeOK'
    BY <1>1, <1>5 DEF Post, TypeOK
  <1> QED
    BY <1>1, <1>5, <1>6 DEF StepKeeps

LEMMA AnswersStep ==
  ASSUME TypeOK, Fits, NEW s \in Sessions, NEW to \in Ids \cup {0}, Answers(s, to)
  PROVE  StepKeeps
  <1> DEFINE a == [ step |-> "store", to |-> to ]
  <1>1. a \in Answer /\ answer' = [answer EXCEPT ![s] = a] /\ comments' = comments
    BY DEF Answer, Answers, store
  <1>2. Cardinality(Storing') <= Cardinality(Storing) + 1
    BY <1>1, StoringSteps
  <1>3. Cardinality(Storing) \in Nat /\ Len(comments) \in Nat
    BY StoringFinite DEF TypeOK
  <1>4. TypeOK'
    BY <1>1 DEF Answers, store, TypeOK
  <1>5. Cardinality(Storing') \in Nat
    <2>1. TypeOK' => Cardinality(Storing)' \in Nat
      <3>1. Storing' \subseteq Sessions
        BY DEF Storing
      <3> QED
        BY <3>1, HomeAssumption, FS_Subset, FS_CardinalityType
    <2> QED
      BY <1>4, <2>1
  <1>6. Fits'
    BY <1>1, <1>2, <1>3, <1>5, BoundAssumption DEF Fits, Answers, Room
  <1> QED
    BY <1>1, <1>4, <1>6 DEF StepKeeps, CommentsKept

LEMMA StoreAnswerStep ==
  ASSUME TypeOK, Fits, NEW s \in Sessions, StoreAnswer(s)
  PROVE  StepKeeps
  <1> DEFINE to == answer[s].to
             more == [answer[s] EXCEPT !.step = "acknowledge"]
  <1>1. answer[s] \in Answer /\ to \in Ids \cup {0} /\ Home[s] \in Projects /\ s \in Storing
    BY HomeAssumption DEF TypeOK, Answer, StoreAnswer, Storing
  <1>2. more \in Answer /\ NoAnswer \in Answer /\ more.step # "store" /\ NoAnswer.step # "store"
    BY <1>1 DEF Answer, NoAnswer
  <1>3. Cardinality(Storing) \in Nat /\ Len(comments) \in Nat
    BY StoringFinite DEF TypeOK
  <1>4. CASE answer' = [answer EXCEPT ![s] = NoAnswer] /\ comments' = comments
    <2>1. Cardinality(Storing') = Cardinality(Storing) - 1
      BY <1>1, <1>2, <1>4, StoringSteps
    <2>2. Fits'
      BY <1>3, <1>4, <2>1, BoundAssumption DEF Fits
    <2>3. TypeOK'
      BY <1>2, <1>4 DEF TypeOK, StoreAnswer
    <2> QED
      BY <1>4, <2>2, <2>3 DEF StepKeeps, CommentsKept
  <1>5. CASE /\ answer' = [answer EXCEPT ![s] = IF to = 0 THEN NoAnswer ELSE more]
             /\ Added(Home[s], "agent", to)
    <2> DEFINE then == IF to = 0 THEN NoAnswer ELSE more
    <2>1. then \in Answer /\ then.step # "store"
      BY <1>2
    <2>0. answer' = [answer EXCEPT ![s] = then]
      BY <1>5
    <2>2. Cardinality(Storing') = Cardinality(Storing) - 1
      <3> HIDE DEF then
      <3> QED
        BY <1>1, <2>0, <2>1, StoringSteps
    <2>3. /\ comments' \in Seq(Comment) /\ Len(comments') = Len(comments) + 1 /\ CommentsKept
      BY <1>1, <1>5, CommentAdded
    <2>4. Fits' /\ Len(comments') <= MaxComments
      <3>1. Len(comments) + Cardinality(Storing) <= MaxComments
        BY DEF Fits
      <3>2. Cardinality(Storing) >= 1
        <4>1. IsFiniteSet(Storing) /\ Storing # {}
          BY <1>1, StoringFinite
        <4> QED
          BY <4>1, <1>3, FS_EmptySet
      <3> QED
        BY <1>3, <2>2, <2>3, <3>1, <3>2, BoundAssumption DEF Fits
    <2>5. TypeOK'
      <3>1. answer' \in [Sessions -> Answer]
        <4> HIDE DEF then
        <4> QED
          BY <2>0, <2>1 DEF TypeOK
      <3> QED
        BY <2>3, <2>4, <3>1 DEF TypeOK, StoreAnswer
    <2> QED
      BY <2>3, <2>4, <2>5 DEF StepKeeps
  <1> QED
    BY <1>4, <1>5 DEF StoreAnswer

LEMMA AcknowledgeStep ==
  ASSUME TypeOK, Fits, Backed, NEW s \in Sessions, Acknowledge(s)
  PROVE  StepKeeps
  <1> DEFINE c == answer[s].to
  <1>1. c \in DOMAIN comments
    BY DEF Backed, Acknowledge
  <1>2. comments[c] \in Comment /\ c \in Ids
    BY <1>1, CommentOf
  <1>3. /\ NoAnswer \in Answer /\ NoAnswer.step # "store"
        /\ answer' = [answer EXCEPT ![s] = NoAnswer]
    BY DEF Answer, NoAnswer, Acknowledge
  <1>4. Cardinality(Storing') <= Cardinality(Storing)
    BY <1>3, StoringSteps
  <1>5. /\ comments' \in Seq(Comment) /\ Len(comments') = Len(comments) /\ CommentsKept
    <2>1. CASE comments' = comments
      BY <2>1 DEF TypeOK, CommentsKept
    <2>2. CASE comments' = [comments EXCEPT ![c].state = "acknowledged"]
      BY <1>1, <2>2, CommentAcknowledged
    <2> QED
      BY <2>1, <2>2 DEF Acknowledge
  <1>6. TypeOK'
    <2>1. acknowledged' \in [Ids -> Nat]
      BY <1>2 DEF TypeOK, Acknowledge
    <2>2. answer' \in [Sessions -> Answer]
      BY <1>3 DEF TypeOK
    <2>3. Len(comments') <= MaxComments
      BY <1>5 DEF TypeOK
    <2> QED
      BY <1>5, <2>1, <2>2, <2>3 DEF TypeOK, Acknowledge
  <1>7. Cardinality(Storing') \in Nat
    <2>1. Storing' \subseteq Sessions
      BY DEF Storing
    <2> QED
      BY <2>1, HomeAssumption, FS_Subset, FS_CardinalityType
  <1>8. Fits'
    <2>1. Cardinality(Storing) \in Nat /\ Len(comments) \in Nat
      BY StoringFinite DEF TypeOK
    <2> QED
      BY <1>4, <1>5, <1>7, <2>1, BoundAssumption DEF Fits
  <1> QED
    BY <1>5, <1>6, <1>8 DEF StepKeeps

LEMMA NotifyTypes ==
  ASSUME TypeOK, NEW s \in Sessions, NEW c \in Ids, Notify(s, c)
  PROVE  receipts' \subseteq Ids \X Sessions /\ ready' \in [Sessions -> Ids \cup {0}]
  <1>1. CASE Claims(s, c)
    <2>1. /\ receipts' = receipts \cup {<<c, s>>} /\ ready' = [ready EXCEPT ![s] = c]
          /\ receipts \subseteq Ids \X Sessions /\ ready \in [Sessions -> Ids \cup {0}]
      BY <1>1 DEF Notify, TypeOK
    <2> QED
      BY <2>1
  <1>2. CASE ~Claims(s, c)
    BY <1>2 DEF Notify, TypeOK
  <1> QED
    BY <1>1, <1>2

\* The steps that add no comment and begin no answer.
LEMMA OtherSteps ==
  ASSUME TypeOK, Fits, NEW s \in Sessions,
         \/ \E c \in Ids : PostAgain(s, c)
         \/ SessionStart(s) \/ DoorbellFails(s) \/ NotifyPosted(s) \/ Call(s) \/ Reconcile(s) \/ NotifyDue(s)
  PROVE  StepKeeps
  <1>1. comments' = comments /\ answer' = answer
    BY DEF PostAgain, SessionStart, DoorbellFails, NotifyPosted, Call, Reconcile, NotifyDue, store
  <1>2. Fits'
    BY <1>1, StoringSteps DEF Fits
  <1>3. DOMAIN comments \subseteq Ids
    BY CommentOf
  <1>4. TypeOK'
    <2>1. CASE \E c \in Ids : PostAgain(s, c)
      BY <2>1 DEF PostAgain, TypeOK, store
    <2>2. CASE SessionStart(s) \/ DoorbellFails(s)
      BY <2>2 DEF SessionStart, DoorbellFails, TypeOK, store
    <2>3. CASE NotifyPosted(s)
      <3>1. posted[s] \in Ids
        BY <2>3 DEF NotifyPosted, TypeOK
      <3>2. receipts' \subseteq Ids \X Sessions /\ ready' \in [Sessions -> Ids \cup {0}]
        BY <2>3, <3>1, NotifyTypes DEF NotifyPosted
      <3> QED
        BY <2>3, <3>2 DEF NotifyPosted, TypeOK
    <2>4. CASE Call(s)
      BY <2>4 DEF Call, TypeOK, store
    <2>5. CASE Reconcile(s)
      BY <1>3, <2>5 DEF Reconcile, Listed, Unnotified, TypeOK, store
    <2>6. CASE NotifyDue(s)
      <3>1. PICK c \in due[s] : due' = [due EXCEPT ![s] = @ \ {c}] /\ Notify(s, c)
        BY <2>6 DEF NotifyDue
      <3>2. receipts' \subseteq Ids \X Sessions /\ ready' \in [Sessions -> Ids \cup {0}]
        BY <3>1, NotifyTypes DEF TypeOK
      <3>3. due' \in [Sessions -> SUBSET Ids]
        BY <3>1 DEF TypeOK
      <3> QED
        BY <2>6, <3>2, <3>3 DEF NotifyDue, TypeOK
    <2> QED
      BY <2>1, <2>2, <2>3, <2>4, <2>5, <2>6
  <1> QED
    BY <1>1, <1>2, <1>4 DEF StepKeeps, CommentsKept

LEMMA StopStep ==
  ASSUME TypeOK, Fits, NEW s \in Sessions, Stop(s)
  PROVE  StepKeeps
  <1>1. /\ NoAnswer \in Answer /\ NoAnswer.step # "store"
        /\ answer' = [answer EXCEPT ![s] = NoAnswer] /\ comments' = comments
    BY DEF Answer, NoAnswer, Stop, store
  <1>2. Cardinality(Storing') <= Cardinality(Storing)
    BY <1>1, StoringSteps
  <1>3. TypeOK'
    BY <1>1 DEF Stop, TypeOK, store
  <1>4. Cardinality(Storing') \in Nat
    <2>1. Storing' \subseteq Sessions
      BY DEF Storing
    <2> QED
      BY <2>1, HomeAssumption, FS_Subset, FS_CardinalityType
  <1>5. Fits'
    <2>1. Cardinality(Storing) \in Nat /\ Len(comments) \in Nat
      BY StoringFinite DEF TypeOK
    <2> QED
      BY <1>1, <1>2, <1>4, <2>1, BoundAssumption DEF Fits
  <1> QED
    BY <1>1, <1>3, <1>5 DEF StepKeeps, CommentsKept

LEMMA EveryStepKeeps == Inv /\ [Next]_vars => StepKeeps
  <1> SUFFICES ASSUME Inv, [Next]_vars
               PROVE  StepKeeps
    OBVIOUS
  <1>1. TypeOK /\ Fits /\ Backed
    BY DEF Inv
  <1>2. CASE UNCHANGED vars
    BY <1>1, <1>2 DEF vars, store, process, TypeOK, Fits, Storing, StepKeeps, CommentsKept
  <1>3. ASSUME NEW s \in Sessions, NEW p \in Projects, NEW to \in Ids \cup {0}, Post(s, p, to)
        PROVE  StepKeeps
    BY <1>1, <1>3, PostStep
  <1>4. ASSUME NEW s \in Sessions, NEW to \in Ids \cup {0}, Answers(s, to)
        PROVE  StepKeeps
    BY <1>1, <1>4, AnswersStep
  <1>5. ASSUME NEW s \in Sessions, StoreAnswer(s)
        PROVE  StepKeeps
    BY <1>1, <1>5, StoreAnswerStep
  <1>6. ASSUME NEW s \in Sessions, Acknowledge(s)
        PROVE  StepKeeps
    BY <1>1, <1>6, AcknowledgeStep
  <1>7. ASSUME NEW s \in Sessions,
               \/ \E c \in Ids : PostAgain(s, c)
               \/ SessionStart(s) \/ DoorbellFails(s) \/ NotifyPosted(s) \/ Call(s) \/ Reconcile(s) \/ NotifyDue(s)
        PROVE  StepKeeps
    BY <1>1, <1>7, OtherSteps
  <1>8. ASSUME NEW s \in Sessions, Stop(s)
        PROVE  StepKeeps
    BY <1>1, <1>8, StopStep
  <1> QED
    BY <1>2, <1>3, <1>4, <1>5, <1>6, <1>7, <1>8 DEF Next, Continue

---------------------------------------------------------------------------
(* Receipts and callbacks *)

\* A claim makes ready a comment the session had no receipt for.
LEMMA NotifyPays ==
  ASSUME TypeOK, Receipted, NEW s \in Sessions, NEW c \in Ids, Notify(s, c), calls' = calls
  PROVE  Receipted'
  <1>1. CASE UNCHANGED << receipts, ready >>
    BY <1>1 DEF Receipted
  <1>2. CASE /\ <<c, s>> \notin receipts
             /\ receipts' = receipts \cup {<<c, s>>}
             /\ ready' = [ready EXCEPT ![s] = c]
    <2> SUFFICES ASSUME NEW q \in Sessions, NEW d \in Ids
                 PROVE  /\ calls[q][d] <= 1
                        /\ calls[q][d] = 1 => <<d, q>> \in receipts'
                        /\ ready'[q] = d => <<d, q>> \in receipts' /\ calls[q][d] = 0
      BY DEF Receipted
    <2>1. /\ calls[q][d] <= 1 /\ calls[q][d] \in Nat
          /\ calls[q][d] = 1 => <<d, q>> \in receipts
          /\ ready[q] = d => <<d, q>> \in receipts /\ calls[q][d] = 0
      BY DEF Receipted, TypeOK
    <2>2. CASE q = s /\ d = c
      <3>1. calls[q][d] = 0
        BY <1>2, <2>1, <2>2
      <3> QED
        BY <1>2, <2>2, <3>1
    <2>3. CASE q = s /\ d # c
      <3>1. ready'[q] = c
        BY <1>2, <2>3 DEF TypeOK
      <3> QED
        BY <1>2, <2>1, <2>3, <3>1
    <2>4. CASE q # s
      <3>1. ready'[q] = ready[q]
        BY <1>2, <2>4 DEF TypeOK
      <3> QED
        BY <1>2, <2>1, <3>1
    <2> QED
      BY <2>2, <2>3, <2>4
  <1> QED
    BY <1>1, <1>2 DEF Notify, Claims

LEMMA CallPaid ==
  ASSUME TypeOK, Receipted, NEW s \in Sessions, Call(s)
  PROVE  Receipted'
  <1> SUFFICES ASSUME NEW q \in Sessions, NEW d \in Ids
               PROVE  /\ calls'[q][d] <= 1
                      /\ calls'[q][d] = 1 => <<d, q>> \in receipts'
                      /\ ready'[q] = d => <<d, q>> \in receipts' /\ calls'[q][d] = 0
    BY DEF Receipted
  <1>1. /\ calls[q][d] <= 1 /\ calls[q][d] \in Nat
        /\ calls[q][d] = 1 => <<d, q>> \in receipts
        /\ ready[q] = d => <<d, q>> \in receipts /\ calls[q][d] = 0
    BY DEF Receipted, TypeOK
  <1>2. receipts' = receipts /\ ready[s] \in Ids
    BY DEF Call, store, TypeOK
  <1>3. CASE q = s
    <2>1. ready'[q] = 0 /\ d # 0
      BY <1>3 DEF Call, TypeOK, Ids
    <2>2. calls'[q][d] = IF d = ready[s] THEN calls[q][d] + 1 ELSE calls[q][d]
      BY <1>2, <1>3 DEF Call, TypeOK
    <2>3. CASE d = ready[s]
      <3>1. calls[q][d] = 0 /\ <<d, q>> \in receipts
        BY <1>1, <1>3, <2>3
      <3>2. calls'[q][d] = 1
        BY <2>2, <2>3, <3>1
      <3> QED
        BY <1>2, <2>1, <3>1, <3>2
    <2>4. CASE d # ready[s]
      BY <1>1, <1>2, <2>1, <2>2, <2>4
    <2> QED
      BY <2>3, <2>4
  <1>4. CASE q # s
    <2>1. ready'[q] = ready[q] /\ calls'[q] = calls[q]
      BY <1>4 DEF Call, TypeOK
    <2> QED
      BY <1>1, <1>2, <2>1
  <1> QED
    BY <1>3, <1>4

LEMMA ReceiptedStep == Inv /\ [Next]_vars => Receipted'
  <1> SUFFICES ASSUME Inv, [Next]_vars
               PROVE  Receipted'
    OBVIOUS
  <1>1. TypeOK /\ Receipted
    BY DEF Inv
  <1>2. ASSUME receipts' = receipts, ready' = ready, calls' = calls
        PROVE  Receipted'
    BY <1>1, <1>2 DEF Receipted
  <1>3. CASE UNCHANGED vars
    BY <1>2, <1>3 DEF vars, store, process
  <1>4. ASSUME NEW s \in Sessions,
               \/ \E p \in Projects, to \in Ids \cup {0} : Post(s, p, to)
               \/ \E c \in Ids : PostAgain(s, c)
               \/ \E to \in Ids \cup {0} : Answers(s, to)
               \/ SessionStart(s) \/ DoorbellFails(s) \/ Reconcile(s) \/ StoreAnswer(s) \/ Acknowledge(s)
        PROVE  Receipted'
    BY <1>2, <1>4 DEF Post, PostAgain, Answers, SessionStart, DoorbellFails, Reconcile, StoreAnswer, Acknowledge, store
  <1>5. ASSUME NEW s \in Sessions, NotifyPosted(s)
        PROVE  Receipted'
    <2>1. posted[s] \in Ids
      BY <1>1, <1>5 DEF NotifyPosted, TypeOK
    <2> QED
      BY <1>1, <1>5, <2>1, NotifyPays DEF NotifyPosted
  <1>6. ASSUME NEW s \in Sessions, NotifyDue(s)
        PROVE  Receipted'
    <2>1. PICK c \in due[s] : Notify(s, c)
      BY <1>6 DEF NotifyDue
    <2>2. c \in Ids /\ calls' = calls
      BY <1>1, <1>6 DEF NotifyDue, TypeOK
    <2> QED
      BY <1>1, <2>1, <2>2, NotifyPays
  <1>7. ASSUME NEW s \in Sessions, Call(s)
        PROVE  Receipted'
    BY <1>1, <1>7, CallPaid
  <1>8. ASSUME NEW s \in Sessions, Stop(s)
        PROVE  Receipted'
    <2>1. ready' = [ready EXCEPT ![s] = 0] /\ receipts' = receipts /\ calls' = calls
      BY <1>8 DEF Stop, store
    <2>2. 0 \notin Ids
      BY DEF Ids
    <2>3. \A q \in Sessions, c \in Ids : ready'[q] = c => ready[q] = c
      BY <1>1, <2>1, <2>2 DEF TypeOK
    <2> QED
      BY <1>1, <2>1, <2>3 DEF Receipted
  <1> QED
    BY <1>3, <1>4, <1>5, <1>6, <1>7, <1>8 DEF Next, Continue

---------------------------------------------------------------------------
(* Answers and acknowledgements *)

PendingBacked ==
    \A q \in Sessions : answer'[q].step = "acknowledge" =>
        answer'[q].to \in DOMAIN comments' /\ HasAnswerNext(answer'[q].to)

EventsBacked ==
    \A c \in Ids :
        /\ acknowledged'[c] <= 1
        /\ acknowledged'[c] = 1 =>
              c \in DOMAIN comments' /\ comments'[c].state = "acknowledged" /\ HasAnswerNext(c)

LEMMA BackedNext ==
  ASSUME PendingBacked, EventsBacked
  PROVE  Backed'
  BY DEF PendingBacked, EventsBacked, Backed, HasAnswer, HasAnswerNext

LEMMA BackedStep == Inv /\ [Next]_vars => Backed'
  <1> SUFFICES ASSUME Inv, [Next]_vars
               PROVE  Backed'
    OBVIOUS
  <1>1. TypeOK /\ Backed /\ TypeOK' /\ CommentsKept
    BY EveryStepKeeps DEF Inv, StepKeeps
  <1>2. \A c : HasAnswer(c) => HasAnswerNext(c)
    BY <1>1, AnswerKept
  <1>3. ASSUME acknowledged' = acknowledged
        PROVE  EventsBacked
    BY <1>1, <1>2, <1>3 DEF Backed, CommentsKept, EventsBacked
  <1>4. ASSUME NEW s \in Sessions, NEW a \in Answer, answer' = [answer EXCEPT ![s] = a],
               a.step = "acknowledge" => a.to \in DOMAIN comments' /\ HasAnswerNext(a.to)
        PROVE  PendingBacked
    <2> SUFFICES ASSUME NEW q \in Sessions, answer'[q].step = "acknowledge"
                 PROVE  answer'[q].to \in DOMAIN comments' /\ HasAnswerNext(answer'[q].to)
      BY DEF PendingBacked
    <2>1. CASE q = s
      BY <1>1, <1>4, <2>1 DEF TypeOK
    <2>2. CASE q # s
      <3>1. answer'[q] = answer[q]
        BY <1>1, <1>4, <2>2 DEF TypeOK
      <3>2. answer[q].to \in DOMAIN comments /\ HasAnswer(answer[q].to)
        BY <1>1, <3>1 DEF Backed
      <3> QED
        BY <1>1, <1>2, <3>1, <3>2 DEF CommentsKept
    <2> QED
      BY <2>1, <2>2
  <1>5. ASSUME answer' = answer
        PROVE  PendingBacked
    BY <1>1, <1>2, <1>5 DEF Backed, CommentsKept, PendingBacked
  <1>6. CASE UNCHANGED vars
    BY <1>3, <1>5, <1>6, BackedNext DEF vars, store, process
  <1>7. ASSUME NEW s \in Sessions,
               \/ \E p \in Projects, to \in Ids \cup {0} : Post(s, p, to)
               \/ \E c \in Ids : PostAgain(s, c)
               \/ SessionStart(s) \/ DoorbellFails(s) \/ NotifyPosted(s) \/ Call(s) \/ Reconcile(s) \/ NotifyDue(s)
        PROVE  Backed'
    <2>1. answer' = answer /\ acknowledged' = acknowledged
      BY <1>7 DEF Post, PostAgain, SessionStart, DoorbellFails, NotifyPosted, Call, Reconcile, NotifyDue
    <2> QED
      BY <1>3, <1>5, <2>1, BackedNext
  <1>8. ASSUME NEW s \in Sessions, NEW to \in Ids \cup {0}, Answers(s, to)
        PROVE  Backed'
    <2>1. /\ [ step |-> "store", to |-> to ] \in Answer
          /\ [ step |-> "store", to |-> to ].step # "acknowledge"
          /\ answer' = [answer EXCEPT ![s] = [ step |-> "store", to |-> to ]]
          /\ acknowledged' = acknowledged
      BY <1>8 DEF Answers, Answer
    <2> QED
      BY <1>3, <1>4, <2>1, BackedNext
  <1>9. ASSUME NEW s \in Sessions, Stop(s)
        PROVE  Backed'
    <2>1. /\ NoAnswer \in Answer /\ NoAnswer.step # "acknowledge"
          /\ answer' = [answer EXCEPT ![s] = NoAnswer] /\ acknowledged' = acknowledged
      BY <1>9 DEF Stop, NoAnswer, Answer
    <2> QED
      BY <1>3, <1>4, <2>1, BackedNext
  <1>10. ASSUME NEW s \in Sessions, StoreAnswer(s)
         PROVE  Backed'
    <2> DEFINE to == answer[s].to
               more == [answer[s] EXCEPT !.step = "acknowledge"]
    <2>1. acknowledged' = acknowledged /\ answer[s] \in Answer /\ NoAnswer \in Answer
          /\ NoAnswer.step # "acknowledge"
      BY <1>1, <1>10 DEF StoreAnswer, TypeOK, Answer, NoAnswer
    <2>2. CASE answer' = [answer EXCEPT ![s] = NoAnswer]
      BY <1>3, <1>4, <2>1, <2>2, BackedNext
    <2>3. CASE to # 0 /\ Added(Home[s], "agent", to) /\ OnTask(to, Home[s])
               /\ answer' = [answer EXCEPT ![s] = more]
      <3>1. more \in Answer /\ more.to = to
        BY <2>1 DEF Answer
      <3>2. Home[s] \in Projects /\ to \in Ids \cup {0}
        BY <2>1, HomeAssumption DEF Answer
      <3>3. HasAnswerNext(to)
        <4>1. /\ Len(comments) + 1 \in DOMAIN comments'
              /\ comments'[Len(comments) + 1].role = "agent"
              /\ comments'[Len(comments) + 1].replyTo = to
          BY <1>1, <2>3, <3>2, CommentAdded
        <4> QED
          BY <4>1 DEF HasAnswerNext
      <3>4. to \in DOMAIN comments'
        BY <1>1, <2>3 DEF OnTask, CommentsKept
      <3>5. PendingBacked
        <4> HIDE DEF more, to
        <4> QED
          BY <1>4, <2>3, <3>1, <3>3, <3>4
      <3> QED
        BY <1>3, <2>1, <3>5, BackedNext
    <2> QED
      BY <1>10, <2>2, <2>3 DEF StoreAnswer
  <1>11. ASSUME NEW s \in Sessions, Acknowledge(s)
         PROVE  Backed'
    <2> DEFINE c == answer[s].to
    <2>1. /\ NoAnswer \in Answer /\ NoAnswer.step # "acknowledge"
          /\ answer' = [answer EXCEPT ![s] = NoAnswer]
      BY <1>11 DEF Acknowledge, NoAnswer, Answer
    <2>2. c \in DOMAIN comments /\ HasAnswer(c) /\ c \in Ids
      BY <1>1, <1>11, CommentOf DEF Acknowledge, Backed
    <2>3. CASE acknowledged' = acknowledged
      BY <1>3, <1>4, <2>1, <2>3, BackedNext
    <2>4. CASE /\ comments[c].state = "sent"
               /\ comments' = [comments EXCEPT ![c].state = "acknowledged"]
               /\ acknowledged' = [acknowledged EXCEPT ![c] = @ + 1]
      <3>1. comments'[c].state = "acknowledged"
        BY <1>1, <2>2, <2>4, CommentAcknowledged
      <3>2. acknowledged[c] = 0
        BY <1>1, <2>2, <2>4 DEF Backed, TypeOK
      <3>3. acknowledged'[c] = 1 /\ \A d \in Ids : d # c => acknowledged'[d] = acknowledged[d]
        BY <1>1, <2>2, <2>4, <3>2 DEF TypeOK
      <3>4. EventsBacked
        BY <1>1, <1>2, <2>2, <3>1, <3>3 DEF Backed, CommentsKept, EventsBacked
      <3> QED
        BY <1>4, <2>1, <3>4, BackedNext
    <2> QED
      BY <1>11, <2>3, <2>4 DEF Acknowledge
  <1> QED
    BY <1>6, <1>7, <1>8, <1>9, <1>10, <1>11 DEF Next, Continue

---------------------------------------------------------------------------
(* Theorems *)

LEMMA InvInit == Init => Inv
  <1> SUFFICES ASSUME Init
               PROVE  Inv
    OBVIOUS
  <1>1. comments = << >> /\ Len(comments) = 0 /\ DOMAIN comments = {}
    BY DEF Init
  <1>2. NoAnswer \in Answer /\ NoAnswer.step = "none"
    BY DEF NoAnswer, Answer
  <1>3. TypeOK
    <2>1. comments \in Seq(Comment)
      BY <1>1
    <2> QED
      BY <1>1, <1>2, <2>1, BoundAssumption DEF Init, TypeOK
  <1>4. Storing = {}
    BY <1>2 DEF Init, Storing
  <1>5. Fits
    BY <1>1, <1>4, FS_EmptySet, BoundAssumption DEF Fits
  <1>6. Receipted
    BY DEF Init, Receipted, Ids
  <1>7. Backed
    BY <1>2 DEF Init, Backed
  <1> QED
    BY <1>3, <1>5, <1>6, <1>7 DEF Inv

LEMMA InvStep == Inv /\ [Next]_vars => Inv'
  BY EveryStepKeeps, ReceiptedStep, BackedStep DEF Inv, StepKeeps

\* Every row, receipt and history value is well typed, and the comments stay
\* within the bound (the tables task_comments and comment_notifications).
THEOREM TypeCorrect == Spec => []TypeOK
  <1>1. Inv => TypeOK
    BY DEF Inv
  <1> QED
    BY InvInit, InvStep, <1>1, PTL DEF Spec

\* For any number of sessions, projects and comments: whether it is posted,
\* retried or found at a start, no session is called back twice about it
\* (notifyComment, claimCommentNotification).
THEOREM CalledAtMostOnce == Spec => []CalledOnce
  <1>1. Inv => CalledOnce
    BY DEF Inv, Receipted, CalledOnce
  <1> QED
    BY InvInit, InvStep, <1>1, PTL DEF Spec

\* A crash between the two transactions of respondToDiscussion leaves an
\* answered comment unacknowledged, never the reverse, and two answers at once
\* write one event.
THEOREM AcknowledgedIsBacked == Spec => []AcknowledgedIsAnswered
  <1>1. Inv => AcknowledgedIsAnswered
    BY DEF Inv, Backed, HasAnswer, AcknowledgedIsAnswered
  <1> QED
    BY InvInit, InvStep, <1>1, PTL DEF Spec
=============================================================================
