---------------------------- MODULE CutoverProofs ----------------------------
(***************************************************************************)
(* The migration and the cutover for any number of sessions, writes and    *)
(* damages.  The lock keeps all but one command out (LockHeld), so what a  *)
(* command has checked or copied at one step is still so at the next, up   *)
(* to the writes of the other sessions, which carry numbers above its      *)
(* baseline (Knows).  The witness is published first and taken away last   *)
(* (WitnessOutlasts), so it alone decides who the authority is.  A stamped *)
(* store, retained or in effect, agrees with the legacy one up to its      *)
(* stamp (CopyAtStamp), which is what the gate's comparison of numbers     *)
(* stands for.                                                             *)
(***************************************************************************)
EXTENDS Cutover, TLAPS

\* Steps of an apply or a rollback past its guard, which replace the store.
Rewriting == (ApplySteps \cup RollbackSteps) \ { "apply", "rollback" }

\* Those at which the store that is replaced has its recovery image.
Imaged == Rewriting \ { "invalid", "rolled-back" }

\* Those of an activation past its parity gate.
Checked == { "recheck", "witness", "marker", "cutover" }

AllSteps == CommandSteps \cup { "idle", "reconnect" }

LockHeld == \A s \in Sessions : step[s] \in CommandSteps => lock = s

\* The witness is published first and taken away last.
WitnessOutlasts == marker \/ journal = "cutover" => witness

\* Up to the number n the legacy store and these rows are the same.
SameUpTo(rows, n) == \A w \in Writes : w <= n => (w \in legacy <=> w \in rows)

\* A stamped store was a copy of the legacy one at its stamp.
CopyAtStamp(file) ==
    file # Null /\ file.since # Null =>
        file.since <= wrote /\ SameUpTo(file.rows, file.since)

StampsTrue == CopyAtStamp(target) /\ CopyAtStamp(backup)

\* The copies of the rows of the canonical store that s is about to replace.
Copied(s) ==
    target # Null =>
        \A w \in target.rows :
            \/ w > baseline[s]
            \/ w \in legacy
            \/ \E k \in Kinds : \E n \in DOMAIN images[k] : w \in images[k][n]

HandedOver(s) == target # Null => \A w \in legacy : w \in target.rows \/ w > baseline[s]

\* What a command knows at its next step, whatever the others did meanwhile.
Knows(s) ==
    /\ step[s] \in Rewriting => ~Observed
    /\ step[s] \in Imaged => Copied(s)
    /\ step[s] = "stamp" => target \in StoreFile /\ SameUpTo(target.rows, baseline[s])
    /\ step[s] \in Checked => IsPromoted /\ Matches
    /\ step[s] = "witness" => HandedOver(s)
    /\ step[s] \in { "marker", "cutover" } => witness
    /\ step[s] = "repair" => ~Observed
    /\ step[s] \in { "unmark", "unwitness" } => journal # "cutover"
    /\ step[s] = "unwitness" => ~marker

CommandsKnow == \A s \in Sessions : baseline[s] <= wrote /\ Knows(s)

CutoverInv == /\ TypeOK /\ LockHeld /\ WitnessOutlasts /\ CommandsKnow
              /\ StampsTrue /\ CutoverIsUsable

---------------------------------------------------------------------------
(* What the actions have in common *)

\* A command that runs goes on to a next step, or ends and gives the lock back.
Moves(s) ==
    \E from \in CommandSteps, to \in AllSteps :
        \/ Goes(s, from, to) \/ Marks(s, from, to)
        \/ Ends(s, from, to) /\ to \notin CommandSteps

CommandAction(s) ==
    \/ \E force \in BOOLEAN : ApplyGuard(s, force) \/ RollbackGuard(s, force)
    \/ ApplyBackup(s) \/ ApplyJournal(s) \/ ApplyRemove(s) \/ ApplySnapshot(s)
    \/ ApplyStamp(s) \/ ApplyPromote(s) \/ ApplyFails(s) \/ ApplyRestore(s) \/ ApplyInvalid(s)
    \/ ActivateGuard(s) \/ ActivateRecheck(s) \/ ActivateWitness(s) \/ ActivateMarker(s)
    \/ ActivateJournal(s) \/ DeactivateGuard(s) \/ DeactivateRepair(s)
    \/ DeactivateJournal(s) \/ DeactivateMarker(s) \/ DeactivateWitness(s)
    \/ RollbackRevert(s) \/ RollbackJournal(s) \/ GiveUp(s)

\* Files and counters stay as they are, but for the images and the lock.
Rests == UNCHANGED << legacy, target, backup, evidence, wrote, faults >>

---------------------------------------------------------------------------
(* Stores, images and steps *)

LEMMA StoreFields ==
  ASSUME NEW f \in StoreFile
  PROVE  /\ f # Null
         /\ f.rows \subseteq Writes
         /\ f.since \in 0..MaxWrites \cup {Null}
  BY NullAssumption DEF StoreFile

LEMMA Stamped ==
  ASSUME NEW f \in StoreFile, NEW n \in 0..MaxWrites
  PROVE  /\ [f EXCEPT !.since = n] \in StoreFile
         /\ [f EXCEPT !.since = n].rows = f.rows
         /\ [f EXCEPT !.since = n].since = n
  BY DEF StoreFile

LEMMA RowAdded ==
  ASSUME NEW f \in StoreFile, NEW w \in Writes
  PROVE  /\ [f EXCEPT !.rows = @ \cup {w}] \in StoreFile
         /\ [f EXCEPT !.rows = @ \cup {w}].rows = f.rows \cup {w}
         /\ [f EXCEPT !.rows = @ \cup {w}].since = f.since
  BY DEF StoreFile

\* withControlStoreBackup keeps the newest image whatever it retires.
LEMMA RetainedKeepsNewest ==
  ASSUME NEW rows \in SUBSET Writes, NEW seq \in Seq(SUBSET Writes)
  PROVE  /\ Retained(<< rows >> \o seq) \in Seq(SUBSET Writes)
         /\ Len(Retained(<< rows >> \o seq)) <= Retention
         /\ 1 \in DOMAIN Retained(<< rows >> \o seq)
         /\ Retained(<< rows >> \o seq)[1] = rows
  <1> DEFINE all == << rows >> \o seq
             m == IF Len(all) < Retention THEN Len(all) ELSE Retention
  <1>1. all \in Seq(SUBSET Writes) /\ Len(all) >= 1 /\ all[1] = rows
    OBVIOUS
  <1>2. m \in 1..Len(all) /\ m <= Retention
    BY <1>1, CutoverAssumption
  <1>3. Retained(all) = SubSeq(all, 1, m)
    BY DEF Retained
  <1> HIDE DEF all, m
  <1>4. /\ SubSeq(all, 1, m) \in Seq(SUBSET Writes)
        /\ Len(SubSeq(all, 1, m)) = m
        /\ SubSeq(all, 1, m)[1] = all[1]
    BY <1>1, <1>2
  <1>5. 1 \in DOMAIN SubSeq(all, 1, m)
    BY <1>1, <1>2, <1>4
  <1>6. << rows >> \o seq = all
    BY DEF all
  <1> QED
    BY <1>1, <1>2, <1>3, <1>4, <1>5, <1>6

LEMMA SavedImages ==
  ASSUME TypeOK, NEW kind \in Kinds
  PROVE  /\ Saved(kind) \in [Kinds -> Seq(SUBSET Writes)]
         /\ \A k \in Kinds : Len(Saved(kind)[k]) <= Retention
         /\ target # Null =>
              1 \in DOMAIN Saved(kind)[kind] /\ Saved(kind)[kind][1] = target.rows
  <1>1. CASE target = Null
    BY <1>1 DEF Saved, TypeOK
  <1>2. CASE target # Null
    <2>1. target.rows \in SUBSET Writes /\ images \in [Kinds -> Seq(SUBSET Writes)]
      BY <1>2, StoreFields DEF TypeOK
    <2>2. images[kind] \in Seq(SUBSET Writes)
      BY <2>1
    <2> DEFINE new == Retained(<< target.rows >> \o images[kind])
    <2>3. /\ new \in Seq(SUBSET Writes) /\ Len(new) <= Retention
          /\ 1 \in DOMAIN new /\ new[1] = target.rows
      BY <2>1, <2>2, RetainedKeepsNewest
    <2>4. Saved(kind) = [images EXCEPT ![kind] = new]
      BY <1>2 DEF Saved
    <2> HIDE DEF new
    <2>5. Saved(kind)[kind] = new
      BY <2>1, <2>4
    <2>6. Saved(kind) \in [Kinds -> Seq(SUBSET Writes)]
      BY <2>1, <2>3, <2>4
    <2>7. \A k \in Kinds : Len(Saved(kind)[k]) <= Retention
      BY <2>1, <2>3, <2>4 DEF TypeOK
    <2> QED
      BY <2>3, <2>5, <2>6, <2>7
  <1> QED
    BY <1>1, <1>2

\* migrate.lock is made exclusively: two commands never run at a time.
LEMMA OneCommand ==
  ASSUME LockHeld, NEW s \in Sessions, NEW t \in Sessions,
         step[s] \in CommandSteps, step[t] \in CommandSteps
  PROVE  s = t
  BY DEF LockHeld

LEMMA NotBusy == "idle" \notin CommandSteps /\ "reconnect" \notin CommandSteps
  BY DEF CommandSteps, ApplySteps, ActivateSteps, DeactivateSteps, RollbackSteps

LEMMA UnlinkedOpens ==
  ASSUME TypeOK
  PROVE  Unlinked \in [Sessions -> Opens] /\ \A s \in Sessions : Unlinked[s] # "canonical"
  BY DEF TypeOK, Unlinked, Opens

LEMMA EndpointOpens ==
  ASSUME NEW s \in Sessions
  PROVE  Endpoint(s) \in Opens \ { "detached" } /\ (Endpoint(s) = "canonical" => Matches)
  BY DEF Endpoint, Opens

LEMMA StepNames ==
  /\ { "backup", "prepare", "remove", "snapshot", "stamp", "verified", "promoting",
       "promoted", "restore", "invalid", "recheck", "witness", "marker", "cutover",
       "repair", "demote", "unmark", "unwitness", "revert", "rolled-back", "idle",
       "apply", "activate", "deactivate", "rollback", "reconnect" } \subseteq AllSteps
  /\ { "absent", "prepared", "verified", "promoting", "promoted", "cutover",
       "rolled-back", "invalid" } \subseteq Journals
  BY DEF AllSteps, CommandSteps, ApplySteps, ActivateSteps, DeactivateSteps, RollbackSteps,
         Journals

\* A command goes on to its next step, or ends.
LEMMA Advances ==
  ASSUME TypeOK, NEW s \in Sessions, NEW from, NEW to \in AllSteps,
         Goes(s, from, to) \/ Marks(s, from, to) \/ Ends(s, from, to)
  PROVE  /\ step[s] = from /\ step' = [step EXCEPT ![s] = to]
         /\ step' \in [Sessions -> AllSteps] /\ step'[s] = to
         /\ \A t \in Sessions \ {s} : step'[t] = step[t] /\ baseline'[t] = baseline[t]
         /\ lock' \in Sessions \cup {Null, Orphan}
         /\ baseline' \in [Sessions -> 0..MaxWrites]
         /\ \/ lock' = lock
            \/ lock = s /\ lock' = Null
         /\ Ends(s, from, to) \/ lock' = lock
         /\ baseline'[s] \in {baseline[s], wrote, 0}
  <1>1. /\ step[s] = from /\ step' = [step EXCEPT ![s] = to]
        /\ \/ lock' = lock /\ baseline' = baseline
           \/ lock' = lock /\ baseline' = [baseline EXCEPT ![s] = wrote]
           \/ /\ lock' = lock \/ (lock = s /\ lock' = Null)
              /\ baseline' = [baseline EXCEPT ![s] = 0]
    <2>1. CASE Goes(s, from, to)
      BY <2>1 DEF Goes
    <2>2. CASE Marks(s, from, to)
      BY <2>2 DEF Marks
    <2>3. CASE Ends(s, from, to)
      BY <2>3 DEF Ends
    <2> QED
      BY <2>1, <2>2, <2>3
  <1>2. step \in [Sessions -> AllSteps]
    BY DEF AllSteps, TypeOK
  <1>3. 0 \in 0..MaxWrites /\ wrote \in 0..MaxWrites /\ baseline \in [Sessions -> 0..MaxWrites]
    BY CutoverAssumption DEF TypeOK
  <1>4. lock \in Sessions \cup {Null, Orphan}
    BY DEF TypeOK
  <1>5. /\ step' \in [Sessions -> AllSteps] /\ step'[s] = to
        /\ \A t \in Sessions \ {s} : step'[t] = step[t]
    BY <1>1, <1>2
  <1>6. /\ baseline' \in [Sessions -> 0..MaxWrites]
        /\ \A t \in Sessions \ {s} : baseline'[t] = baseline[t]
        /\ baseline'[s] \in {baseline[s], wrote, 0}
    BY <1>1, <1>3
  <1>7. Ends(s, from, to) \/ lock' = lock
    BY DEF Goes, Marks
  <1> QED
    BY <1>1, <1>4, <1>5, <1>6, <1>7

\* The canonical file is replaced by the backup, or unlinked.
LEMMA RestoredType ==
  ASSUME TypeOK, BackupRestored
  PROVE  /\ legacy' \subseteq Writes
         /\ target' \in StoreFile \cup {Null} /\ backup' \in StoreFile \cup {Null}
         /\ glass' \subseteq BreakGlass
         /\ open' \in [Sessions -> Opens]
         /\ \A s \in Sessions : open'[s] = "canonical" => target' # Null
  BY UnlinkedOpens DEF TypeOK, BackupRestored

LEMMA InitType ==
  ASSUME Init
  PROVE  TypeOK
  <1>1. images \in [Kinds -> Seq(SUBSET Writes)] /\ \A k \in Kinds : Len(images[k]) <= Retention
    BY CutoverAssumption DEF Init
  <1>2. 0 \in 0..MaxWrites /\ 0 \in 0..MaxFaults
    BY CutoverAssumption
  <1> QED
    BY <1>1, <1>2 DEF Init, TypeOK, Opens, Journals

LEMMA StepType ==
  ASSUME TypeOK, CommandsKnow, [Next]_vars
  PROVE  TypeOK'
  <1> USE DEF TypeOK, stores, evidence, session, command
  <1>1. ASSUME NEW s \in Sessions, NEW first \in {"apply", "activate", "deactivate", "rollback"},
               Begin(s, first)
        PROVE  TypeOK'
    BY <1>1, StepNames DEF Begin, Takes, AllSteps
  <1>2. ASSUME NEW s \in Sessions, NEW force \in BOOLEAN, ApplyGuard(s, force)
        PROVE  TypeOK'
    BY <1>2, StepNames, Advances, SavedImages DEF ApplyGuard, AllSteps, Kinds
  <1>3. ASSUME NEW s \in Sessions, NEW force \in BOOLEAN, RollbackGuard(s, force)
        PROVE  TypeOK'
    BY <1>3, StepNames, Advances, SavedImages DEF RollbackGuard, AllSteps, Kinds
  <1>4. ASSUME NEW s \in Sessions, ApplyBackup(s)
        PROVE  TypeOK'
    BY <1>4, StepNames, Advances DEF ApplyBackup, AllSteps
  <1>5. ASSUME NEW s \in Sessions, ApplyJournal(s)
        PROVE  TypeOK'
    BY <1>5, StepNames, Advances DEF ApplyJournal, AllSteps
  <1>6. ASSUME NEW s \in Sessions, ApplyRemove(s)
        PROVE  TypeOK'
    BY <1>6, StepNames, Advances, UnlinkedOpens DEF ApplyRemove, AllSteps
  <1>7. ASSUME NEW s \in Sessions, ApplySnapshot(s)
        PROVE  TypeOK'
    BY <1>7, StepNames, Advances, StoreFields DEF ApplySnapshot, AllSteps, StoreFile
  <1>8. ASSUME NEW s \in Sessions, ApplyStamp(s)
        PROVE  TypeOK'
    <2>1. target \in StoreFile /\ baseline[s] \in 0..MaxWrites
      BY <1>8 DEF ApplyStamp, Goes, CommandsKnow, Knows
    <2>2. target' \in StoreFile
      BY <1>8, <2>1, Stamped DEF ApplyStamp
    <2> QED
      BY <1>8, <2>2, StepNames, Advances, StoreFields DEF ApplyStamp, AllSteps
  <1>9. ASSUME NEW s \in Sessions, ApplyPromote(s) \/ ApplyInvalid(s)
        PROVE  TypeOK'
    BY <1>9, StepNames, Advances DEF ApplyPromote, ApplyInvalid, AllSteps
  <1>25. ASSUME NEW s \in Sessions, DeactivateRepair(s) \/ DeactivateJournal(s)
        PROVE  TypeOK'
    BY <1>25, StepNames, Advances DEF DeactivateRepair, DeactivateJournal, AllSteps
  <1>26. ASSUME NEW s \in Sessions, DeactivateMarker(s) \/ DeactivateWitness(s)
        PROVE  TypeOK'
    BY <1>26, StepNames, Advances DEF DeactivateMarker, DeactivateWitness, AllSteps
  <1>10. ASSUME NEW s \in Sessions, ApplyFails(s)
        PROVE  TypeOK'
    BY <1>10, StepNames DEF ApplyFails, AllSteps
  <1>11. ASSUME NEW s \in Sessions, ApplyRestore(s)
        PROVE  TypeOK'
    BY <1>11, StepNames, Advances, RestoredType DEF ApplyRestore, AllSteps
  <1>12. ASSUME NEW s \in Sessions, ActivateGuard(s) \/ ActivateRecheck(s) \/ ActivateWitness(s)
                                    \/ ActivateMarker(s) \/ ActivateJournal(s)
        PROVE  TypeOK'
    BY <1>12, StepNames, Advances
       DEF ActivateGuard, ActivateRecheck, ActivateWitness, ActivateMarker, ActivateJournal,
           AllSteps
  <1>13. ASSUME NEW s \in Sessions, DeactivateGuard(s)
        PROVE  TypeOK'
    BY <1>13, StepNames, Advances DEF DeactivateGuard, AllSteps
  <1>14. ASSUME NEW s \in Sessions, RollbackRevert(s)
        PROVE  TypeOK'
    BY <1>14, StepNames, Advances, RestoredType DEF RollbackRevert, AllSteps
  <1>15. ASSUME NEW s \in Sessions, RollbackJournal(s)
        PROVE  TypeOK'
    BY <1>15, StepNames, Advances DEF RollbackJournal, AllSteps
  <1>16. ASSUME NEW s \in Sessions, GiveUp(s)
        PROVE  TypeOK'
    <2>1. \E from : \E to \in {"idle", "reconnect"} : Ends(s, from, to)
      BY <1>16 DEF GiveUp
    <2>2. PICK from, to : Ends(s, from, to) /\ to \in {"idle", "reconnect"}
      BY <2>1
    <2> QED
      BY <1>16, <2>2, StepNames, Advances DEF GiveUp, AllSteps
  <1>17. ASSUME NEW s \in Sessions, Start(s)
        PROVE  TypeOK'
    BY <1>17, EndpointOpens DEF Start, Matches, Opens
  <1>18. ASSUME NEW s \in Sessions, Reconnect(s)
        PROVE  TypeOK'
    BY <1>18, EndpointOpens, StepNames DEF Reconnect, Matches, Opens, AllSteps
  <1>19. ASSUME NEW s \in Sessions, Write(s)
        PROVE  TypeOK'
    <2>1. wrote + 1 \in Writes /\ wrote + 1 \in 0..MaxWrites
      BY <1>19, CutoverAssumption DEF Write, Writes
    <2>2. open[s] = "canonical" => target \in StoreFile
      BY <1>19
    <2>3. target' \in StoreFile \cup {Null} /\ (target # Null => target' # Null)
      BY <1>19, <2>1, <2>2, RowAdded, StoreFields DEF Write
    <2> QED
      BY <1>19, <2>1, <2>3 DEF Write
  <1>20. ASSUME NEW s \in Sessions, Stop(s)
        PROVE  TypeOK'
    BY <1>20, StepNames, CutoverAssumption DEF Stop, Opens, AllSteps
  <1>21. CASE ClearLock
    BY <1>21 DEF ClearLock
  <1>22. CASE LoseControl
    <2>1. faults' \in 0..MaxFaults
      BY <1>22, CutoverAssumption DEF LoseControl
    <2> QED
      BY <1>22, <2>1, UnlinkedOpens, StepNames DEF LoseControl
  <1>23. CASE LoseJournal
    BY <1>23, StepNames, CutoverAssumption DEF LoseJournal
  <1>24. CASE UNCHANGED vars
    BY <1>24 DEF vars
  <1> QED
    BY <1>1, <1>2, <1>3, <1>4, <1>5, <1>6, <1>7, <1>8, <1>9, <1>10, <1>11, <1>12, <1>13,
       <1>14, <1>15, <1>16, <1>17, <1>18, <1>19, <1>20, <1>21, <1>22, <1>23, <1>24, <1>25, <1>26
    DEF Next

---------------------------------------------------------------------------
(* The lock *)

\* Each action of a command is a step of it.
LEMMA CommandMoves ==
  ASSUME NEW s \in Sessions, CommandAction(s)
  PROVE  Moves(s)
  <1> USE StepNames, NotBusy
  <1>1. /\ { "apply", "backup", "prepare", "remove", "snapshot", "stamp", "verified",
             "promoting", "promoted", "restore", "invalid", "activate", "recheck", "witness",
             "marker", "cutover", "deactivate", "repair", "demote", "unmark", "unwitness",
             "rollback", "revert", "rolled-back" } \subseteq CommandSteps
    BY DEF CommandSteps, ApplySteps, ActivateSteps, DeactivateSteps, RollbackSteps
  <1>2. ASSUME NEW force \in BOOLEAN, ApplyGuard(s, force) \/ RollbackGuard(s, force)
        PROVE  Moves(s)
    BY <1>1, <1>2 DEF ApplyGuard, RollbackGuard, Moves
  <1>3. ASSUME ApplyFails(s)
        PROVE  Moves(s)
    <2>1. Goes(s, step[s], "restore") /\ step[s] \in CommandSteps
      BY <1>1, <1>3 DEF ApplyFails, Goes
    <2> QED
      BY <2>1 DEF Moves
  <1>4. ASSUME ApplyBackup(s) \/ ApplyJournal(s) \/ ApplyRemove(s) \/ ApplySnapshot(s)
               \/ ApplyStamp(s) \/ ApplyPromote(s) \/ ApplyRestore(s) \/ ApplyInvalid(s)
        PROVE  Moves(s)
    BY <1>1, <1>4 DEF ApplyBackup, ApplyJournal, ApplyRemove, ApplySnapshot, ApplyStamp,
                      ApplyPromote, ApplyRestore, ApplyInvalid, Moves
  <1>5. ASSUME ActivateGuard(s) \/ ActivateRecheck(s) \/ ActivateWitness(s)
               \/ ActivateMarker(s) \/ ActivateJournal(s)
        PROVE  Moves(s)
    BY <1>1, <1>5 DEF ActivateGuard, ActivateRecheck, ActivateWitness, ActivateMarker,
                      ActivateJournal, Moves
  <1>6. ASSUME DeactivateGuard(s) \/ DeactivateRepair(s) \/ DeactivateJournal(s)
               \/ DeactivateMarker(s) \/ DeactivateWitness(s)
        PROVE  Moves(s)
    BY <1>1, <1>6 DEF DeactivateGuard, DeactivateRepair, DeactivateJournal, DeactivateMarker,
                      DeactivateWitness, Moves
  <1>7. ASSUME RollbackRevert(s) \/ RollbackJournal(s)
        PROVE  Moves(s)
    BY <1>1, <1>7 DEF RollbackRevert, RollbackJournal, Moves
  <1>8. ASSUME GiveUp(s)
        PROVE  Moves(s)
    BY <1>1, <1>8 DEF GiveUp, Moves
  <1> QED
    BY <1>2, <1>3, <1>4, <1>5, <1>6, <1>7, <1>8 DEF CommandAction

\* No other session is at a step of a command before or after it.
LEMMA MovesAlone ==
  ASSUME TypeOK, LockHeld, NEW s \in Sessions, Moves(s)
  PROVE  /\ step[s] \in CommandSteps /\ lock = s
         /\ \A t \in Sessions \ {s} :
              step'[t] = step[t] /\ step[t] \notin CommandSteps /\ baseline'[t] = baseline[t]
         /\ lock' = lock \/ step'[s] \notin CommandSteps
         /\ baseline'[s] \in {baseline[s], wrote, 0}
         /\ LockHeld'
  <1>1. PICK from \in CommandSteps, to \in AllSteps :
           \/ Goes(s, from, to) \/ Marks(s, from, to)
           \/ Ends(s, from, to) /\ to \notin CommandSteps
    BY DEF Moves
  <1>2. step[s] = from /\ lock = s
    BY <1>1, Advances DEF LockHeld
  <1>3. \A t \in Sessions \ {s} : step[t] \notin CommandSteps
    BY <1>2, OneCommand
  <1>4. /\ \A t \in Sessions \ {s} : step'[t] = step[t] /\ baseline'[t] = baseline[t]
        /\ lock' = lock \/ step'[s] \notin CommandSteps
        /\ baseline'[s] \in {baseline[s], wrote, 0}
    <2>1. Goes(s, from, to) \/ Marks(s, from, to) \/ Ends(s, from, to)
      BY <1>1
    <2>2. /\ \A t \in Sessions \ {s} : step'[t] = step[t] /\ baseline'[t] = baseline[t]
          /\ step'[s] = to
          /\ baseline'[s] \in {baseline[s], wrote, 0}
      BY <2>1, Advances
    <2>3. lock' = lock \/ to \notin CommandSteps
      BY <1>1 DEF Goes, Marks
    <2> QED
      BY <2>2, <2>3
  <1> QED
    BY <1>2, <1>3, <1>4 DEF LockHeld

\* The one that holds migrate.lock is the one that runs.
LEMMA StepLock ==
  ASSUME TypeOK, LockHeld, [Next]_vars
  PROVE  LockHeld'
  <1>1. ASSUME NEW s \in Sessions, CommandAction(s)
        PROVE  LockHeld'
    BY <1>1, CommandMoves, MovesAlone
  <1>2. ASSUME NEW s \in Sessions, NEW first \in {"apply", "activate", "deactivate", "rollback"},
               Begin(s, first)
        PROVE  LockHeld'
    <2>1. \A t \in Sessions : step[t] \notin CommandSteps
      BY <1>2, CutoverAssumption DEF Begin, Takes, LockHeld
    <2>2. lock' = s /\ \A t \in Sessions \ {s} : step'[t] = step[t]
      BY <1>2 DEF Begin, Takes, TypeOK
    <2> QED
      BY <2>1, <2>2 DEF LockHeld
  <1>3. ASSUME NEW s \in Sessions, Start(s) \/ Write(s)
        PROVE  LockHeld'
    BY <1>3 DEF Start, Write, command, LockHeld
  <1>4. ASSUME NEW s \in Sessions, Reconnect(s)
        PROVE  LockHeld'
    BY <1>4, NotBusy DEF Reconnect, LockHeld, TypeOK
  <1>5. ASSUME NEW s \in Sessions, Stop(s)
        PROVE  LockHeld'
    BY <1>5, NotBusy DEF Stop, LockHeld, TypeOK
  <1>6. CASE ClearLock
    BY <1>6, CutoverAssumption DEF ClearLock, LockHeld
  <1>7. CASE LoseControl
    BY <1>7, NotBusy DEF LoseControl, Quiet, LockHeld
  <1>8. CASE LoseJournal
    BY <1>8 DEF LoseJournal, command, LockHeld
  <1>9. CASE UNCHANGED vars
    BY <1>9 DEF vars, command, LockHeld
  <1> QED
    BY <1>1, <1>2, <1>3, <1>4, <1>5, <1>6, <1>7, <1>8, <1>9 DEF Next, CommandAction

---------------------------------------------------------------------------
(* The evidence and the stamps *)

LEMMA WitnessDecides ==
  ASSUME WitnessOutlasts
  PROVE  Observed <=> witness
  BY DEF WitnessOutlasts, Observed

LEMMA RestingActions ==
  ASSUME NEW s \in Sessions,
         \/ \E first \in {"apply", "activate", "deactivate", "rollback"} : Begin(s, first)
         \/ \E force \in BOOLEAN : ApplyGuard(s, force) \/ RollbackGuard(s, force)
         \/ ApplyFails(s) \/ ActivateGuard(s) \/ ActivateRecheck(s) \/ DeactivateGuard(s)
         \/ GiveUp(s) \/ Start(s) \/ Reconnect(s) \/ Stop(s)
  PROVE  Rests
  <1> USE DEF Rests, stores, evidence
  <1>1. CASE \E first \in {"apply", "activate", "deactivate", "rollback"} : Begin(s, first)
    BY <1>1 DEF Begin
  <1>2. CASE \E force \in BOOLEAN : ApplyGuard(s, force) \/ RollbackGuard(s, force)
    BY <1>2 DEF ApplyGuard, RollbackGuard
  <1>3. CASE ApplyFails(s) \/ ActivateGuard(s) \/ ActivateRecheck(s) \/ DeactivateGuard(s)
    BY <1>3 DEF ApplyFails, ActivateGuard, ActivateRecheck, DeactivateGuard
  <1>4. CASE GiveUp(s) \/ Start(s) \/ Reconnect(s) \/ Stop(s)
    BY <1>4 DEF GiveUp, Start, Reconnect, Stop
  <1> QED
    BY <1>1, <1>2, <1>3, <1>4

LEMMA RestKeepsEvidence ==
  ASSUME Rests
  PROVE  /\ WitnessOutlasts => WitnessOutlasts'
         /\ StampsTrue => StampsTrue'
         /\ CutoverIsUsable => CutoverIsUsable'
         /\ Observed' = Observed /\ IsPromoted' = IsPromoted /\ Matches' = Matches
  BY DEF Rests, evidence, WitnessOutlasts, StampsTrue, CopyAtStamp, SameUpTo, CutoverIsUsable,
         Observed, IsPromoted, Matches

\* A session that writes changes no stamp and adds a number above each.
LEMMA WriteChanges ==
  ASSUME TypeOK, NEW s \in Sessions, Write(s)
  PROVE  /\ wrote' = wrote + 1 /\ wrote' \in Writes /\ backup' = backup /\ images' = images
         /\ UNCHANGED evidence /\ faults' = faults
         /\ step' = step /\ baseline' = baseline
         /\ legacy' = legacy \/ legacy' = legacy \cup {wrote'}
         /\ target = Null => target' = Null
         /\ target # Null => /\ target \in StoreFile /\ target' \in StoreFile
                             /\ target'.since = target.since
                             /\ \/ target'.rows = target.rows
                                \/ target'.rows = target.rows \cup {wrote'}
  <1>1. wrote' = wrote + 1 /\ wrote' \in Writes
    BY CutoverAssumption DEF Write, TypeOK, Writes
  <1>2. /\ backup' = backup /\ images' = images /\ UNCHANGED evidence /\ faults' = faults
        /\ step' = step /\ baseline' = baseline
        /\ legacy' = legacy \/ legacy' = legacy \cup {wrote'}
    BY DEF Write, command
  <1>3. target = Null => target' = Null
    BY DEF Write, TypeOK
  <1>4. CASE target # Null
    <2>1. target \in StoreFile
      BY <1>4 DEF TypeOK
    <2>2. target' = target \/ target' = [target EXCEPT !.rows = @ \cup {wrote'}]
      BY <1>1 DEF Write
    <2>3. /\ target' \in StoreFile /\ target'.since = target.since
          /\ target'.rows = target.rows \/ target'.rows = target.rows \cup {wrote'}
      BY <1>1, <2>1, <2>2, RowAdded
    <2> QED
      BY <1>1, <1>2, <1>4, <2>1, <2>3
  <1> QED
    BY <1>1, <1>2, <1>3, <1>4

\* The witness comes first and goes last, and the program never leaves a
\* cutover that seals.
LEMMA StepEvidence ==
  ASSUME TypeOK, WitnessOutlasts, CommandsKnow, CutoverIsUsable, [Next]_vars
  PROVE  WitnessOutlasts' /\ CutoverIsUsable'
  <1> DEFINE Goal == WitnessOutlasts' /\ CutoverIsUsable'
  <1> USE DEF evidence, stores, CutoverIsUsable, Observed, WitnessOutlasts
  <1>1. ASSUME Rests
        PROVE  Goal
    BY <1>1, RestKeepsEvidence
  <1>2. ASSUME NEW s \in Sessions, step[s] \in Rewriting, marker' = marker, witness' = witness,
               journal' = journal \/ journal' # "cutover"
        PROVE  Goal
    BY <1>2 DEF CommandsKnow, Knows
  <1>3. ASSUME NEW s \in Sessions, ApplyBackup(s) \/ ApplyJournal(s) \/ ApplyRemove(s)
                                   \/ ApplySnapshot(s) \/ ApplyStamp(s) \/ ApplyPromote(s)
        PROVE  Goal
    <2>1. step[s] \in Rewriting
      BY <1>3 DEF ApplyBackup, ApplyJournal, ApplyRemove, ApplySnapshot, ApplyStamp,
                  ApplyPromote, Goes, Marks, Ends, Rewriting, ApplySteps
    <2>2. /\ marker' = marker /\ witness' = witness
          /\ journal' = journal \/ journal' # "cutover"
      BY <1>3 DEF ApplyBackup, ApplyJournal, ApplyRemove, ApplySnapshot, ApplyStamp,
                  ApplyPromote
    <2> QED
      BY <1>2, <2>1, <2>2
  <1>4. ASSUME NEW s \in Sessions, ApplyRestore(s) \/ ApplyInvalid(s) \/ RollbackRevert(s)
                                   \/ RollbackJournal(s)
        PROVE  Goal
    <2>1. step[s] \in Rewriting
      BY <1>4 DEF ApplyRestore, ApplyInvalid, RollbackRevert, RollbackJournal, Goes, Ends,
                  Rewriting, ApplySteps, RollbackSteps
    <2>2. /\ marker' = marker /\ witness' = witness
          /\ journal' = journal \/ journal' # "cutover"
      BY <1>4 DEF ApplyRestore, ApplyInvalid, RollbackRevert, RollbackJournal
    <2> QED
      BY <1>2, <2>1, <2>2
  <1>5. ASSUME NEW s \in Sessions, ActivateWitness(s) \/ ActivateMarker(s) \/ ActivateJournal(s)
        PROVE  Goal
    <2>1. IsPromoted /\ Matches
      BY <1>5 DEF ActivateWitness, ActivateMarker, ActivateJournal, Goes, Ends, CommandsKnow,
                  Knows, Checked
    <2>2. witness'
      BY <1>5 DEF ActivateWitness, ActivateMarker, ActivateJournal, Goes, Ends, CommandsKnow,
                  Knows
    <2>3. target' = target /\ (journal' = journal \/ journal' = "cutover")
      BY <1>5 DEF ActivateWitness, ActivateMarker, ActivateJournal
    <2> QED
      BY <2>1, <2>2, <2>3 DEF IsPromoted, Matches
  <1>6. ASSUME NEW s \in Sessions, DeactivateRepair(s)
        PROVE  Goal
    BY <1>6 DEF DeactivateRepair, Ends, CommandsKnow, Knows
  <1>7. ASSUME NEW s \in Sessions, DeactivateJournal(s)
        PROVE  Goal
    BY <1>7 DEF DeactivateJournal, IsPromoted, Matches
  <1>8. ASSUME NEW s \in Sessions, DeactivateMarker(s)
        PROVE  Goal
    BY <1>8 DEF DeactivateMarker, IsPromoted, Matches
  <1>9. ASSUME NEW s \in Sessions, DeactivateWitness(s)
        PROVE  Goal
    BY <1>9 DEF DeactivateWitness, Ends, CommandsKnow, Knows
  <1>10. ASSUME NEW s \in Sessions, Write(s)
         PROVE  Goal
    <2>1. UNCHANGED evidence /\ faults' = faults /\ (Matches => Matches')
      BY <1>10, WriteChanges, StoreFields DEF Matches
    <2> QED
      BY <2>1 DEF IsPromoted
  <1>11. CASE ClearLock
    BY <1>1, <1>11 DEF ClearLock, Rests
  <1>12. CASE LoseControl
    BY <1>12, CutoverAssumption DEF LoseControl, TypeOK
  <1>13. CASE LoseJournal
    BY <1>13, CutoverAssumption DEF LoseJournal, TypeOK
  <1>14. CASE UNCHANGED vars
    BY <1>1, <1>14 DEF vars, Rests
  <1> QED
    BY <1>1, <1>3, <1>4, <1>5, <1>6, <1>7, <1>8, <1>9, <1>10, <1>11, <1>12, <1>13, <1>14,
       RestingActions DEF Next

\* What is stamped was a copy, and the numbers tell what has come since.
LEMMA StepStamps ==
  ASSUME TypeOK, CommandsKnow, StampsTrue, [Next]_vars
  PROVE  StampsTrue'
  <1> USE DEF stores, StampsTrue, CopyAtStamp, SameUpTo
  <1>1. ASSUME Rests
        PROVE  StampsTrue'
    BY <1>1, RestKeepsEvidence
  <1>2. ASSUME UNCHANGED << legacy, target, backup, wrote >>
        PROVE  StampsTrue'
    BY <1>2
  <1>3. ASSUME NEW s \in Sessions, ApplyBackup(s)
        PROVE  StampsTrue'
    BY <1>3 DEF ApplyBackup
  <1>4. ASSUME NEW s \in Sessions, ApplyRemove(s)
        PROVE  StampsTrue'
    BY <1>4 DEF ApplyRemove
  <1>5. ASSUME NEW s \in Sessions, ApplySnapshot(s)
        PROVE  StampsTrue'
    BY <1>5 DEF ApplySnapshot
  <1>6. ASSUME NEW s \in Sessions, ApplyStamp(s)
        PROVE  StampsTrue'
    <2>1. /\ target \in StoreFile /\ SameUpTo(target.rows, baseline[s])
          /\ baseline[s] <= wrote /\ baseline[s] \in 0..MaxWrites
      BY <1>6 DEF ApplyStamp, Goes, CommandsKnow, Knows, TypeOK
    <2>2. target'.rows = target.rows /\ target'.since = baseline[s]
      BY <1>6, <2>1, Stamped DEF ApplyStamp
    <2>3. UNCHANGED << legacy, backup, wrote >>
      BY <1>6 DEF ApplyStamp
    <2> QED
      BY <2>1, <2>2, <2>3
  <1>7. ASSUME NEW s \in Sessions, ApplyRestore(s) \/ RollbackRevert(s)
        PROVE  StampsTrue'
    BY <1>7 DEF ApplyRestore, RollbackRevert, BackupRestored
  <1>8. ASSUME NEW s \in Sessions, Write(s)
        PROVE  StampsTrue'
    <2>1. wrote \in 0..MaxWrites /\ wrote' = wrote + 1 /\ wrote' \in Nat
      BY <1>8, WriteChanges, CutoverAssumption DEF TypeOK
    <2>2. ASSUME NEW f \in StoreFile, NEW rows, CopyAtStamp(f), f.since # Null,
                 rows = f.rows \/ rows = f.rows \cup {wrote'}
          PROVE  f.since <= wrote' /\ \A w \in Writes : w <= f.since => (w \in legacy' <=> w \in rows)
      <3>1. f.since \in 0..MaxWrites /\ f.since <= wrote /\ f # Null
        BY <2>2, StoreFields
      <3>2. \A w \in Writes : w <= f.since => w # wrote'
        BY <2>1, <3>1, CutoverAssumption DEF Writes
      <3>3. legacy' = legacy \/ legacy' = legacy \cup {wrote'}
        BY <1>8, WriteChanges
      <3>4. f.since <= wrote'
        BY <2>1, <3>1, CutoverAssumption
      <3> QED
        BY <2>2, <3>1, <3>2, <3>3, <3>4
    <2>3. backup' = backup /\ backup \in StoreFile \cup {Null}
      BY <1>8, WriteChanges DEF TypeOK
    <2>4. CopyAtStamp(backup)'
      BY <2>2, <2>3
    <2>5. CASE target = Null
      BY <1>8, <2>4, <2>5, WriteChanges
    <2>6. CASE target # Null
      BY <1>8, <2>2, <2>4, <2>6, WriteChanges
    <2> QED
      BY <2>5, <2>6
  <1>9. CASE ClearLock
    BY <1>2, <1>9 DEF ClearLock
  <1>10. CASE LoseControl
    BY <1>10 DEF LoseControl
  <1>11. CASE LoseJournal
    BY <1>2, <1>11 DEF LoseJournal
  <1>12. CASE UNCHANGED vars
    BY <1>2, <1>12 DEF vars
  <1>13. ASSUME NEW s \in Sessions, \/ ApplyJournal(s) \/ ApplyPromote(s) \/ ApplyInvalid(s)
                                    \/ ActivateWitness(s) \/ ActivateMarker(s) \/ ActivateJournal(s)
                                    \/ DeactivateRepair(s) \/ DeactivateJournal(s)
                                    \/ DeactivateMarker(s) \/ DeactivateWitness(s)
                                    \/ RollbackJournal(s)
         PROVE  StampsTrue'
    BY <1>2, <1>13 DEF ApplyJournal, ApplyPromote, ApplyInvalid, ActivateWitness, ActivateMarker,
                       ActivateJournal, DeactivateRepair, DeactivateJournal, DeactivateMarker,
                       DeactivateWitness, RollbackJournal
  <1> QED
    BY <1>1, <1>3, <1>4, <1>5, <1>6, <1>7, <1>8, <1>9, <1>10, <1>11, <1>12, <1>13,
       RestingActions DEF Next

---------------------------------------------------------------------------
(* What a command knows *)

LEMMA NamedSteps ==
  /\ Imaged \subseteq Rewriting /\ Rewriting \subseteq CommandSteps /\ Checked \subseteq CommandSteps
  /\ { "stamp", "witness", "marker", "cutover", "repair", "unmark", "unwitness" }
       \subseteq CommandSteps
  /\ { "apply", "activate", "deactivate", "rollback", "demote" } \cap (Rewriting \cup Checked) = {}
  /\ { "invalid", "rolled-back", "repair", "unmark", "unwitness" } \cap (Imaged \cup Checked) = {}
  /\ { "repair", "unmark", "unwitness" } \cap Rewriting = {}
  /\ { "backup", "prepare", "remove", "snapshot", "stamp", "verified", "promoting", "promoted",
       "restore", "revert" } \subseteq Imaged
  /\ Imaged \cap Checked = {} /\ Rewriting \cap Checked = {}
  BY DEF Rewriting, Imaged, Checked, CommandSteps, ApplySteps, ActivateSteps, DeactivateSteps,
         RollbackSteps

\* Who runs no command claims nothing.
LEMMA IdleKnows ==
  ASSUME NEW t \in Sessions, step'[t] \notin CommandSteps
  PROVE  Knows(t)'
  BY NamedSteps DEF Knows

LEMMA UntouchedKnows ==
  ASSUME NEW t \in Sessions, Knows(t), step'[t] = step[t], baseline'[t] = baseline[t],
         UNCHANGED << legacy, target, images, evidence >>
  PROVE  Knows(t)'
  BY DEF Knows, evidence, Observed, IsPromoted, Matches, Copied, SameUpTo, HandedOver

\* The session that moves is the only one that has anything to show.
LEMMA MoverKnows ==
  ASSUME TypeOK, LockHeld, CommandsKnow, NEW s \in Sessions, Moves(s), wrote' = wrote,
         step'[s] \in CommandSteps => Knows(s)'
  PROVE  CommandsKnow'
  <1>1. ASSUME NEW t \in Sessions
        PROVE  baseline'[t] <= wrote'
    <2>1. /\ wrote \in Nat /\ baseline[t] <= wrote
          /\ baseline'[t] \in {baseline[t], wrote, 0}
      BY MovesAlone, CutoverAssumption DEF TypeOK, CommandsKnow
    <2> QED
      BY <2>1
  <1>2. Knows(s)'
    BY IdleKnows
  <1>3. ASSUME NEW t \in Sessions \ {s}
        PROVE  Knows(t)'
    <2>1. step'[t] \notin CommandSteps
      BY MovesAlone
    <2> QED
      BY <2>1, IdleKnows
  <1> QED
    BY <1>1, <1>2, <1>3 DEF CommandsKnow

LEMMA GuardKnows ==
  ASSUME TypeOK, CommandsKnow, NEW s \in Sessions, NEW force \in BOOLEAN,
         ApplyGuard(s, force) \/ RollbackGuard(s, force), step'[s] \in CommandSteps
  PROVE  Knows(s)'
  <1>1. PICK kind \in Kinds :
          /\ images' = Saved(kind) /\ ~Observed
          /\ step'[s] \in {"backup", "prepare", "revert"}
    <2>1. CASE ApplyGuard(s, force)
      <3>1. ~ApplyRefused(s, force)
        BY <2>1, NotBusy DEF ApplyGuard, Ends, TypeOK
      <3>2. Marks(s, "apply", IF target = Null THEN "prepare" ELSE "backup")
            /\ images' = Saved("pre-apply")
        BY <2>1, <3>1 DEF ApplyGuard
      <3>3. step'[s] \in {"backup", "prepare"}
        BY <3>2 DEF Marks, TypeOK
      <3> QED
        BY <3>1, <3>2, <3>3 DEF ApplyRefused, Kinds
    <2>2. CASE RollbackGuard(s, force)
      <3>1. ~RollbackRefused(s)
        BY <2>2, NotBusy DEF RollbackGuard, Ends, TypeOK
      <3>2. Marks(s, "rollback", "revert") /\ images' = Saved("pre-rollback")
        BY <2>2, NotBusy DEF RollbackGuard, Ends, TypeOK
      <3>3. step'[s] = "revert"
        BY <3>2 DEF Marks, TypeOK
      <3> QED
        BY <3>1, <3>2, <3>3 DEF RollbackRefused, Kinds
    <2> QED
      BY <2>1, <2>2
  <1>2. target' = target /\ Observed' = Observed
    BY DEF ApplyGuard, RollbackGuard, evidence, Observed
  <1>3. Copied(s)'
    BY <1>1, <1>2, SavedImages DEF Copied
  <1> QED
    BY <1>1, <1>2, <1>3, NamedSteps DEF Knows

LEMMA ApplyKnows ==
  ASSUME TypeOK, CommandsKnow, NEW s \in Sessions, step'[s] \in CommandSteps,
         \/ ApplyBackup(s) \/ ApplyJournal(s) \/ ApplyRemove(s) \/ ApplySnapshot(s)
         \/ ApplyStamp(s) \/ ApplyPromote(s) \/ ApplyFails(s) \/ ApplyRestore(s)
         \/ ApplyInvalid(s) \/ RollbackRevert(s) \/ RollbackJournal(s)
  PROVE  Knows(s)'
  <1> USE DEF Observed, evidence, stores, Copied
  <1>1. step[s] \in Rewriting => ~Observed
    BY DEF CommandsKnow, Knows
  <1>2. step[s] \in Imaged => Copied(s)
    BY DEF CommandsKnow, Knows
  <1>3. ASSUME ApplyBackup(s)
        PROVE  Knows(s)'
    <2>1. step[s] \in Imaged /\ step'[s] = "prepare"
      BY <1>3, NamedSteps DEF ApplyBackup, Goes, TypeOK
    <2>2. UNCHANGED << legacy, target, images, evidence, baseline >>
      BY <1>3 DEF ApplyBackup, Goes
    <2> QED
      BY <1>1, <1>2, <2>1, <2>2, NamedSteps DEF Knows
  <1>4. ASSUME ApplyJournal(s)
        PROVE  Knows(s)'
    <2>1. step[s] \in Imaged /\ step'[s] \in {"remove", "promoting", "promoted"}
      BY <1>4, NamedSteps DEF ApplyJournal, Goes, TypeOK
    <2>2. UNCHANGED << legacy, target, images, marker, witness, baseline >> /\ journal' # "cutover"
      BY <1>4 DEF ApplyJournal, Goes
    <2> QED
      BY <1>1, <1>2, <2>1, <2>2, NamedSteps DEF Knows
  <1>5. ASSUME ApplyRemove(s)
        PROVE  Knows(s)'
    <2>1. step[s] \in Imaged /\ step'[s] = "snapshot"
      BY <1>5, NamedSteps DEF ApplyRemove, Marks, TypeOK
    <2>2. target' = Null /\ UNCHANGED evidence
      BY <1>5 DEF ApplyRemove
    <2> QED
      BY <1>1, <2>1, <2>2, NamedSteps DEF Knows
  <1>6. ASSUME ApplySnapshot(s)
        PROVE  Knows(s)'
    <2>1. step[s] \in Imaged /\ step'[s] = "stamp"
      BY <1>6, NamedSteps DEF ApplySnapshot, Goes, TypeOK
    <2>2. /\ target' = [rows |-> legacy, since |-> Null] /\ legacy' = legacy
          /\ UNCHANGED evidence
      BY <1>6 DEF ApplySnapshot
    <2>3. target' \in StoreFile /\ target'.rows = legacy
      BY <2>2 DEF StoreFile, TypeOK
    <2> QED
      BY <1>1, <2>1, <2>2, <2>3, NamedSteps DEF Knows, SameUpTo
  <1>7. ASSUME ApplyStamp(s)
        PROVE  Knows(s)'
    <2>1. step[s] = "stamp" /\ step'[s] = "verified" /\ baseline'[s] = baseline[s]
      BY <1>7 DEF ApplyStamp, Goes, TypeOK
    <2>2. target \in StoreFile /\ baseline[s] \in 0..MaxWrites
      BY <2>1 DEF CommandsKnow, Knows, TypeOK
    <2>3. target # Null /\ target'.rows = target.rows
      BY <1>7, <2>2, Stamped, StoreFields DEF ApplyStamp
    <2>4. UNCHANGED << legacy, images, evidence >>
      BY <1>7 DEF ApplyStamp
    <2> QED
      BY <1>1, <1>2, <2>1, <2>3, <2>4, NamedSteps DEF Knows
  <1>8. ASSUME ApplyFails(s)
        PROVE  Knows(s)'
    <2>1. step[s] \in Imaged /\ step'[s] = "restore"
      BY <1>8, NamedSteps DEF ApplyFails, TypeOK
    <2>2. UNCHANGED << legacy, target, images, evidence, baseline >>
      BY <1>8 DEF ApplyFails
    <2> QED
      BY <1>1, <1>2, <2>1, <2>2, NamedSteps DEF Knows
  <1>9. ASSUME ApplyRestore(s) \/ RollbackRevert(s)
        PROVE  Knows(s)'
    <2>1. step[s] \in Rewriting /\ step'[s] \in {"invalid", "rolled-back"}
      BY <1>9, NamedSteps DEF ApplyRestore, RollbackRevert, Goes, TypeOK
    <2>2. UNCHANGED evidence
      BY <1>9 DEF ApplyRestore, RollbackRevert
    <2> QED
      BY <1>1, <2>1, <2>2, NamedSteps DEF Knows
  <1>10. ~(ApplyPromote(s) \/ ApplyInvalid(s) \/ RollbackJournal(s))
    BY NotBusy DEF ApplyPromote, ApplyInvalid, RollbackJournal, Ends, TypeOK
  <1> QED
    BY <1>3, <1>4, <1>5, <1>6, <1>7, <1>8, <1>9, <1>10

LEMMA SwitchKnows ==
  ASSUME TypeOK, CommandsKnow, NEW s \in Sessions, step'[s] \in CommandSteps,
         \/ ActivateGuard(s) \/ ActivateRecheck(s) \/ ActivateWitness(s) \/ ActivateMarker(s)
         \/ ActivateJournal(s) \/ DeactivateGuard(s) \/ DeactivateRepair(s)
         \/ DeactivateJournal(s) \/ DeactivateMarker(s) \/ DeactivateWitness(s) \/ GiveUp(s)
  PROVE  Knows(s)'
  <1> USE NotBusy DEF evidence, stores, IsPromoted, Matches
  <1>1. step[s] \in Checked => IsPromoted /\ Matches
    BY DEF CommandsKnow, Knows
  <1>2. ASSUME ActivateGuard(s)
        PROVE  Knows(s)'
    <2>1. MayActivate /\ step'[s] = "recheck"
      BY <1>2 DEF ActivateGuard, Goes, Ends, TypeOK
    <2>2. UNCHANGED << target, journal >>
      BY <1>2 DEF ActivateGuard
    <2> QED
      BY <2>1, <2>2, NamedSteps DEF Knows, MayActivate, Rewriting, Imaged, Checked
  <1>3. ASSUME ActivateRecheck(s)
        PROVE  Knows(s)'
    <2>1. FinalParity /\ step[s] = "recheck" /\ step'[s] = "witness"
      BY <1>3 DEF ActivateRecheck, Marks, Ends, TypeOK
    <2>2. UNCHANGED << legacy, target, journal >>
      BY <1>3 DEF ActivateRecheck
    <2>3. HandedOver(s)'
      BY <2>1, <2>2 DEF FinalParity, Parity, HandedOver
    <2> QED
      BY <1>1, <2>1, <2>2, <2>3, NamedSteps DEF Knows, Checked
  <1>4. ASSUME ActivateWitness(s)
        PROVE  Knows(s)'
    <2>1. step[s] = "witness" /\ step'[s] = "marker"
      BY <1>4 DEF ActivateWitness, Goes, TypeOK
    <2>2. UNCHANGED << target, journal >> /\ witness'
      BY <1>4 DEF ActivateWitness
    <2> QED
      BY <1>1, <2>1, <2>2, NamedSteps DEF Knows, Checked
  <1>5. ASSUME ActivateMarker(s)
        PROVE  Knows(s)'
    <2>1. step[s] = "marker" /\ step'[s] = "cutover" /\ witness
      BY <1>5 DEF ActivateMarker, Goes, TypeOK, CommandsKnow, Knows
    <2>2. UNCHANGED << target, journal, witness >>
      BY <1>5 DEF ActivateMarker
    <2> QED
      BY <1>1, <2>1, <2>2, NamedSteps DEF Knows, Checked
  <1>6. ASSUME DeactivateGuard(s)
        PROVE  Knows(s)'
    <2>1. step'[s] = "demote" \/ (step'[s] = "repair" /\ ~Observed)
      BY <1>6 DEF DeactivateGuard, Goes, Ends, TypeOK
    <2>2. Observed' = Observed
      BY <1>6 DEF DeactivateGuard, Observed
    <2> QED
      BY <2>1, <2>2, NamedSteps DEF Knows
  <1>7. ASSUME DeactivateJournal(s)
        PROVE  Knows(s)'
    BY <1>7, NamedSteps DEF DeactivateJournal, Goes, TypeOK, Knows
  <1>8. ASSUME DeactivateMarker(s)
        PROVE  Knows(s)'
    <2>1. step'[s] = "unwitness" /\ journal # "cutover"
      BY <1>8 DEF DeactivateMarker, Goes, TypeOK, CommandsKnow, Knows
    <2>2. journal' = journal /\ ~marker'
      BY <1>8 DEF DeactivateMarker
    <2> QED
      BY <2>1, <2>2, NamedSteps DEF Knows
  <1>9. ~(ActivateJournal(s) \/ DeactivateRepair(s) \/ DeactivateWitness(s) \/ GiveUp(s))
    BY DEF ActivateJournal, DeactivateRepair, DeactivateWitness, GiveUp, Ends, TypeOK
  <1> QED
    BY <1>2, <1>3, <1>4, <1>5, <1>6, <1>7, <1>8, <1>9

LEMMA CommandKeepsCount ==
  ASSUME NEW s \in Sessions, CommandAction(s)
  PROVE  wrote' = wrote
  <1>1. CASE \E force \in BOOLEAN : ApplyGuard(s, force) \/ RollbackGuard(s, force)
    BY <1>1 DEF ApplyGuard, RollbackGuard
  <1>2. CASE \/ ApplyBackup(s) \/ ApplyJournal(s) \/ ApplyRemove(s) \/ ApplySnapshot(s)
             \/ ApplyStamp(s) \/ ApplyPromote(s) \/ ApplyFails(s) \/ ApplyRestore(s)
             \/ ApplyInvalid(s) \/ RollbackRevert(s) \/ RollbackJournal(s)
    BY <1>2 DEF ApplyBackup, ApplyJournal, ApplyRemove, ApplySnapshot, ApplyStamp, ApplyPromote,
                ApplyFails, ApplyRestore, ApplyInvalid, RollbackRevert, RollbackJournal
  <1>3. CASE \/ ActivateGuard(s) \/ ActivateRecheck(s) \/ ActivateWitness(s) \/ ActivateMarker(s)
             \/ ActivateJournal(s) \/ DeactivateGuard(s) \/ DeactivateRepair(s)
             \/ DeactivateJournal(s) \/ DeactivateMarker(s) \/ DeactivateWitness(s) \/ GiveUp(s)
    BY <1>3 DEF ActivateGuard, ActivateRecheck, ActivateWitness, ActivateMarker, ActivateJournal,
                DeactivateGuard, DeactivateRepair, DeactivateJournal, DeactivateMarker,
                DeactivateWitness, GiveUp
  <1> QED
    BY <1>1, <1>2, <1>3 DEF CommandAction

\* The writes of the others take nothing away from what a command knows.
LEMMA WriteKnows ==
  ASSUME TypeOK, CommandsKnow, NEW s \in Sessions, Write(s), NEW t \in Sessions
  PROVE  baseline'[t] <= wrote' /\ Knows(t)'
  <1>1. /\ wrote' = wrote + 1 /\ wrote' \in Nat /\ UNCHANGED evidence
        /\ step' = step /\ baseline' = baseline /\ images' = images
        /\ legacy' = legacy \/ legacy' = legacy \cup {wrote'}
        /\ target = Null => target' = Null
        /\ target # Null => /\ target' \in StoreFile /\ target' # Null
                            /\ target'.since = target.since
                            /\ \/ target'.rows = target.rows
                               \/ target'.rows = target.rows \cup {wrote'}
    BY WriteChanges, StoreFields, CutoverAssumption DEF Writes
  <1>2. baseline[t] \in Nat /\ baseline[t] <= wrote /\ wrote \in Nat /\ Knows(t)
    BY CutoverAssumption DEF TypeOK, CommandsKnow
  <1>3. baseline'[t] <= wrote' /\ wrote' > baseline'[t] /\ \A w \in Writes : w <= baseline[t] => w # wrote'
    BY <1>1, <1>2, CutoverAssumption DEF Writes
  <1>4. Observed' = Observed /\ IsPromoted' = IsPromoted /\ (Matches => Matches')
    BY <1>1 DEF evidence, Observed, IsPromoted, Matches
  <1>5. Copied(t) => Copied(t)'
    BY <1>1, <1>3 DEF Copied
  <1>6. HandedOver(t) => HandedOver(t)'
    BY <1>1, <1>3 DEF HandedOver
  <1>7. step[t] = "stamp" => target' \in StoreFile /\ SameUpTo(target.rows, baseline[t])
    BY <1>1, <1>2, StoreFields DEF Knows
  <1>8. step[t] = "stamp" =>
           /\ target' \in StoreFile
           /\ \A w \in Writes : w <= baseline[t] => (w \in legacy' <=> w \in target'.rows)
    <2>1. step[t] = "stamp" => target # Null
      BY <1>2, StoreFields DEF Knows
    <2> QED
      BY <1>1, <1>3, <1>7, <2>1 DEF SameUpTo
  <1> QED
    BY <1>1, <1>2, <1>3, <1>4, <1>5, <1>6, <1>8 DEF Knows, SameUpTo, evidence

\* What a command has checked stays so until its next step.
LEMMA StepKnows ==
  ASSUME TypeOK, LockHeld, CommandsKnow, [Next]_vars
  PROVE  CommandsKnow'
  <1>1. ASSUME NEW s \in Sessions, CommandAction(s)
        PROVE  CommandsKnow'
    <2>1. Moves(s) /\ wrote' = wrote
      BY <1>1, CommandMoves, CommandKeepsCount
    <2>2. step'[s] \in CommandSteps => Knows(s)'
      BY <1>1, GuardKnows, ApplyKnows, SwitchKnows DEF CommandAction
    <2> QED
      BY <2>1, <2>2, MoverKnows
  <1>2. ASSUME wrote' = wrote, UNCHANGED << legacy, target, images, evidence >>,
               \A t \in Sessions :
                  \/ step'[t] = step[t] /\ baseline'[t] = baseline[t]
                  \/ step'[t] \notin CommandSteps /\ baseline'[t] \in {0, baseline[t]}
        PROVE  CommandsKnow'
    <2>1. ASSUME NEW t \in Sessions
          PROVE  baseline'[t] <= wrote' /\ Knows(t)'
      <3>1. Knows(t) /\ baseline[t] <= wrote /\ wrote \in Nat
        BY CutoverAssumption DEF CommandsKnow, TypeOK
      <3>2. Knows(t)'
        BY <1>2, <3>1, UntouchedKnows, IdleKnows
      <3> QED
        BY <1>2, <3>1, <3>2
    <2> QED
      BY <2>1 DEF CommandsKnow
  <1>3. ASSUME NEW s \in Sessions, NEW first \in {"apply", "activate", "deactivate", "rollback"},
               Begin(s, first)
        PROVE  CommandsKnow'
    <2>1. ASSUME NEW t \in Sessions
          PROVE  Knows(t)'
      <3>1. step'[t] \in {"apply", "activate", "deactivate", "rollback"} \/ step'[t] = step[t]
        BY <1>3 DEF Begin, TypeOK
      <3>2. CASE step'[t] \in {"apply", "activate", "deactivate", "rollback"}
        BY <3>2, NamedSteps DEF Knows
      <3>3. CASE step'[t] = step[t]
        BY <1>3, <3>3, UntouchedKnows DEF Begin, CommandsKnow, stores
      <3> QED
        BY <3>1, <3>2, <3>3
    <2>2. wrote' = wrote /\ baseline' = baseline
      BY <1>3 DEF Begin
    <2> QED
      BY <2>1, <2>2 DEF CommandsKnow
  <1>4. ASSUME NEW s \in Sessions, Start(s) \/ Reconnect(s) \/ Stop(s)
        PROVE  CommandsKnow'
    <2>1. wrote' = wrote /\ UNCHANGED << legacy, target, images, evidence >>
      BY <1>4 DEF Start, Reconnect, Stop, stores
    <2>2. \A t \in Sessions :
             \/ step'[t] = step[t] /\ baseline'[t] = baseline[t]
             \/ step'[t] \notin CommandSteps /\ baseline'[t] \in {0, baseline[t]}
      BY <1>4, NotBusy DEF Start, Reconnect, Stop, command, TypeOK
    <2> QED
      BY <1>2, <2>1, <2>2
  <1>5. ASSUME NEW s \in Sessions, Write(s)
        PROVE  CommandsKnow'
    BY <1>5, WriteKnows DEF CommandsKnow
  <1>6. CASE ClearLock \/ UNCHANGED vars
    BY <1>2, <1>6 DEF ClearLock, vars, stores, command
  <1>7. CASE LoseControl \/ LoseJournal
    <2>1. wrote' = wrote /\ baseline' = baseline /\ step' = step
      BY <1>7 DEF LoseControl, LoseJournal, command
    <2>2. \A t \in Sessions : step'[t] \notin CommandSteps
      BY <1>7, <2>1, NotBusy DEF LoseControl, LoseJournal, Quiet
    <2>3. \A t \in Sessions : Knows(t)'
      BY <2>2, IdleKnows
    <2> QED
      BY <2>1, <2>3 DEF CommandsKnow
  <1> QED
    BY <1>1, <1>3, <1>4, <1>5, <1>6, <1>7 DEF Next, CommandAction

---------------------------------------------------------------------------
(* The invariants *)

LEMMA InitInv ==
  ASSUME Init
  PROVE  CutoverInv
  <1>1. TypeOK /\ \A s \in Sessions : step[s] = "idle" /\ baseline[s] = 0
    BY InitType DEF Init
  <1>2. \A s \in Sessions : Knows(s)
    BY <1>1, NotBusy, NamedSteps DEF Knows
  <1> QED
    BY <1>1, <1>2, NotBusy, CutoverAssumption
       DEF Init, CutoverInv, LockHeld, WitnessOutlasts, CommandsKnow, StampsTrue, CopyAtStamp,
           CutoverIsUsable, Observed

LEMMA StepInv ==
  ASSUME CutoverInv, [Next]_vars
  PROVE  CutoverInv'
  BY StepType, StepLock, StepEvidence, StepStamps, StepKnows DEF CutoverInv

LEMMA CutoverInvariant == Spec => []CutoverInv
  <1>1. Init => CutoverInv
    BY InitInv
  <1>2. CutoverInv /\ [Next]_vars => CutoverInv'
    BY StepInv
  <1> QED
    BY <1>1, <1>2, PTL DEF Spec

\* Every store, image, journal, lock and step is of its kind; no recovery
\* image is kept beyond the retention, and no session has the canonical
\* store open when there is none.
THEOREM CutoverTypeCorrect == Spec => []TypeOK
  <1>1. CutoverInv => TypeOK
    BY DEF CutoverInv
  <1> QED
    BY <1>1, CutoverInvariant, PTL

\* As long as nothing is damaged from outside, wherever a command dies or
\* fails, a checkout that counts as activated has a promoted journal and a
\* stamped canonical store: no session is left without a store to open.
THEOREM CutoverUsable == Spec => []CutoverIsUsable
  <1>1. CutoverInv => CutoverIsUsable
    BY DEF CutoverInv
  <1> QED
    BY <1>1, CutoverInvariant, PTL

\* Apply, rollback, activation and deactivation exclude each other for as long
\* as they run, although the lock that a killed one leaves behind is taken
\* away by hand at any moment.
THEOREM OneCommandAtATime ==
  Spec => [](\A r, s \in Sessions : step[r] \in CommandSteps /\ step[s] \in CommandSteps => r = s)
  <1>1. CutoverInv => \A r, s \in Sessions : step[r] \in CommandSteps /\ step[s] \in CommandSteps => r = s
    BY DEF CutoverInv, LockHeld
  <1> QED
    BY <1>1, CutoverInvariant, PTL

\* When the gate says "proceed" the store that the session opens holds every
\* row of the other one: comparing numbers with the stamp is enough.
THEOREM GateIsSound == Spec => []GateSeesEveryRow
  <1>1. ASSUME CutoverInv
        PROVE  GateSeesEveryRow
    <2> SUFFICES ASSUME NEW s \in Sessions, target # Null, GateProceeds(s)
                 PROVE  IF Endpoint(s) = "canonical" THEN legacy \subseteq target.rows
                                                     ELSE target.rows \subseteq legacy
      BY DEF GateSeesEveryRow
    <2>1. Matches /\ ~Drift(s)
      BY DEF GateProceeds, Tunnel, Promotion
    <2>2. target \in StoreFile /\ legacy \subseteq Writes
      BY <1>1 DEF CutoverInv, TypeOK
    <2>3. /\ target.since # Null /\ target.since \in 0..MaxWrites
          /\ target.rows \subseteq Writes
      BY <2>1, <2>2, StoreFields DEF Matches
    <2>4. SameUpTo(target.rows, target.since)
      BY <1>1, <2>3 DEF CutoverInv, StampsTrue, CopyAtStamp
    <2>5. \A w \in Writes : ~(w > target.since) => w <= target.since
      BY <2>3, CutoverAssumption DEF Writes
    <2> QED
      BY <2>1, <2>2, <2>3, <2>4, <2>5 DEF Drift, CanonicalNewer, SameUpTo
  <1> QED
    BY <1>1, CutoverInvariant, PTL

---------------------------------------------------------------------------
(* What a step may never do *)

\* The evidence that decides moves in two actions only.
LEMMA WitnessMoves ==
  ASSUME [Next]_vars, witness' # witness
  PROVE  \E s \in Sessions : ActivateWitness(s) \/ DeactivateWitness(s)
  <1> USE DEF evidence, stores
  <1>1. ASSUME NEW s \in Sessions,
               \/ ApplyBackup(s) \/ ApplyJournal(s) \/ ApplyRemove(s) \/ ApplySnapshot(s)
               \/ ApplyStamp(s) \/ ApplyPromote(s) \/ ApplyRestore(s) \/ ApplyInvalid(s)
               \/ RollbackRevert(s) \/ RollbackJournal(s)
        PROVE  FALSE
    BY <1>1 DEF ApplyBackup, ApplyJournal, ApplyRemove, ApplySnapshot, ApplyStamp, ApplyPromote,
                ApplyRestore, ApplyInvalid, RollbackRevert, RollbackJournal
  <1>2. ASSUME NEW s \in Sessions,
               \/ ActivateMarker(s) \/ ActivateJournal(s) \/ DeactivateRepair(s)
               \/ DeactivateJournal(s) \/ DeactivateMarker(s) \/ Write(s)
        PROVE  FALSE
    BY <1>2 DEF ActivateMarker, ActivateJournal, DeactivateRepair, DeactivateJournal,
                DeactivateMarker, Write
  <1>3. ~Rests
    BY DEF Rests
  <1>4. ~(ClearLock \/ LoseControl \/ LoseJournal \/ UNCHANGED vars)
    BY DEF ClearLock, LoseControl, LoseJournal, vars
  <1> QED
    BY <1>1, <1>2, <1>3, <1>4, RestingActions DEF Next

\* The steps that change the canonical store, but for damage.
LEMMA TargetMoves ==
  ASSUME [Next]_vars, target' # target, faults' = faults, TypeOK
  PROVE  \E s \in Sessions : \/ ApplyRemove(s) \/ ApplySnapshot(s) \/ ApplyStamp(s)
                             \/ ApplyRestore(s) \/ RollbackRevert(s) \/ Write(s)
  <1> USE DEF stores
  <1>1. ASSUME NEW s \in Sessions,
               \/ ApplyBackup(s) \/ ApplyJournal(s) \/ ApplyPromote(s) \/ ApplyInvalid(s)
               \/ ActivateWitness(s) \/ ActivateMarker(s) \/ ActivateJournal(s)
        PROVE  FALSE
    BY <1>1 DEF ApplyBackup, ApplyJournal, ApplyPromote, ApplyInvalid, ActivateWitness,
                ActivateMarker, ActivateJournal
  <1>2. ASSUME NEW s \in Sessions,
               \/ DeactivateRepair(s) \/ DeactivateJournal(s) \/ DeactivateMarker(s)
               \/ DeactivateWitness(s) \/ RollbackJournal(s)
        PROVE  FALSE
    BY <1>2 DEF DeactivateRepair, DeactivateJournal, DeactivateMarker, DeactivateWitness,
                RollbackJournal
  <1>3. ~Rests
    BY DEF Rests
  <1>4. ~(ClearLock \/ LoseJournal \/ UNCHANGED vars)
    BY DEF ClearLock, LoseJournal, vars
  <1>5. ~LoseControl
    <2>1. faults \in Nat
      BY CutoverAssumption DEF TypeOK
    <2> QED
      BY <2>1 DEF LoseControl
  <1> QED
    BY <1>1, <1>2, <1>3, <1>4, <1>5, RestingActions DEF Next

\* At the moment of an activation all that the legacy store holds is in the
\* canonical one, but for the writes made after the final parity gate.
THEOREM HandoffComplete == Spec => HandoffIsComplete
  <1>1. ASSUME CutoverInv, [Next]_vars, ~Observed, Observed'
        PROVE  \E s \in Sessions :
                  /\ step[s] = "witness"
                  /\ \A w \in legacy : w \in target.rows \/ w > baseline[s]
    <2>1. ~witness
      BY <1>1 DEF Observed
    <2>2. WitnessOutlasts'
      BY <1>1, StepInv DEF CutoverInv
    <2>3. witness'
      BY <1>1, <2>2 DEF WitnessOutlasts, Observed
    <2>4. PICK s \in Sessions : ActivateWitness(s)
      BY <1>1, <2>1, <2>3, WitnessMoves DEF DeactivateWitness
    <2>5. step[s] = "witness"
      BY <2>4 DEF ActivateWitness, Goes
    <2>6. Matches /\ HandedOver(s)
      BY <1>1, <2>5 DEF CutoverInv, CommandsKnow, Knows, Checked
    <2> QED
      BY <2>5, <2>6 DEF Matches, HandedOver
  <1> QED
    BY <1>1, CutoverInvariant, PTL DEF Spec, HandoffIsComplete

\* An apply or a rollback leaves a copy of each row it takes from the
\* canonical store: in the legacy store, the backup or a recovery image.
THEOREM NothingIsDropped == Spec => NothingDropped
  <1> DEFINE Kept(w) == \/ \E s \in Sessions : lock = s /\ w > baseline[s]
                        \/ target' # Null /\ w \in target'.rows
                        \/ w \in legacy'
                        \/ backup' # Null /\ w \in backup'.rows
                        \/ \E k \in Kinds : \E n \in DOMAIN images'[k] : w \in images'[k][n]
  <1>1. ASSUME CutoverInv, [Next]_vars, faults' = faults, target # Null, NEW w \in target.rows
        PROVE  Kept(w)
    <2>1. ASSUME NEW s \in Sessions, step[s] \in Imaged,
                 legacy' = legacy, images' = images
          PROVE  Kept(w)
      <3>1. lock = s
        BY <1>1, <2>1, NamedSteps DEF CutoverInv, LockHeld
      <3>2. Copied(s)
        BY <1>1, <2>1 DEF CutoverInv, CommandsKnow, Knows
      <3> QED
        BY <1>1, <2>1, <3>1, <3>2 DEF Copied
    <2>2. CASE target' = target
      BY <1>1, <2>2
    <2>3. ASSUME NEW s \in Sessions, Write(s)
          PROVE  Kept(w)
      <3>1. target' # Null /\ w \in target'.rows
        BY <1>1, <2>3, WriteChanges, StoreFields DEF CutoverInv
      <3> QED
        BY <3>1
    <2>4. ASSUME NEW s \in Sessions, \/ ApplyRemove(s) \/ ApplySnapshot(s) \/ ApplyStamp(s)
                                     \/ ApplyRestore(s) \/ RollbackRevert(s)
          PROVE  Kept(w)
      <3>1. step[s] \in Imaged
        BY <2>4, NamedSteps DEF ApplyRemove, ApplySnapshot, ApplyStamp, ApplyRestore,
                                RollbackRevert, Goes, Marks
      <3>2. legacy' = legacy /\ images' = images
        BY <2>4 DEF ApplyRemove, ApplySnapshot, ApplyStamp, ApplyRestore, RollbackRevert,
                    BackupRestored
      <3> QED
        BY <2>1, <3>1, <3>2
    <2> QED
      BY <1>1, <2>2, <2>3, <2>4, TargetMoves DEF CutoverInv
  <1>2. CutoverInv /\ [Next]_vars /\ faults' = faults /\ target # Null =>
           \A w \in target.rows :
              \/ \E s \in Sessions : lock = s /\ w > baseline[s]
              \/ target' # Null /\ w \in target'.rows
              \/ w \in legacy'
              \/ backup' # Null /\ w \in backup'.rows
              \/ \E k \in Kinds : \E n \in DOMAIN images'[k] : w \in images'[k][n]
    BY <1>1
  <1> QED
    BY <1>2, CutoverInvariant, PTL DEF Spec, NothingDropped

\* Under a cutover no command takes a row from the canonical store, whichever
\* of the three pieces of evidence are left.
THEOREM CutoverKeeps == Spec => CutoverKeepsCanonical
  <1>1. ASSUME CutoverInv, [Next]_vars, Observed, faults' = faults, target # Null
        PROVE  target' # Null /\ target.rows \subseteq target'.rows
    <2>1. CASE target' = target
      BY <1>1, <2>1
    <2>2. ASSUME NEW s \in Sessions, Write(s)
          PROVE  target' # Null /\ target.rows \subseteq target'.rows
      BY <1>1, <2>2, WriteChanges, StoreFields DEF CutoverInv
    <2>3. ASSUME NEW s \in Sessions, \/ ApplyRemove(s) \/ ApplySnapshot(s) \/ ApplyStamp(s)
                                     \/ ApplyRestore(s) \/ RollbackRevert(s)
          PROVE  FALSE
      <3>1. step[s] \in Rewriting
        BY <2>3, NamedSteps DEF ApplyRemove, ApplySnapshot, ApplyStamp, ApplyRestore,
                                RollbackRevert, Goes, Marks
      <3> QED
        BY <1>1, <3>1 DEF CutoverInv, CommandsKnow, Knows
    <2> QED
      BY <1>1, <2>1, <2>2, <2>3, TargetMoves DEF CutoverInv
  <1> QED
    BY <1>1, CutoverInvariant, PTL DEF Spec, CutoverKeepsCanonical

---------------------------------------------------------------------------
(* Refinement of CutoverAuthority *)

AuthorityOf == IF Observed THEN "canonical" ELSE "legacy"

\* The switch that a command makes which is at this step.
SwitchOf(at) ==
    IF at \in ActivateSteps THEN "activate"
    ELSE IF at \in DeactivateSteps THEN "deactivate"
    ELSE "none"

AskedOf == [s \in Sessions |-> SwitchOf(step[s])]

\* A handle on an unlinked file is one on the canonical store.
OpenedAs(store) == IF store = "detached" THEN "canonical" ELSE store

OpenedOf == [s \in Sessions |-> OpenedAs(open[s])]

Mapped == << AuthorityOf, glass, AskedOf, OpenedOf >>

AuthorityStep == Authority!Next \/ UNCHANGED Mapped

LEMMA MapsTo ==
  /\ Authority!Init <=> /\ AuthorityOf = "legacy" /\ glass \in SUBSET BreakGlass
                        /\ AskedOf = [s \in Sessions |-> "none"]
                        /\ OpenedOf = [s \in Sessions |-> "none"]
  /\ \A s \in Sessions :
        /\ \A switch : Authority!Ask(s, switch) <=>
              /\ AskedOf[s] # switch
              /\ AskedOf' = [AskedOf EXCEPT ![s] = switch]
              /\ UNCHANGED << AuthorityOf, glass, OpenedOf >>
        /\ Authority!Exit(s) <=>
              /\ AskedOf' = [AskedOf EXCEPT ![s] = "none"]
              /\ OpenedOf' = [OpenedOf EXCEPT ![s] = "none"]
              /\ UNCHANGED << AuthorityOf, glass >>
        /\ Authority!Activate(s) <=>
              /\ AskedOf[s] = "activate" /\ AuthorityOf = "legacy" /\ AuthorityOf' = "canonical"
              /\ UNCHANGED << glass, AskedOf, OpenedOf >>
        /\ Authority!Deactivate(s) <=>
              /\ AskedOf[s] = "deactivate" /\ AuthorityOf' = "legacy"
              /\ AskedOf' = [AskedOf EXCEPT ![s] = "none"]
              /\ UNCHANGED << glass, OpenedOf >>
        /\ Authority!Open(s) <=>
              /\ OpenedOf' = [OpenedOf EXCEPT ![s] = IF s \in glass THEN "canonical" ELSE AuthorityOf]
              /\ UNCHANGED << AuthorityOf, glass, AskedOf >>
        /\ Authority!Close(s) <=>
              /\ OpenedOf[s] # "none"
              /\ OpenedOf' = [OpenedOf EXCEPT ![s] = "none"]
              /\ UNCHANGED << AuthorityOf, glass, AskedOf >>
  BY DEF Authority!Init, Authority!Ask, Authority!Exit, Authority!Activate, Authority!Deactivate,
         Authority!Open, Authority!Close, Authority!StoreFor, AuthorityOf, AskedOf, OpenedOf,
         SwitchOf, OpenedAs

LEMMA SwitchKinds ==
  ASSUME NEW at
  PROVE  SwitchOf(at) \in Authority!Switches
  BY DEF SwitchOf, Authority!Switches

LEMMA AskedAfter ==
  ASSUME TypeOK, NEW s \in Sessions, NEW to, step' = [step EXCEPT ![s] = to]
  PROVE  AskedOf' = [AskedOf EXCEPT ![s] = SwitchOf(to)]
  BY DEF AskedOf, TypeOK

LEMMA OpenedAfter ==
  ASSUME TypeOK, NEW s \in Sessions, NEW store, open' = [open EXCEPT ![s] = store]
  PROVE  OpenedOf' = [OpenedOf EXCEPT ![s] = OpenedAs(store)]
  BY DEF OpenedOf, TypeOK

LEMMA UnlinkedLooksOpen ==
  ASSUME TypeOK, open' = Unlinked
  PROVE  OpenedOf' = OpenedOf
  BY DEF OpenedOf, OpenedAs, Unlinked, TypeOK, Opens

LEMMA AuthorityStays ==
  ASSUME WitnessOutlasts, WitnessOutlasts', witness' = witness
  PROVE  AuthorityOf' = AuthorityOf
  BY DEF WitnessOutlasts, Observed, AuthorityOf

\* A command that begins, goes on or ends is an Ask, or changes nothing.
LEMMA AskStep ==
  ASSUME TypeOK, NEW s \in Sessions, NEW to, step' = [step EXCEPT ![s] = to],
         OpenedOf' = OpenedOf, glass' = glass, AuthorityOf' = AuthorityOf
  PROVE  AuthorityStep
  <1>1. AskedOf' = [AskedOf EXCEPT ![s] = SwitchOf(to)]
    BY AskedAfter
  <1>2. CASE AskedOf[s] = SwitchOf(to)
    <2>1. AskedOf' = AskedOf
      BY <1>1, <1>2 DEF AskedOf
    <2> QED
      BY <2>1 DEF AuthorityStep, Mapped
  <1>3. CASE AskedOf[s] # SwitchOf(to)
    <2>1. Authority!Ask(s, SwitchOf(to))
      BY <1>1, <1>3, MapsTo
    <2> QED
      BY <2>1, SwitchKinds DEF AuthorityStep, Authority!Next
  <1> QED
    BY <1>2, <1>3

\* session_start and reconnectControlStore open the authority, or nothing.
LEMMA OpenStep ==
  ASSUME TypeOK, NEW s \in Sessions, NEW store \in {Endpoint(s), "none"},
         open' = [open EXCEPT ![s] = store],
         AskedOf' = AskedOf, glass' = glass, AuthorityOf' = AuthorityOf
  PROVE  AuthorityStep
  <1>1. OpenedOf' = [OpenedOf EXCEPT ![s] = store] /\ store \in {"legacy", "canonical", "none"}
    BY OpenedAfter DEF OpenedAs, Endpoint
  <1>2. CASE store = "none" /\ OpenedOf[s] = "none"
    <2>1. OpenedOf' = OpenedOf
      BY <1>1, <1>2 DEF OpenedOf
    <2> QED
      BY <2>1 DEF AuthorityStep, Mapped
  <1>3. CASE store = "none" /\ OpenedOf[s] # "none"
    <2>1. Authority!Close(s)
      BY <1>1, <1>3, MapsTo
    <2> QED
      BY <2>1 DEF AuthorityStep, Authority!Next
  <1>4. CASE store # "none"
    <2>1. store = IF s \in glass THEN "canonical" ELSE AuthorityOf
      BY <1>4 DEF Endpoint, AuthorityOf
    <2>2. Authority!Open(s)
      BY <1>1, <2>1, MapsTo
    <2> QED
      BY <2>2 DEF AuthorityStep, Authority!Next
  <1> QED
    BY <1>2, <1>3, <1>4

LEMMA CommandRefines ==
  ASSUME TypeOK, WitnessOutlasts, WitnessOutlasts', NEW s \in Sessions, CommandAction(s),
         witness' = witness
  PROVE  AuthorityStep
  <1>1. PICK to : step' = [step EXCEPT ![s] = to]
    <2>1. Moves(s)
      BY CommandMoves
    <2> QED
      BY <2>1, Advances DEF Moves
  <1>2. AuthorityOf' = AuthorityOf
    BY AuthorityStays
  <1>3. glass' = glass /\ (open' = open \/ open' = Unlinked)
    <2> USE DEF session
    <2>1. CASE \E force \in BOOLEAN : ApplyGuard(s, force) \/ RollbackGuard(s, force)
      BY <2>1 DEF ApplyGuard, RollbackGuard
    <2>2. CASE \/ ApplyBackup(s) \/ ApplyJournal(s) \/ ApplyRemove(s) \/ ApplySnapshot(s)
               \/ ApplyStamp(s) \/ ApplyPromote(s) \/ ApplyFails(s) \/ ApplyRestore(s)
               \/ ApplyInvalid(s) \/ RollbackRevert(s) \/ RollbackJournal(s)
      BY <2>2 DEF ApplyBackup, ApplyJournal, ApplyRemove, ApplySnapshot, ApplyStamp, ApplyPromote,
                  ApplyFails, ApplyRestore, ApplyInvalid, RollbackRevert, RollbackJournal,
                  BackupRestored
    <2>3. CASE \/ ActivateGuard(s) \/ ActivateRecheck(s) \/ ActivateWitness(s)
               \/ ActivateMarker(s) \/ ActivateJournal(s)
      BY <2>3 DEF ActivateGuard, ActivateRecheck, ActivateWitness, ActivateMarker, ActivateJournal
    <2>4. CASE \/ DeactivateGuard(s) \/ DeactivateRepair(s) \/ DeactivateJournal(s)
               \/ DeactivateMarker(s) \/ DeactivateWitness(s) \/ GiveUp(s)
      BY <2>4 DEF DeactivateGuard, DeactivateRepair, DeactivateJournal, DeactivateMarker,
                  DeactivateWitness, GiveUp
    <2> QED
      BY <2>1, <2>2, <2>3, <2>4 DEF CommandAction
  <1>4. OpenedOf' = OpenedOf
    BY <1>3, UnlinkedLooksOpen DEF OpenedOf
  <1> QED
    BY <1>1, <1>2, <1>3, <1>4, AskStep

\* The witness is written: the authority changes, if it has not before.
LEMMA ActivationRefines ==
  ASSUME TypeOK, WitnessOutlasts, WitnessOutlasts', NEW s \in Sessions, ActivateWitness(s)
  PROVE  AuthorityStep
  <1>1. step[s] = "witness" /\ step' = [step EXCEPT ![s] = "marker"]
    BY DEF ActivateWitness, Goes
  <1>2. SwitchOf("witness") = "activate" /\ SwitchOf("marker") = "activate"
    BY DEF SwitchOf, ActivateSteps
  <1>3. AskedOf[s] = "activate" /\ AskedOf' = AskedOf
    BY <1>1, <1>2, AskedAfter DEF AskedOf
  <1>4. glass' = glass /\ OpenedOf' = OpenedOf /\ witness'
    BY DEF ActivateWitness, session, OpenedOf
  <1>5. AuthorityOf' = "canonical"
    BY <1>4 DEF AuthorityOf, Observed
  <1>6. CASE AuthorityOf = "legacy"
    <2>1. Authority!Activate(s)
      BY <1>3, <1>4, <1>5, <1>6, MapsTo
    <2> QED
      BY <2>1 DEF AuthorityStep, Authority!Next
  <1>7. CASE AuthorityOf # "legacy"
    <2>1. AuthorityOf = "canonical"
      BY <1>7 DEF AuthorityOf
    <2> QED
      BY <1>3, <1>4, <1>5, <2>1 DEF AuthorityStep, Mapped
  <1> QED
    BY <1>6, <1>7

\* The witness is taken away: the last evidence, by the last step.
LEMMA DeactivationRefines ==
  ASSUME TypeOK, WitnessOutlasts', NEW s \in Sessions, DeactivateWitness(s)
  PROVE  AuthorityStep
  <1>1. step[s] = "unwitness" /\ step' = [step EXCEPT ![s] = "reconnect"]
    BY DEF DeactivateWitness, Ends
  <1>2. SwitchOf("unwitness") = "deactivate" /\ SwitchOf("reconnect") = "none"
    BY DEF SwitchOf, ActivateSteps, DeactivateSteps
  <1>3. AskedOf[s] = "deactivate" /\ AskedOf' = [AskedOf EXCEPT ![s] = "none"]
    BY <1>1, <1>2, AskedAfter DEF AskedOf
  <1>4. glass' = glass /\ OpenedOf' = OpenedOf /\ ~witness'
    BY DEF DeactivateWitness, session, OpenedOf
  <1>5. AuthorityOf' = "legacy"
    BY <1>4 DEF AuthorityOf, Observed, WitnessOutlasts
  <1>6. Authority!Deactivate(s)
    BY <1>3, <1>4, <1>5, MapsTo
  <1> QED
    BY <1>6 DEF AuthorityStep, Authority!Next

LEMMA StepRefines ==
  ASSUME TypeOK, WitnessOutlasts, WitnessOutlasts', [Next]_vars
  PROVE  AuthorityStep
  <1>1. ASSUME witness' = witness
        PROVE  AuthorityOf' = AuthorityOf
    BY <1>1, AuthorityStays
  <1>2. ASSUME NEW s \in Sessions, ActivateWitness(s) \/ DeactivateWitness(s)
        PROVE  AuthorityStep
    BY <1>2, ActivationRefines, DeactivationRefines
  <1>3. ASSUME NEW s \in Sessions, CommandAction(s)
        PROVE  AuthorityStep
    BY <1>2, <1>3, CommandRefines, WitnessMoves
  <1>4. ASSUME NEW s \in Sessions, NEW first \in {"apply", "activate", "deactivate", "rollback"},
               Begin(s, first)
        PROVE  AuthorityStep
    <2>1. /\ step' = [step EXCEPT ![s] = first] /\ witness' = witness /\ glass' = glass
          /\ OpenedOf' = OpenedOf
      BY <1>4 DEF Begin, evidence, session, OpenedOf
    <2> QED
      BY <1>1, <2>1, AskStep
  <1>5. ASSUME NEW s \in Sessions, Start(s)
        PROVE  AuthorityStep
    <2>1. /\ open' = [open EXCEPT ![s] = Endpoint(s)] /\ witness' = witness /\ glass' = glass
          /\ AskedOf' = AskedOf
      BY <1>5 DEF Start, evidence, command, AskedOf
    <2> QED
      BY <1>1, <2>1, OpenStep
  <1>6. ASSUME NEW s \in Sessions, Reconnect(s)
        PROVE  AuthorityStep
    <2>1. step[s] = "reconnect" /\ step' = [step EXCEPT ![s] = "idle"]
      BY <1>6 DEF Reconnect
    <2>2. AskedOf' = AskedOf
      BY <2>1, AskedAfter DEF AskedOf, SwitchOf, ActivateSteps, DeactivateSteps
    <2>3. PICK store \in {Endpoint(s), "none"} : open' = [open EXCEPT ![s] = store]
      BY <1>6 DEF Reconnect
    <2>4. witness' = witness /\ glass' = glass
      BY <1>6 DEF Reconnect, evidence
    <2> QED
      BY <1>1, <2>2, <2>3, <2>4, OpenStep
  <1>7. ASSUME NEW s \in Sessions, Stop(s)
        PROVE  AuthorityStep
    <2>1. /\ step' = [step EXCEPT ![s] = "idle"] /\ open' = [open EXCEPT ![s] = "none"]
          /\ witness' = witness /\ glass' = glass
      BY <1>7 DEF Stop, evidence
    <2>2. SwitchOf("idle") = "none" /\ OpenedAs("none") = "none"
      BY DEF SwitchOf, ActivateSteps, DeactivateSteps, OpenedAs
    <2>3. AskedOf' = [AskedOf EXCEPT ![s] = "none"]
      BY <2>1, <2>2, AskedAfter
    <2>4. OpenedOf' = [OpenedOf EXCEPT ![s] = "none"]
      BY <2>1, <2>2, OpenedAfter
    <2>5. Authority!Exit(s)
      BY <1>1, <2>1, <2>3, <2>4, MapsTo
    <2> QED
      BY <2>5 DEF AuthorityStep, Authority!Next
  <1>8. ASSUME \/ \E s \in Sessions : Write(s)
               \/ ClearLock \/ LoseControl \/ LoseJournal \/ UNCHANGED vars
        PROVE  AuthorityStep
    <2>1. /\ witness' = witness /\ glass' = glass /\ step' = step
          /\ open' = open \/ open' = Unlinked
      BY <1>8 DEF Write, ClearLock, LoseControl, LoseJournal, vars, evidence, command, session
    <2>2. AskedOf' = AskedOf /\ OpenedOf' = OpenedOf
      BY <2>1, UnlinkedLooksOpen DEF AskedOf, OpenedOf
    <2> QED
      BY <1>1, <2>1, <2>2 DEF AuthorityStep, Mapped
  <1> QED
    BY <1>3, <1>4, <1>5, <1>6, <1>7, <1>8 DEF Next, CommandAction

\* The migration and the cutover, with every death, failure and damage
\* between two file operations, are an authority that changes hands at one
\* moment, through an activation or a deactivation, and that every session
\* which opens a store opens.
THEOREM CutoverImplementsAuthority == Spec => OneAuthority
  <1>1. Init => Authority!Init
    <2> SUFFICES ASSUME Init
                 PROVE  Authority!Init
      OBVIOUS
    <2>1. AuthorityOf = "legacy" /\ glass \in SUBSET BreakGlass
      BY DEF Init, AuthorityOf, Observed
    <2>2. AskedOf = [s \in Sessions |-> "none"] /\ OpenedOf = [s \in Sessions |-> "none"]
      BY DEF Init, AskedOf, OpenedOf, OpenedAs, SwitchOf, ActivateSteps, DeactivateSteps
    <2> QED
      BY <2>1, <2>2, MapsTo
  <1>2. CutoverInv /\ CutoverInv' /\ [Next]_vars =>
           [Authority!Next]_<< IF Observed THEN "canonical" ELSE "legacy", glass,
                               [s \in Sessions |-> IF step[s] \in ActivateSteps THEN "activate"
                                                   ELSE IF step[s] \in DeactivateSteps
                                                        THEN "deactivate" ELSE "none"],
                               [s \in Sessions |-> IF open[s] = "detached" THEN "canonical"
                                                   ELSE open[s]] >>
    <2>1. ASSUME CutoverInv, CutoverInv', [Next]_vars
          PROVE  AuthorityStep
      BY <2>1, StepRefines DEF CutoverInv
    <2> QED
      BY <2>1 DEF AuthorityStep, Mapped, AuthorityOf, AskedOf, OpenedOf, SwitchOf, OpenedAs
  <1> QED
    BY <1>1, <1>2, CutoverInvariant, PTL DEF Spec, OneAuthority, Authority!Spec
=============================================================================
