------------------------------- MODULE Cutover -------------------------------
(***************************************************************************)
(* The migration of the control store from the legacy file of a checkout   *)
(* (.pi-ops/state.db) to the canonical one (.mazzy/control/state.db), the  *)
(* cutover of the sessions to it, and the way back (control-migrate.ts);   *)
(* the store a session opens (control-resolve.ts, control-endpoint.ts).    *)
(*                                                                         *)
(* Each mutating command holds migrate.lock.  A step is one file operation *)
(* that others can see: the process may die before any of them, a file     *)
(* operation may fail at any of them, and other sessions read and write    *)
(* the stores in between.  A file is written to a temporary name and       *)
(* renamed, so it is never seen in part.                                   *)
(*                                                                         *)
(* Abstractions: the content of a store is the set of the writes it holds, *)
(* which are numbered in the order they were made; the parity of two       *)
(* stores is the equality of these sets, "newer than the promotion" a      *)
(* number above the one at the baseline.  The checkout is a trusted one    *)
(* with a legacy store and an identity, without MAZZY_DB; the publication  *)
(* files are there or not, never malformed or copied from elsewhere.       *)
(***************************************************************************)
EXTENDS Naturals, Sequences

CONSTANTS
    Sessions,       \* processes: parent sessions, or a script run by hand
    BreakGlass,     \* those that may be started with MAZZY_CUTOVER=1
    Null,           \* no lock, no file, no stamp
    Orphan,         \* the lock of a process that died
    Retention,      \* BACKUP_RETENTION
    MaxWrites,      \* bound: writes ever made
    MaxFaults       \* bound: damages to .mazzy/control

ASSUME CutoverAssumption ==
    /\ BreakGlass \subseteq Sessions
    /\ Null \notin Sessions /\ Orphan \notin Sessions /\ Null # Orphan
    /\ Retention \in Nat \ {0}
    /\ MaxWrites \in Nat /\ MaxFaults \in Nat

VARIABLES
    legacy,         \* what the legacy store holds
    target,         \* the canonical store: what it holds, and its stamp
    backup,         \* state.db.backup
    images,         \* [kind -> the recovery images, newest first]
    journal,        \* the state in journal.json
    marker,         \* cutover.json is there
    witness,        \* cutover-witness.json is there
    lock,           \* the token in migrate.lock
    step,           \* [Sessions -> the next file operation of its command]
    baseline,       \* [Sessions -> the promotion baseline its apply has taken;
                    \*  history: wrote when a command has taken its recovery
                    \*  image, or passed the final parity gate of a cutover]
    glass,          \* those started with it, in this behavior
    open,           \* [Sessions -> the store it has open]
    wrote,          \* writes made
    faults          \* damages

stores == << legacy, target, backup, images >>
evidence == << journal, marker, witness >>
command == << lock, step, baseline >>
session == << glass, open >>
vars == << stores, evidence, command, session, wrote, faults >>

Writes == 1..MaxWrites
Kinds == { "pre-apply", "pre-rollback" }
Journals == { "absent", "prepared", "verified", "promoting", "promoted",
              "cutover", "rolled-back", "invalid" }
\* since is the promoted_at of the identity stamp, Null without a stamp.
StoreFile == [ rows: SUBSET Writes, since: 0..MaxWrites \cup {Null} ]

ASSUME NullAssumption == Null \notin StoreFile

ApplySteps == { "apply", "backup", "prepare", "remove", "snapshot", "stamp",
                "verified", "promoting", "promoted", "restore", "invalid" }
ActivateSteps == { "activate", "recheck", "witness", "marker", "cutover" }
DeactivateSteps == { "deactivate", "repair", "demote", "unmark", "unwitness" }
RollbackSteps == { "rollback", "revert", "rolled-back" }
CommandSteps == ApplySteps \cup ActivateSteps \cup DeactivateSteps \cup RollbackSteps

\* "detached" is a handle on a canonical file that was unlinked.
Opens == { "none", "legacy", "canonical", "detached" }

TypeOK ==
    /\ legacy \subseteq Writes
    /\ target \in StoreFile \cup {Null} /\ backup \in StoreFile \cup {Null}
    /\ images \in [Kinds -> Seq(SUBSET Writes)]
    /\ \A k \in Kinds : Len(images[k]) <= Retention
    /\ journal \in Journals
    /\ marker \in BOOLEAN /\ witness \in BOOLEAN
    /\ lock \in Sessions \cup {Null, Orphan}
    /\ step \in [Sessions -> CommandSteps \cup {"idle", "reconnect"}]
    /\ baseline \in [Sessions -> 0..MaxWrites]
    /\ glass \subseteq BreakGlass
    /\ open \in [Sessions -> Opens]
    /\ \A s \in Sessions : open[s] = "canonical" => target # Null
    /\ wrote \in 0..MaxWrites /\ faults \in 0..MaxFaults

---------------------------------------------------------------------------
(* The evidence, and what a session opens by it *)

IsPromoted == journal \in {"promoted", "cutover"}

Slip_ObservedInside == marker \/ journal = "cutover"

\* durableCutoverObserved: any one of the three activates.
Observed == witness \/ marker \/ journal = "cutover"

Damaged(breakGlass) == journal = "invalid" /\ (breakGlass \/ Observed)

\* The identity verdict "match": a stamp of this checkout.
Matches == target # Null /\ target.since # Null

\* Without a store that can be trusted an activation seals: the session
\* opens none.
Endpoint(s) ==
    IF ~(Observed \/ s \in glass) THEN "legacy"
    ELSE IF ~Damaged(s \in glass) /\ IsPromoted /\ Matches THEN "canonical"
    ELSE "none"

Parity == target # Null /\ legacy = target.rows

CanonicalNewer == \E w \in target.rows : w > target.since

---------------------------------------------------------------------------
(* The gate a session asks before it delegates work (anti-tunnel.ts) *)

\* The selection "canonical-promoted": a verified promotion, activated or not.
Promotion == IsPromoted /\ Matches

\* The canonical store under a root where no promotion is verified.  The one
\* retained beside the effective store after a promotion is expected.
Tunnel == target # Null /\ ~Promotion

Slip_DriftOfSelected(s) ==
    IF Endpoint(s) = "canonical" THEN CanonicalNewer ELSE \E w \in legacy : w > target.since

\* verifyControlDrift: the retained store has rows newer than the promotion.
Drift(s) ==
    IF Endpoint(s) = "canonical" THEN \E w \in legacy : w > target.since ELSE CanonicalNewer

\* orchestrationGate answers "proceed".
GateProceeds(s) == ~Tunnel /\ ~(Promotion /\ Drift(s))

---------------------------------------------------------------------------
(* Shared steps of the commands *)

Init ==
    /\ legacy = {} /\ target = Null /\ backup = Null
    /\ images = [k \in Kinds |-> << >>]
    /\ journal = "absent" /\ marker = FALSE /\ witness = FALSE
    /\ lock = Null
    /\ step = [s \in Sessions |-> "idle"]
    /\ baseline = [s \in Sessions |-> 0]
    /\ glass \in SUBSET BreakGlass
    /\ open = [s \in Sessions |-> "none"]
    /\ wrote = 0 /\ faults = 0

\* The lock file is made exclusively, with a token of the command's own.
Takes(s) == lock = Null /\ lock' = s

\* With another's lock in place the command is refused, which is no step.
Begin(s, first) ==
    /\ step[s] = "idle"
    /\ Takes(s)
    /\ step' = [step EXCEPT ![s] = first]
    /\ UNCHANGED << stores, evidence, baseline, session, wrote, faults >>

Goes(s, from, to) ==
    /\ step[s] = from
    /\ step' = [step EXCEPT ![s] = to]
    /\ UNCHANGED << lock, baseline >>

Marks(s, from, to) ==
    /\ step[s] = from
    /\ step' = [step EXCEPT ![s] = to]
    /\ baseline' = [baseline EXCEPT ![s] = wrote]
    /\ UNCHANGED lock

\* The command ends: `after' is what its session does next.
Ends(s, from, after) ==
    /\ step[s] = from
    /\ step' = [step EXCEPT ![s] = after]
    /\ lock' = IF lock = s THEN Null ELSE lock
    /\ baseline' = [baseline EXCEPT ![s] = 0]

Slip_NothingRetired(seq) == seq

Retained(seq) == SubSeq(seq, 1, IF Len(seq) < Retention THEN Len(seq) ELSE Retention)

Slip_ImageOfPromoted(kind) ==
    IF target = Null \/ ~IsPromoted THEN images
    ELSE [images EXCEPT ![kind] = Retained(<< target.rows >> \o @)]

\* A recovery image of the canonical store that is about to go.  The older
\* images go with it: the code retires them one file operation later.
Saved(kind) ==
    IF target = Null THEN images
    ELSE [images EXCEPT ![kind] = Retained(<< target.rows >> \o @)]

\* The handles on the canonical file when it is unlinked.
Unlinked == [s \in Sessions |-> IF open[s] = "canonical" THEN "detached" ELSE open[s]]

\* The backup is copied over the canonical file, or the file removed.
BackupRestored ==
    /\ target' = backup
    /\ open' = IF backup = Null THEN Unlinked ELSE open
    /\ UNCHANGED << legacy, backup, glass >>

---------------------------------------------------------------------------
(* apply *)

Slip_ApplyRefusedPromoted(s, force) == s \in glass \/ (IsPromoted /\ ~force)

ApplyRefused(s, force) ==
    \/ Observed \/ Damaged(FALSE)
    \/ s \in glass
    \/ IsPromoted /\ ~force

ApplyGuard(s, force) ==
    /\ IF ApplyRefused(s, force)
       THEN Ends(s, "apply", "idle") /\ UNCHANGED images
       ELSE /\ Marks(s, "apply", IF target = Null THEN "prepare" ELSE "backup")
            /\ images' = Saved("pre-apply")
    /\ UNCHANGED << legacy, target, backup, evidence, session, wrote, faults >>

ApplyBackup(s) ==
    /\ Goes(s, "backup", "prepare")
    /\ backup' = target
    /\ UNCHANGED << legacy, target, images, evidence, session, wrote, faults >>

\* prepared, verified and promoting: the journal goes on.
ApplyJournal(s) ==
    /\ \/ Goes(s, "prepare", "remove") /\ journal' = "prepared"
       \/ Goes(s, "verified", "promoting") /\ journal' = "verified"
       \/ Goes(s, "promoting", "promoted") /\ journal' = "promoting"
    /\ UNCHANGED << stores, marker, witness, session, wrote, faults >>

\* The old file goes; the baseline is taken before the snapshot.
ApplyRemove(s) ==
    /\ Marks(s, "remove", "snapshot")
    /\ target' = Null
    /\ open' = Unlinked
    /\ UNCHANGED << legacy, backup, images, evidence, glass, wrote, faults >>

ApplySnapshot(s) ==
    /\ Goes(s, "snapshot", "stamp")
    /\ target' = [rows |-> legacy, since |-> Null]
    /\ UNCHANGED << legacy, backup, images, evidence, session, wrote, faults >>

ApplyStamp(s) ==
    /\ Goes(s, "stamp", "verified")
    /\ target' = [target EXCEPT !.since = baseline[s]]
    /\ UNCHANGED << legacy, backup, images, evidence, session, wrote, faults >>

ApplyPromote(s) ==
    /\ Ends(s, "promoted", "idle")
    /\ journal' = "promoted"
    /\ UNCHANGED << stores, marker, witness, session, wrote, faults >>

\* A snapshot, an integrity check or a file operation fails.
ApplyFails(s) ==
    /\ step[s] \in {"remove", "snapshot", "stamp", "verified", "promoting", "promoted"}
    /\ step' = [step EXCEPT ![s] = "restore"]
    /\ UNCHANGED << stores, evidence, lock, baseline, session, wrote, faults >>

ApplyRestore(s) ==
    /\ Goes(s, "restore", "invalid")
    /\ BackupRestored
    /\ UNCHANGED << images, evidence, wrote, faults >>

ApplyInvalid(s) ==
    /\ Ends(s, "invalid", "idle")
    /\ journal' = "invalid"
    /\ UNCHANGED << stores, marker, witness, session, wrote, faults >>

---------------------------------------------------------------------------
(* cutover *)

MayActivate == ~Damaged(FALSE) /\ IsPromoted /\ Matches /\ Parity

ActivateGuard(s) ==
    /\ IF MayActivate THEN Goes(s, "activate", "recheck") ELSE Ends(s, "activate", "idle")
    /\ UNCHANGED << stores, evidence, session, wrote, faults >>

Slip_NoFinalParity == TRUE

FinalParity == Parity

\* The parity gate once more, right before publication.
ActivateRecheck(s) ==
    /\ IF FinalParity
       THEN Marks(s, "recheck", "witness")
       ELSE Ends(s, "recheck", "idle")
    /\ UNCHANGED << stores, evidence, session, wrote, faults >>

ActivateWitness(s) ==
    /\ Goes(s, "witness", "marker")
    /\ witness' = TRUE
    /\ UNCHANGED << stores, journal, marker, session, wrote, faults >>

ActivateMarker(s) ==
    /\ Goes(s, "marker", "cutover")
    /\ marker' = TRUE
    /\ UNCHANGED << stores, journal, witness, session, wrote, faults >>

ActivateJournal(s) ==
    /\ Ends(s, "cutover", "reconnect")
    /\ journal' = "cutover"
    /\ UNCHANGED << stores, marker, witness, session, wrote, faults >>

---------------------------------------------------------------------------
(* deactivate-cutover *)

DeactivateGuard(s) ==
    /\ \/ Observed /\ Goes(s, "deactivate", "demote")
       \/ ~Observed /\ journal = "invalid" /\ Goes(s, "deactivate", "repair")
       \/ ~Observed /\ journal # "invalid" /\ Ends(s, "deactivate", "idle")
    /\ UNCHANGED << stores, evidence, session, wrote, faults >>

\* An invalid journal without an activation is only a failed migration.
DeactivateRepair(s) ==
    /\ Ends(s, "repair", "reconnect")
    /\ journal' = "rolled-back"
    /\ UNCHANGED << stores, marker, witness, session, wrote, faults >>

DeactivateJournal(s) ==
    /\ Goes(s, "demote", "unmark")
    /\ journal' = "promoted"
    /\ UNCHANGED << stores, marker, witness, session, wrote, faults >>

DeactivateMarker(s) ==
    /\ Goes(s, "unmark", "unwitness")
    /\ marker' = FALSE
    /\ UNCHANGED << stores, journal, witness, session, wrote, faults >>

DeactivateWitness(s) ==
    /\ Ends(s, "unwitness", "reconnect")
    /\ witness' = FALSE
    /\ UNCHANGED << stores, journal, marker, session, wrote, faults >>

---------------------------------------------------------------------------
(* rollback *)

Slip_RollbackRefusedByJournal(s) == s \in glass \/ journal = "cutover"

RollbackRefused(s) == s \in glass \/ Observed \/ Damaged(FALSE)

\* Without force the canonical store must be known to hold nothing newer.
NewerRefused(force) == ~force /\ (~Matches \/ CanonicalNewer)

RollbackGuard(s, force) ==
    /\ IF RollbackRefused(s) \/ NewerRefused(force)
       THEN Ends(s, "rollback", "idle") /\ UNCHANGED images
       ELSE Marks(s, "rollback", "revert") /\ images' = Saved("pre-rollback")
    /\ UNCHANGED << legacy, target, backup, evidence, session, wrote, faults >>

RollbackRevert(s) ==
    /\ Goes(s, "revert", "rolled-back")
    /\ BackupRestored
    /\ UNCHANGED << images, evidence, wrote, faults >>

RollbackJournal(s) ==
    /\ Ends(s, "rolled-back", "idle")
    /\ journal' = "rolled-back"
    /\ UNCHANGED << stores, marker, witness, session, wrote, faults >>

---------------------------------------------------------------------------
(* Sessions *)

\* A file operation fails where no restore follows: the command gives up.  A
\* cutover or deactivation that has begun to write reconnects all the same.
GiveUp(s) ==
    /\ \/ \E from \in {"apply", "backup", "prepare", "restore", "invalid",
                       "rollback", "revert", "rolled-back"} : Ends(s, from, "idle")
       \/ \E from \in {"recheck", "witness", "marker", "cutover",
                       "repair", "demote", "unmark", "unwitness"} : Ends(s, from, "reconnect")
    /\ UNCHANGED << stores, evidence, session, wrote, faults >>

\* session_start.  A sealed endpoint opens nothing.
Start(s) ==
    /\ step[s] = "idle" /\ open[s] = "none"
    /\ open' = [open EXCEPT ![s] = Endpoint(s)]
    /\ UNCHANGED << stores, evidence, command, glass, wrote, faults >>

\* reconnectControlStore closes, resolves and opens, unless that fails.  Until
\* the server has stopped the old store takes writes.
Reconnect(s) ==
    /\ step[s] = "reconnect"
    /\ step' = [step EXCEPT ![s] = "idle"]
    /\ open' \in { [open EXCEPT ![s] = Endpoint(s)], [open EXCEPT ![s] = "none"] }
    /\ UNCHANGED << stores, evidence, lock, baseline, glass, wrote, faults >>

Write(s) ==
    /\ step[s] \in {"idle", "reconnect"}
    /\ open[s] # "none"
    /\ wrote < MaxWrites
    /\ wrote' = wrote + 1
    /\ legacy' = IF open[s] = "legacy" THEN legacy \cup {wrote + 1} ELSE legacy
    /\ target' = IF open[s] = "canonical" THEN [target EXCEPT !.rows = @ \cup {wrote + 1}] ELSE target
    /\ UNCHANGED << backup, images, evidence, command, session, faults >>

\* The session ends or its process dies; a lock it holds stays.
Stop(s) ==
    /\ open[s] # "none" \/ step[s] # "idle"
    /\ open' = [open EXCEPT ![s] = "none"]
    /\ step' = [step EXCEPT ![s] = "idle"]
    /\ baseline' = [baseline EXCEPT ![s] = 0]
    /\ lock' = IF lock = s THEN Orphan ELSE lock
    /\ UNCHANGED << stores, evidence, glass, wrote, faults >>

---------------------------------------------------------------------------
(* The checkout's owner, and damage.  Damage comes while no command runs. *)

\* Nothing in the program removes the lock of a dead process.
ClearLock ==
    /\ lock = Orphan
    /\ lock' = Null
    /\ UNCHANGED << stores, evidence, step, baseline, session, wrote, faults >>

Quiet == \A s \in Sessions : step[s] \in {"idle", "reconnect"}

LoseControl ==
    /\ Quiet /\ faults < MaxFaults
    /\ faults' = faults + 1
    /\ target' = Null /\ backup' = Null
    /\ journal' = "absent" /\ marker' = FALSE /\ lock' = Null
    /\ open' = Unlinked
    /\ UNCHANGED << legacy, images, witness, step, baseline, glass, wrote >>

LoseJournal ==
    /\ Quiet /\ faults < MaxFaults
    /\ faults' = faults + 1
    /\ journal' \in { "absent", "invalid" }
    /\ UNCHANGED << stores, marker, witness, command, session, wrote >>

Next ==
    \/ \E s \in Sessions :
        \/ \E first \in {"apply", "activate", "deactivate", "rollback"} : Begin(s, first)
        \/ \E force \in BOOLEAN : ApplyGuard(s, force) \/ RollbackGuard(s, force)
        \/ ApplyBackup(s) \/ ApplyJournal(s) \/ ApplyRemove(s) \/ ApplySnapshot(s)
        \/ ApplyStamp(s) \/ ApplyPromote(s)
        \/ ApplyFails(s) \/ ApplyRestore(s) \/ ApplyInvalid(s)
        \/ ActivateGuard(s) \/ ActivateRecheck(s)
        \/ ActivateWitness(s) \/ ActivateMarker(s) \/ ActivateJournal(s)
        \/ DeactivateGuard(s) \/ DeactivateRepair(s)
        \/ DeactivateJournal(s) \/ DeactivateMarker(s) \/ DeactivateWitness(s)
        \/ RollbackRevert(s) \/ RollbackJournal(s)
        \/ GiveUp(s)
        \/ Start(s) \/ Reconnect(s) \/ Write(s) \/ Stop(s)
    \/ ClearLock \/ LoseControl \/ LoseJournal

Spec == Init /\ [][Next]_vars

---------------------------------------------------------------------------
(* Properties *)

Authority == INSTANCE CutoverAuthority WITH
    authority <- IF Observed THEN "canonical" ELSE "legacy",
    asked <- [s \in Sessions |-> IF step[s] \in ActivateSteps THEN "activate"
                                 ELSE IF step[s] \in DeactivateSteps THEN "deactivate"
                                 ELSE "none"],
    opened <- [s \in Sessions |-> IF open[s] = "detached" THEN "canonical" ELSE open[s]]

\* Whatever dies, fails or is lost between two file operations, the authority
\* changes in one moment, through an activation or a deactivation only, and
\* no session opens the other store.
OneAuthority == Authority!Spec

\* The program's own steps never leave a cutover that seals: as long as
\* nothing was damaged from outside, an activated checkout opens canonical.
CutoverIsUsable == Observed /\ faults = 0 => IsPromoted /\ Matches

\* An activation leaves no write behind in the legacy store but those a
\* session that was to be quiesced makes after the final parity gate.
HandoffIsComplete ==
    [][~Observed /\ Observed' =>
          \E s \in Sessions :
              /\ step[s] = "witness"
              /\ \A w \in legacy : w \in target.rows \/ w > baseline[s]]_vars

\* No apply and no rollback drops a row of the canonical store of which
\* there is no copy in the legacy store, the backup or a recovery image, but
\* the rows another session writes after that image was taken.
NothingDropped ==
    [][faults' = faults /\ target # Null =>
          \A w \in target.rows :
                \/ \E s \in Sessions : lock = s /\ w > baseline[s]
                \/ target' # Null /\ w \in target'.rows
                \/ w \in legacy'
                \/ backup' # Null /\ w \in backup'.rows
                \/ \E k \in Kinds : \E n \in DOMAIN images'[k] : w \in images'[k][n]]_vars

\* While the cutover is in effect no command takes a row from the canonical
\* store, however the evidence of the cutover has been reduced.
CutoverKeepsCanonical ==
    [][Observed /\ faults' = faults /\ target # Null =>
          target' # Null /\ target.rows \subseteq target'.rows]_vars

\* When the gate lets a session delegate, no row is hidden from it: the store
\* it opens holds all that the other store holds, whoever wrote where while
\* the store was promoted, handed over and taken back.
GateSeesEveryRow ==
    \A s \in Sessions :
        target # Null /\ GateProceeds(s) =>
            IF Endpoint(s) = "canonical" THEN legacy \subseteq target.rows
                                         ELSE target.rows \subseteq legacy

\* A command that is refused because "another cutover operation is in
\* progress" (control-migrate.ts) is refused while one is.
BusyMeansRunning == lock # Null => \E s \in Sessions : step[s] \in CommandSteps
=============================================================================
