----------------------------- MODULE MazzyInit -----------------------------
(***************************************************************************)
(* /mazzy-init and /mazzy-registry (scaffold.ts, index.ts) over the        *)
(* identities and the registry: a run plans, writes the managed files with *)
(* a backup of what it replaces, publishes the identity, enrols the        *)
(* checkout, lists its backups in a manifest and leaves a receipt; a       *)
(* rollback restores the latest backup.  Several sessions run it on one    *)
(* checkout, it can die anywhere, and checkouts are moved and copied.      *)
(*                                                                         *)
(* Abstractions: the managed templates are the versions of the package; a  *)
(* file is one of them, text of the user's, or missing.  settings.json,    *)
(* merged instead of replaced, is a file no plan finds in conflict.  Steps *)
(* go to whatever directory stands at the root by then.                    *)
(***************************************************************************)
EXTENDS ProjectRegistry

CONSTANTS
    Files,          \* managed files
    Ignore,         \* .mazzy/.gitignore
    Settings,       \* .pi/settings.json
    Texts,          \* what a user may have written
    Versions,       \* package versions of the templates
    Missing,
    MaxRuns         \* bound: runs of init and of forget-current

ASSUME FileAssumption ==
    Ignore \in Files /\ Null \notin Files /\ Missing \notin Texts \cup Versions
ASSUME TextAssumption == Null \notin Texts \cup Versions /\ Texts \cap Versions = {}
ASSUME RunsAssumption == MaxRuns \in Nat

Stamps == 1..MaxRuns
Values == Texts \cup Versions \cup {Missing}

VARIABLES
    content,        \* [Dirs -> [Files -> what the file holds]]
    receipt,        \* [Dirs -> [Files -> version the receipt names, or Null]]
    backup,         \* [Dirs -> [Stamps -> [Files -> saved value, or Null]]]
    listed,         \* backups with a manifest
    runs,           \* commands so far; a run of init is stamped with its number
    at,             \* [Procs -> where the command stands]
    job,            \* [Procs -> the command]
    todo,           \* [Procs -> files still to be written or restored]
    doing,          \* [Procs -> file backed up and not yet replaced]
    owed            \* history: texts an init replaced and no rollback restored

files == << content, receipt, backup, listed, owed >>
commands == << at, job, todo, doing >>
vars == << registryVars, files, runs, commands >>

NoJob == [ root |-> Null, version |-> Null, stamp |-> 0, identity |-> Null ]
Ats == { "idle", "files", "identity", "naming", "enrol", "enrolling", "manifest",
         "receipt", "forgetting", "restoring" }

TypeOK ==
    /\ RegistryTypeOK
    /\ content \in [Dirs -> [Files -> Values]]
    /\ receipt \in [Dirs -> [Files -> Versions \cup {Null}]]
    /\ backup \in [Dirs -> [Stamps -> [Files -> Texts \cup Versions \cup {Null}]]]
    /\ listed \subseteq Dirs \X Stamps
    /\ runs \in 0..MaxRuns
    /\ at \in [Procs -> Ats]
    /\ \A x \in Procs : job[x] = NoJob \/ job[x] \in
          [ root: Roots, version: Versions \cup {Null}, stamp: Stamps,
            identity: { "create", "skip", "conflict" } ]
    /\ todo \in [Procs -> SUBSET Files]
    /\ doing \in [Procs -> Files \cup {Null}]
    /\ owed \subseteq Dirs \X Files \X Texts

NoBackup == [f \in Files |-> Null]

Init ==
    /\ RegistryInit
    /\ content \in [Dirs -> [Files -> Texts \cup {Missing}]]
    /\ \A d \in Dirs : (\E r \in Roots : disk[r] = d) \/ content[d] = [f \in Files |-> Missing]
    /\ receipt = [d \in Dirs |-> NoBackup]
    /\ backup = [d \in Dirs |-> [s \in Stamps |-> NoBackup]]
    /\ listed = {} /\ runs = 0
    /\ at = [x \in Procs |-> "idle"] /\ job = [x \in Procs |-> NoJob]
    /\ todo = [x \in Procs |-> {}] /\ doing = [x \in Procs |-> Null]
    /\ owed = {}

---------------------------------------------------------------------------
(* Planning *)

Here(x) == disk[job[x].root]

\* The status of a template, entry by entry of planMazzyInit.
PlanOf(d, f, v) ==
    IF content[d][f] = Missing THEN "create"
    ELSE IF content[d][f] = v THEN "skip"
    ELSE IF content[d][f] = receipt[d][f] \/ f = Settings THEN "update"
    ELSE "conflict"

\* A new identity waits while the user's own .gitignore is not accepted.
IdentityPlan(d, v, force) ==
    CASE ident[d] # Null /\ Readable(d) -> "skip"
      [] ident[d] = Null /\ (PlanOf(d, Ignore, v) = "conflict" => force) -> "create"
      [] OTHER -> "conflict"

ToWrite(d, v, force) ==
    { f \in Files : PlanOf(d, f, v) \in { "create", "update" }
                    \/ (force /\ PlanOf(d, f, v) = "conflict") }

GoOn(x, a) == at' = [at EXCEPT ![x] = a]

\* The command is over, or its process has died.
Done(x) == /\ GoOn(x, "idle") /\ job' = [job EXCEPT ![x] = NoJob]
           /\ todo' = [todo EXCEPT ![x] = {}] /\ doing' = [doing EXCEPT ![x] = Null]

StartInit(x, r, v, force) ==
    /\ at[x] = "idle" /\ stage[x] = "idle" /\ disk[r] # Null /\ runs < MaxRuns
    /\ runs' = runs + 1
    /\ GoOn(x, "files")
    /\ job' = [job EXCEPT ![x] = [ root |-> r, version |-> v, stamp |-> runs',
                                   identity |-> IdentityPlan(disk[r], v, force) ]]
    /\ todo' = [todo EXCEPT ![x] = ToWrite(disk[r], v, force)]
    /\ UNCHANGED << registryVars, files, doing >>

---------------------------------------------------------------------------
(* Writing *)

\* What stands in the target is the user's or an older template.
NeedsCopy(x, d, f) == content[d][f] \notin { Missing, job[x].version }

SaveCopy(x, f) ==
    LET d == Here(x) IN
    /\ at[x] = "files" /\ f \in todo[x] /\ doing[x] = Null
    /\ d # Null /\ NeedsCopy(x, d, f)
    /\ backup' = [backup EXCEPT ![d][job[x].stamp][f] = content[d][f]]
    /\ doing' = [doing EXCEPT ![x] = f]
    /\ UNCHANGED << registryVars, content, receipt, listed, owed, runs, at, job, todo >>

PutFile(x, f) ==
    LET d == Here(x) IN
    /\ at[x] = "files" /\ f \in todo[x]
    /\ d # Null => doing[x] = f \/ (doing[x] = Null /\ ~NeedsCopy(x, d, f))
    /\ todo' = [todo EXCEPT ![x] = @ \ {f}]
    /\ doing' = [doing EXCEPT ![x] = Null]
    /\ IF d = Null THEN UNCHANGED << content, owed >>
       ELSE /\ content' = [content EXCEPT ![d][f] = job[x].version]
            /\ owed' = owed \cup ({ << d, f, content[d][f] >> } \cap (Dirs \X Files \X Texts))
    /\ UNCHANGED << registryVars, receipt, backup, listed, runs, at, job >>

FilesDone(x) ==
    /\ at[x] = "files" /\ todo[x] = {}
    /\ GoOn(x, CASE job[x].identity = "create" -> "identity"
                 [] job[x].identity = "skip" -> "enrol"
                 [] OTHER -> "manifest")
    /\ UNCHANGED << registryVars, files, runs, job, todo, doing >>

---------------------------------------------------------------------------
(* Identity and registration *)

HasNone(x) == Here(x) # Null /\ ident[Here(x)] = Null
CanRead(x) == Here(x) # Null /\ Readable(Here(x))

\* ensureProjectIdentity: an identity found there is read, or published.
Name(x) ==
    /\ at[x] = "identity"
    /\ \/ GoOn(x, "naming") /\ StartNaming(x, job[x].root)
       \/ /\ ~HasNone(x)
          /\ GoOn(x, IF CanRead(x) THEN "enrol" ELSE "manifest")
          /\ UNCHANGED registryVars
    /\ UNCHANGED << files, runs, job, todo, doing >>

\* A failed enrolment of the identity leaves the rest of the run as it is.
Named(x) ==
    /\ at[x] = "naming" /\ stage[x] = "idle"
    /\ GoOn(x, IF CanRead(x) THEN "enrol" ELSE "manifest")
    /\ UNCHANGED << registryVars, files, runs, job, todo, doing >>

Enrol(x) ==
    /\ at[x] = "enrol"
    /\ \/ GoOn(x, "enrolling") /\ StartEnrol(x, job[x].root)
       \/ /\ ~CanRead(x)
          /\ GoOn(x, "manifest") /\ UNCHANGED registryVars
    /\ UNCHANGED << files, runs, job, todo, doing >>

Enrolled(x) ==
    /\ at[x] = "enrolling" /\ stage[x] = "idle"
    /\ GoOn(x, "manifest")
    /\ UNCHANGED << registryVars, files, runs, job, todo, doing >>

\* /mazzy-registry forget-current.
Forget(x, r) ==
    /\ at[x] = "idle" /\ StartForget(x, r)
    /\ runs < MaxRuns /\ runs' = runs + 1
    /\ GoOn(x, "forgetting")
    /\ UNCHANGED << files, job, todo, doing >>

Forgotten(x) ==
    /\ at[x] = "forgetting" /\ stage[x] = "idle"
    /\ Done(x)
    /\ UNCHANGED << registryVars, files, runs >>

---------------------------------------------------------------------------
(* Manifest, receipt, rollback *)

Saved(d, s) == { f \in Files : backup[d][s][f] # Null }

\* Written once every backup is: a run that died before has none.
ListBackups(x) ==
    LET d == Here(x) IN
    /\ at[x] = "manifest"
    /\ listed' = IF d # Null /\ Saved(d, job[x].stamp) # {}
                   THEN listed \cup { << d, job[x].stamp >> } ELSE listed
    /\ GoOn(x, "receipt")
    /\ UNCHANGED << registryVars, content, receipt, backup, owed, runs, job, todo, doing >>

\* The receipt names every template, the conflicting ones included.
LeaveReceipt(x) ==
    /\ at[x] = "receipt"
    /\ receipt' = IF Here(x) = Null THEN receipt
                  ELSE [receipt EXCEPT ![Here(x)] = [f \in Files |-> job[x].version]]
    /\ Done(x)
    /\ UNCHANGED << registryVars, content, backup, listed, owed, runs >>

\* readdirSync(backups).sort().at(-1), manifest or not.
Latest(d, s) == Saved(d, s) # {} /\ \A u \in Stamps : u > s => Saved(d, u) = {}

\* readJson throws when the manifest is not there.
Slip_NoManifest(d, s) == TRUE

HasManifest(d, s) == << d, s >> \in listed

StartRollback(x, r, s) ==
    LET d == disk[r] IN
    /\ at[x] = "idle" /\ stage[x] = "idle" /\ d # Null
    /\ Latest(d, s) /\ HasManifest(d, s)
    /\ GoOn(x, "restoring")
    /\ job' = [job EXCEPT ![x] = [ root |-> r, version |-> Null, stamp |-> s,
                                   identity |-> "skip" ]]
    /\ todo' = [todo EXCEPT ![x] = IF << d, s >> \in listed THEN Saved(d, s) ELSE {}]
    /\ UNCHANGED << registryVars, files, runs, doing >>

\* Nobody else writes a file in the instant between its backup and the
\* rename that replaces it; the code does not look again.
Unattended(f) == \A x \in Procs : doing[x] # f

\* A saved file gone by now, restored by another rollback that has thrown
\* the backup away, makes this one throw (Stop).
Slip_Whatever(d, s, f) == TRUE

StillSaved(d, s, f) == backup[d][s][f] # Null

Restore(x, f) ==
    LET d == Here(x)
        old == backup[d][job[x].stamp][f] IN
    /\ at[x] = "restoring" /\ f \in todo[x] /\ d # Null
    /\ StillSaved(d, job[x].stamp, f) /\ Unattended(f)
    /\ content' = [content EXCEPT ![d][f] = old]
    /\ owed' = owed \ { << d, f, old >> }
    /\ todo' = [todo EXCEPT ![x] = @ \ {f}]
    /\ UNCHANGED << registryVars, receipt, backup, listed, runs, at, job, doing >>

DropBackup(x) ==
    LET d == Here(x) IN
    /\ at[x] = "restoring" /\ todo[x] = {}
    /\ IF d = Null THEN UNCHANGED << backup, listed >>
       ELSE /\ backup' = [backup EXCEPT ![d][job[x].stamp] = NoBackup]
            /\ listed' = listed \ { << d, job[x].stamp >> }
    /\ Done(x)
    /\ UNCHANGED << registryVars, content, receipt, owed, runs >>

---------------------------------------------------------------------------
(* The rest of the world *)

\* The process dies, or a write throws out of the command.
Stop(x) ==
    /\ at[x] # "idle"
    /\ IF stage[x] = "idle" THEN UNCHANGED registryVars ELSE Die(x)
    /\ Done(x)
    /\ UNCHANGED << files, runs >>

EditFile(d, f, t) ==
    /\ content[d][f] # t /\ \E r \in Roots : disk[r] = d
    /\ Unattended(f)
    /\ content' = [content EXCEPT ![d][f] = t]
    /\ owed' = owed \ { << d, f, t >> }
    /\ UNCHANGED << registryVars, receipt, backup, listed, runs, commands >>

\* No checkout is moved or copied while its files are being written.
Still == \A x \in Procs : at[x] \notin { "files", "restoring" }

\* A copied directory takes its files along.
Copied(e, d) ==
    /\ content' = [content EXCEPT ![d] = content[e]]
    /\ receipt' = [receipt EXCEPT ![d] = receipt[e]]
    /\ backup' = [backup EXCEPT ![d] = backup[e]]
    /\ listed' = (listed \ ({d} \X Stamps)) \cup { << d, s >> : s \in { u \in Stamps : << e, u >> \in listed } }
    /\ owed' = { o \in owed : o[1] # d } \cup { << d, o[2], o[3] >> : o \in { p \in owed : p[1] = e } }

Next ==
    \/ \E x \in Procs :
        \/ \E r \in Roots :
            \/ \E v \in Versions, force \in BOOLEAN : StartInit(x, r, v, force)
            \/ \E s \in Stamps : StartRollback(x, r, s)
            \/ Forget(x, r)
        \/ \E f \in todo[x] : SaveCopy(x, f) \/ PutFile(x, f) \/ Restore(x, f)
        \/ FilesDone(x) \/ Name(x) \/ Named(x) \/ Enrol(x) \/ Enrolled(x)
        \/ Forgotten(x) \/ ListBackups(x) \/ LeaveReceipt(x) \/ DropBackup(x)
        \/ RegistryStep(x) /\ UNCHANGED << files, runs, commands >>
        \/ Stop(x)
    \/ \E d \in Dirs, f \in Files, t \in Texts : EditFile(d, f, t)
    \/ /\ \/ \E c \in Clearers : Look(c) \/ LookAgain(c) \/ Clear(c)
          \/ Still /\ \E r, s \in Roots : MoveCheckout(r, s)
       /\ UNCHANGED << files, runs, commands >>
    \/ \E r, s \in Roots, d \in Dirs :
        Still /\ CopyCheckout(r, s, d) /\ Copied(disk[r], d) /\ UNCHANGED << runs, commands >>

Spec == Init /\ [][Next]_vars

---------------------------------------------------------------------------
(* Properties *)

\* No text of the user's is gone: what an init replaced and no rollback has
\* brought back is in a backup, whatever died in between (applyMazzyInit,
\* rollbackMazzyInit).
NothingLost ==
    \A o \in owed : \E s \in Stamps : backup[o[1]][s][o[2]] = o[3]
=============================================================================
