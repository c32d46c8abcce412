--------------------------- MODULE ProjectRegistry ---------------------------
(***************************************************************************)
(* Project identities (project.ts) and the private registry that tells a   *)
(* moved checkout from a copied one (project-registry.ts).  Processes of   *)
(* several sessions work on one registry directory; a step is one system   *)
(* call that another process can observe.                                  *)
(*                                                                         *)
(* Abstractions: a digest is what it digests; an entry's repository and    *)
(* dates, which decide nothing, are left out; the key is written before    *)
(* the first registry and not lost, so the key-missing refusal is too; the *)
(* backup copy of the registry is written and never read.  A directory     *)
(* that is not private ends a call with no write, as a busy lock does      *)
(* (GiveUp).                                                               *)
(***************************************************************************)
EXTENDS Naturals, FiniteSets

CONSTANTS
    Procs,          \* processes that enrol, forget or name
    Clearers,       \* sessions running unlock-stale
    Roots,          \* project roots
    Dirs,           \* directories (dev:ino); a copy is a new directory
    Ids,            \* project ids; a fresh UUID is one no directory has had
    Null, Dead,
    MaxEntries,     \* MAX_ENTRIES
    MaxMoves        \* bound: moves and copies of checkouts

ASSUME RegistryAssumption ==
    /\ Null \notin Procs \cup Roots \cup Dirs \cup Ids
    /\ Dead \notin Procs \cup {Null}
    /\ MaxEntries \in Nat /\ MaxMoves \in Nat

Entries == [ id: Ids, root: Roots, dir: Dirs ]

VARIABLES
    disk,           \* [Roots -> directory checked out there, or Null]
    ident,          \* [Dirs -> id in its project.json, or Null]
    linked,         \* directories whose project.json still has a second link
    moves,
    registry,       \* entries of registry.json
    lock,           \* owner of .registry.lock; Dead when its process died
    stage,          \* [Procs -> where the call stands]
    mine,           \* [Procs -> the checkout the call is about]
    next,           \* [Procs -> the registry it is about to write]
    watch,          \* [Clearers -> what it knows of the lock file]
    evicted         \* history: calls whose lock another process removed, and
                    \* those that took the lock while such a call was at work

disks == << disk, moves >>
names == << ident, linked >>
calls == << stage, mine, next >>
locks == << lock, evicted >>
registryVars == << disk, ident, linked, moves, registry, lock, stage, mine, next, watch, evicted >>

Stages == { "idle", "naming", "linked", "enrolling", "forgetting",
            "locked to enrol", "locked to forget", "writing", "releasing" }
Nobody == [ id |-> Null, root |-> Null, dir |-> Null ]

RegistryTypeOK ==
    /\ disk \in [Roots -> Dirs \cup {Null}] /\ moves \in 0..MaxMoves
    /\ ident \in [Dirs -> Ids \cup {Null}] /\ linked \subseteq Dirs
    /\ registry \subseteq Entries /\ Cardinality(registry) <= MaxEntries
    /\ lock \in Procs \cup { Null, Dead }
    /\ stage \in [Procs -> Stages]
    /\ mine \in [Procs -> [ id: Ids \cup {Null}, root: Roots, dir: Dirs ] \cup {Nobody}]
    /\ next \in [Procs -> SUBSET Entries]
    /\ watch \in [Clearers -> { "idle", "seen", "changed", "sure" }]
    /\ evicted \subseteq Procs

RegistryInit ==
    /\ disk \in [Roots -> Dirs \cup {Null}]
    /\ \A r, s \in Roots : disk[r] = disk[s] => r = s \/ disk[r] = Null
    /\ ident = [d \in Dirs |-> Null] /\ linked = {} /\ moves = 0
    /\ registry = {} /\ lock = Null
    /\ stage = [x \in Procs |-> "idle"]
    /\ mine = [x \in Procs |-> Nobody]
    /\ next = [x \in Procs |-> {}]
    /\ watch = [c \in Clearers |-> "idle"] /\ evicted = {}

---------------------------------------------------------------------------
(* Identity *)

\* readProjectIdentity refuses a descriptor with more than one link.
Readable(d) == ident[d] # Null /\ d \notin linked

Checkout(r) == [ id |-> ident[disk[r]], root |-> r, dir |-> disk[r] ]

Goto(x, s) == stage' = [stage EXCEPT ![x] = s]
Leave(x) == /\ Goto(x, "idle") /\ mine' = [mine EXCEPT ![x] = Nobody]
            /\ next' = [next EXCEPT ![x] = {}]

\* ensureProjectIdentity finds no descriptor and writes one of its own aside.
StartNaming(x, r) ==
    /\ stage[x] = "idle" /\ disk[r] # Null /\ ident[disk[r]] = Null
    /\ Goto(x, "naming")
    /\ mine' = [mine EXCEPT ![x] = Checkout(r)]
    /\ UNCHANGED << disks, names, registry, locks, next, watch >>

\* linkSync fails when the descriptor exists: the first one stays.
Slip_Replaces(d) == TRUE

Vacant(d) == ident[d] = Null

Publish(x) ==
    LET d == mine[x].dir IN
    /\ stage[x] = "naming" /\ disk[mine[x].root] = d /\ Vacant(d)
    /\ \E i \in Ids : /\ \A e \in Dirs : ident[e] # i
                      /\ ident' = [ident EXCEPT ![d] = i]
    /\ linked' = linked \cup {d}
    /\ Goto(x, "linked")
    /\ UNCHANGED << disks, registry, locks, mine, next, watch >>

\* EEXIST, or the checkout is no longer there.
NotPublished(x) ==
    /\ stage[x] = "naming"
    /\ disk[mine[x].root] = mine[x].dir => ~Vacant(mine[x].dir)
    /\ Leave(x)
    /\ UNCHANGED << disks, names, registry, locks, watch >>

\* The temporary name goes; only now can anyone read the identity.
Unlink(x) ==
    /\ stage[x] = "linked"
    /\ linked' = linked \ { mine[x].dir }
    /\ Leave(x)
    /\ UNCHANGED << disks, ident, registry, locks, watch >>

---------------------------------------------------------------------------
(* Registration *)

\* classify.
Status(known, c) ==
    LET byId == { e \in known : e.id = c.id }
        byRoot == { e \in known : e.root = c.root } IN
    IF \E e \in byRoot : e.id # c.id THEN "duplicate-canonical-root"
    ELSE IF byId = {} THEN "unregistered"
    ELSE IF \E e \in byId : e.root = c.root THEN "match"
    ELSE IF \E e \in byId : e.dir = c.dir THEN "moved"
    ELSE "duplicate-project-id"

\* parseRegistry: what a registry file may hold.
Parses(known) ==
    /\ Cardinality(known) <= MaxEntries
    /\ \A e, f \in known : e.id = f.id \/ e.root = f.root => e = f

MayEnrol(known, c) ==
    Status(known, c) \notin { "duplicate-project-id", "duplicate-canonical-root" }

\* The entry of that id is brought up to date, or a new one added.
Slip_Appends(known, c) == known \cup {c}

With(known, c) == { e \in known : e.id # c.id } \cup {c}
Without(known, c) == { e \in known : e.id # c.id }

\* The lock file is created, replaced or removed under a clearer that has
\* looked at it once: its second look sees another file, or none.
SetLock(owner) ==
    /\ lock' = owner
    /\ watch' = [c \in Clearers |-> IF watch[c] = "seen" THEN "changed" ELSE watch[c]]

\* checkout() runs before the lock is asked for.
StartEnrol(x, r) ==
    /\ stage[x] = "idle" /\ disk[r] # Null /\ Readable(disk[r])
    /\ Goto(x, "enrolling")
    /\ mine' = [mine EXCEPT ![x] = Checkout(r)]
    /\ UNCHANGED << disks, names, registry, locks, next, watch >>

StartForget(x, r) ==
    /\ stage[x] = "idle" /\ disk[r] # Null /\ Readable(disk[r])
    /\ Goto(x, "forgetting")
    /\ mine' = [mine EXCEPT ![x] = Checkout(r)]
    /\ UNCHANGED << disks, names, registry, locks, next, watch >>

\* Whoever holds the lock is without it after this.
Robbed == evicted \cup ({lock} \cap Procs)

\* O_CREAT | O_EXCL.
Slip_NotExclusive(x) == TRUE

Free(x) == lock = Null

Acquire(x) ==
    /\ Free(x)
    /\ \/ stage[x] = "enrolling" /\ Goto(x, "locked to enrol")
       \/ stage[x] = "forgetting" /\ Goto(x, "locked to forget")
    /\ SetLock(x)
    /\ evicted' = IF evicted = {} THEN {} ELSE evicted \cup {x}
    /\ UNCHANGED << disks, names, registry, mine, next >>

\* A second has passed without the lock, or the directory is refused.
GiveUp(x) ==
    /\ stage[x] \in { "enrolling", "forgetting" }
    /\ Leave(x)
    /\ UNCHANGED << disks, names, registry, locks, watch >>

\* registry.json is read and the new one made of what was read, unless it does
\* not parse.
Decide(x) ==
    LET c == mine[x]
        made == IF stage[x] = "locked to enrol" THEN With(registry, c)
                ELSE Without(registry, c) IN
    /\ stage[x] \in { "locked to enrol", "locked to forget" }
    /\ IF /\ Parses(registry)
          /\ stage[x] = "locked to enrol" => MayEnrol(registry, c)
          /\ stage[x] = "locked to forget" => made # registry
          /\ Cardinality(made) <= MaxEntries
         THEN Goto(x, "writing") /\ next' = [next EXCEPT ![x] = made]
         ELSE Goto(x, "releasing") /\ UNCHANGED next
    /\ UNCHANGED << disks, names, registry, locks, mine, watch >>

\* persist: a rename; what stands in the file by now is not looked at.
Write(x) ==
    /\ stage[x] = "writing"
    /\ registry' = next[x]
    /\ Goto(x, "releasing")
    /\ UNCHANGED << disks, names, locks, mine, next, watch >>

\* The result is read back, which changes only the answer; then the lock
\* file is removed by its name, whoever made it.
Release(x) ==
    /\ stage[x] = "releasing"
    /\ SetLock(Null)
    /\ evicted' = Robbed \ {x}
    /\ Leave(x)
    /\ UNCHANGED << disks, names, registry >>

\* A failing read or write ends the call; the lock is still released.
Fail(x) ==
    /\ stage[x] \in { "locked to enrol", "locked to forget", "writing" }
    /\ Goto(x, "releasing")
    /\ UNCHANGED << disks, names, registry, locks, mine, next, watch >>

\* The process dies: its lock file and its temporary link stay.
Die(x) ==
    /\ stage[x] # "idle"
    /\ lock' = IF lock = x THEN Dead ELSE lock
    /\ evicted' = evicted \ {x}
    /\ Leave(x)
    /\ UNCHANGED << disks, names, registry, watch >>

---------------------------------------------------------------------------
(* clearStaleProjectRegistryLock *)

\* The first lstat finds a lock file two minutes old.  Its owner may be dead,
\* or suspended, or only slow: age is all that is looked at.
Stale == lock # Null

Look(c) ==
    /\ watch[c] = "idle"
    /\ Stale
    /\ watch' = [watch EXCEPT ![c] = "seen"]
    /\ UNCHANGED << disks, names, registry, locks, calls >>

\* The second one: the same file, another one, or none.
LookAgain(c) ==
    /\ watch[c] \in { "seen", "changed" }
    /\ watch' = [watch EXCEPT ![c] = IF @ = "seen" THEN "sure" ELSE "idle"]
    /\ UNCHANGED << disks, names, registry, locks, calls >>

Clear(c) ==
    /\ watch[c] = "sure"
    /\ lock' = Null
    /\ evicted' = Robbed
    /\ watch' = [b \in Clearers |-> IF b = c THEN "idle"
                                    ELSE IF watch[b] = "seen" THEN "changed" ELSE watch[b]]
    /\ UNCHANGED << disks, names, registry, calls >>

---------------------------------------------------------------------------
(* The user's file system *)

\* The directory keeps its identity and its inode under another root.
MoveCheckout(r, s) ==
    /\ moves < MaxMoves /\ disk[r] # Null /\ disk[s] = Null
    /\ disk' = [disk EXCEPT ![s] = disk[r], ![r] = Null]
    /\ moves' = moves + 1
    /\ UNCHANGED << names, registry, locks, calls, watch >>

\* cp -r: the copy has the original's identity.
CopyCheckout(r, s, d) ==
    /\ moves < MaxMoves /\ disk[r] # Null /\ disk[s] = Null
    /\ d \in Dirs /\ \A q \in Roots : disk[q] # d
    /\ ident[d] = Null
    /\ disk' = [disk EXCEPT ![s] = d]
    /\ ident' = [ident EXCEPT ![d] = ident[disk[r]]]
    /\ moves' = moves + 1
    /\ UNCHANGED << linked, registry, locks, calls, watch >>

RegistryStep(x) ==
    \/ Publish(x) \/ NotPublished(x) \/ Unlink(x)
    \/ Acquire(x) \/ GiveUp(x) \/ Decide(x) \/ Write(x) \/ Release(x)
    \/ Fail(x)

RegistryNext ==
    \/ \E x \in Procs :
        \/ \E r \in Roots : StartNaming(x, r) \/ StartEnrol(x, r) \/ StartForget(x, r)
        \/ RegistryStep(x)
        \/ Die(x)
    \/ \E c \in Clearers : Look(c) \/ LookAgain(c) \/ Clear(c)
    \/ \E r, s \in Roots : MoveCheckout(r, s) \/ \E d \in Dirs : CopyCheckout(r, s, d)

RegistrySpec == RegistryInit /\ [][RegistryNext]_registryVars

---------------------------------------------------------------------------
(* Properties *)

\* The registry is never left in a form that parseRegistry refuses: two
\* entries of one id, or of one root.  Every later call would end there.
RegistryStaysReadable == Parses(registry)

\* A registration is lost to a forget of its id only, however many sessions
\* enrol at once, and is never handed to a copy of its checkout: the entry
\* keeps its root or its directory.  The one exception is a call that another
\* process has taken the lock from, or that took the lock while such a call was
\* at work: when they are over the lock protects the registry again, whatever
\* the clearers do (enrollProjectRegistration, clearStaleProjectRegistryLock).
RegistrationsKept ==
    [][\A e \in registry :
        \/ \E f \in registry' : f.id = e.id /\ (f.root = e.root \/ f.dir = e.dir)
        \/ \E x \in Procs : mine[x].id = e.id /\ next[x] = Without(registry, e)
                            /\ registry' = next[x]
        \/ \E x \in evicted : stage[x] = "writing" /\ registry' = next[x]]_registryVars

\* An identity, once published, is that directory's for good: of two
\* initialisers racing for it one loses (ensureProjectIdentity).
IdentityForGood ==
    [][\A d \in Dirs : ident[d] # Null => ident'[d] = ident[d]]_registryVars
=============================================================================
