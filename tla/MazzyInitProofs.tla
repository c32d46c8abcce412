--------------------------- MODULE MazzyInitProofs ---------------------------
(***************************************************************************)
(* The registry, and init, rollback and forget over it, for any number of  *)
(* sessions, checkouts, identities, files, templates and runs.             *)
(*                                                                         *)
(* The registry comes first.  That it stays readable needs no lock: what a *)
(* call is about to write is as unique as what it has read (Prepared).     *)
(* That registrations are kept does: the registry a call writes must still *)
(* be made of the one it replaces (Current), which holds while the lock    *)
(* excludes the others.  A clearer may remove the lock of a call that is   *)
(* still at work: whoever it shares the lock with from then on is evicted  *)
(* (Exclusive), so a call that is not evicted had the lock to itself.      *)
(*                                                                         *)
(* Every step of MazzyInit is a step of ProjectRegistry or leaves its      *)
(* state alone, so what is proved of the registry holds under it.  That no *)
(* text is lost is not inductive: a backup still there may be one that a   *)
(* rollback has restored from already and is about to throw away.  Kept    *)
(* asks for one that no rollback under way is done with; that an init's    *)
(* own backup is such a one needs that nobody else has its stamp (Apart,   *)
(* Closed) and that it holds what the file still holds (Saving).           *)
(***************************************************************************)
EXTENDS MazzyInit, FiniteSetTheorems, TLAPS

---------------------------------------------------------------------------
(* The registry: what its calls know *)

Unique(known) == \A e, f \in known : e.id = f.id \/ e.root = f.root => e = f

Enrolling(x) == stage[x] \in { "enrolling", "locked to enrol" }

\* The calls know a checkout, and an enrolling one a named checkout.
Known ==
    \A x \in Procs :
        /\ stage[x] # "idle" => mine[x] # Nobody
        /\ Enrolling(x) => mine[x] \in Entries

Prepared ==
    \A x \in Procs : stage[x] = "writing" =>
        Unique(next[x]) /\ Cardinality(next[x]) <= MaxEntries

Inv == RegistryTypeOK /\ Known /\ RegistryStaysReadable /\ Prepared

---------------------------------------------------------------------------
(* What a call makes of the registry *)

LEMMA Enrollable ==
  ASSUME NEW known, NEW c, MayEnrol(known, c)
  PROVE  /\ \A e \in known : e.root = c.root => e.id = c.id
         /\ \A e \in known : e.id = c.id =>
              \E f \in known : f.id = c.id /\ (f.root = c.root \/ f.dir = c.dir)
  BY DEF MayEnrol, Status

LEMMA WithUnique ==
  ASSUME NEW known, NEW c, Unique(known), MayEnrol(known, c)
  PROVE  Unique(With(known, c))
  BY Enrollable DEF Unique, With

LEMMA WithoutUnique ==
  ASSUME NEW known, NEW c, Unique(known)
  PROVE  Unique(Without(known, c))
  BY DEF Unique, Without

LEMMA WithEntries ==
  ASSUME NEW known \in SUBSET Entries, NEW c \in Entries
  PROVE  With(known, c) \in SUBSET Entries
  BY DEF With

LEMMA WithoutEntries ==
  ASSUME NEW known \in SUBSET Entries, NEW c
  PROVE  Without(known, c) \in SUBSET Entries
  BY DEF Without

\* An enrolment keeps every registration: of another id as it is, of its own
\* at the same root or directory.
LEMMA WithKeeps ==
  ASSUME NEW known, NEW c, Unique(known), MayEnrol(known, c), NEW e \in known
  PROVE  \E f \in With(known, c) : f.id = e.id /\ (f.root = e.root \/ f.dir = e.dir)
  <1>1. CASE e.id # c.id
    BY <1>1 DEF With
  <1>2. CASE e.id = c.id
    <2>1. PICK f \in known : f.id = c.id /\ (f.root = c.root \/ f.dir = c.dir)
      BY <1>2, Enrollable
    <2>2. f = e
      BY <1>2, <2>1 DEF Unique
    <2>3. c \in With(known, c)
      BY DEF With
    <2> QED
      BY <1>2, <2>1, <2>2, <2>3
  <1> QED
    BY <1>1, <1>2

---------------------------------------------------------------------------
(* The registry stays readable *)

LEMMA InitInv ==
  ASSUME RegistryInit
  PROVE  Inv
  <1>1. Cardinality(registry) <= MaxEntries
    BY FS_EmptySet, RegistryAssumption DEF RegistryInit
  <1> QED
    BY <1>1, RegistryAssumption
    DEF RegistryInit, Inv, RegistryTypeOK, Known, Prepared, RegistryStaysReadable, Parses,
        Stages, Enrolling

LEMMA NamingInv ==
  ASSUME Inv, NEW x \in Procs,
         \/ \E r \in Roots : StartNaming(x, r) \/ StartEnrol(x, r) \/ StartForget(x, r)
         \/ Publish(x) \/ NotPublished(x) \/ Unlink(x)
  PROVE  Inv'
  <1> USE DEF Inv, Known, Prepared, RegistryStaysReadable, Parses, Enrolling, Goto, Leave,
              disks, names, calls, locks
  <1>1. ASSUME NEW r \in Roots, StartNaming(x, r)
        PROVE  Inv'
    <2>1. Checkout(r) \in [ id: Ids \cup {Null}, root: Roots, dir: Dirs ] /\ Checkout(r) # Nobody
      BY <1>1, RegistryAssumption DEF StartNaming, Checkout, RegistryTypeOK, Nobody
    <2> QED
      BY <1>1, <2>1 DEF StartNaming, RegistryTypeOK, Stages, Unique
  <1>2. ASSUME NEW r \in Roots, StartEnrol(x, r) \/ StartForget(x, r)
        PROVE  Inv'
    <2>1. Checkout(r) \in Entries /\ Checkout(r) # Nobody
      BY <1>2, RegistryAssumption
      DEF StartEnrol, StartForget, Readable, Checkout, RegistryTypeOK, Nobody, Entries
    <2>2. Entries \subseteq [ id: Ids \cup {Null}, root: Roots, dir: Dirs ] \cup {Nobody}
      BY DEF Entries
    <2>3. mine' = [mine EXCEPT ![x] = Checkout(r)]
      BY <1>2 DEF StartEnrol, StartForget
    <2>4. mine' \in [Procs -> [ id: Ids \cup {Null}, root: Roots, dir: Dirs ] \cup {Nobody}]
      <3>1. Checkout(r) \in [ id: Ids \cup {Null}, root: Roots, dir: Dirs ] \cup {Nobody}
        BY <2>1, <2>2
      <3> QED
        BY <2>3, <3>1 DEF RegistryTypeOK
    <2>5. /\ stage' \in [Procs -> Stages]
          /\ \A y \in Procs : y # x => stage'[y] = stage[y]
          /\ stage'[x] \in { "enrolling", "forgetting" }
          /\ UNCHANGED << disks, names, registry, locks, next, watch >>
      BY <1>2 DEF StartEnrol, StartForget, RegistryTypeOK, Stages
    <2>6. RegistryTypeOK'
      BY <2>5, <2>4 DEF RegistryTypeOK
    <2>7. Known'
      BY <2>1, <2>5, <2>3 DEF RegistryTypeOK
    <2>8. Prepared'
      BY <2>5 DEF Unique
    <2> QED
      BY <2>5, <2>6, <2>7, <2>8
  <1>3. ASSUME Publish(x)
        PROVE  Inv'
    <2>1. mine[x].dir \in Dirs
      BY <1>3 DEF Publish, RegistryTypeOK
    <2>2. ident' \in [Dirs -> Ids \cup {Null}] /\ linked' \subseteq Dirs
      BY <1>3, <2>1 DEF Publish, RegistryTypeOK
    <2>3. /\ stage' = [stage EXCEPT ![x] = "linked"] /\ stage[x] = "naming"
          /\ UNCHANGED << disks, registry, locks, mine, next, watch >>
      BY <1>3 DEF Publish
    <2>4. RegistryTypeOK'
      BY <2>2, <2>3 DEF RegistryTypeOK, Stages
    <2>5. Known' /\ Prepared'
      BY <2>3 DEF RegistryTypeOK, Unique
    <2> QED
      BY <2>3, <2>4, <2>5
  <1>4. ASSUME NotPublished(x) \/ Unlink(x)
        PROVE  Inv'
    BY <1>4 DEF NotPublished, Unlink, RegistryTypeOK, Stages, Unique
  <1> QED
    BY <1>1, <1>2, <1>3, <1>4

LEMMA CallInv ==
  ASSUME Inv, NEW x \in Procs,
         \/ Acquire(x) \/ GiveUp(x) \/ Decide(x) \/ Write(x) \/ Release(x)
         \/ Fail(x) \/ Die(x)
  PROVE  Inv'
  <1> USE DEF Inv, Known, Prepared, RegistryStaysReadable, Parses, Enrolling, Goto, Leave,
              disks, names, calls, locks
  <1>1. ASSUME Acquire(x)
        PROVE  Inv'
    BY <1>1 DEF Acquire, SetLock, RegistryTypeOK, Stages, Unique
  <1>2. ASSUME GiveUp(x) \/ Fail(x) \/ Die(x)
        PROVE  Inv'
    BY <1>2 DEF GiveUp, Fail, Die, RegistryTypeOK, Stages, Unique
  <1>3. ASSUME Decide(x)
        PROVE  Inv'
    <2> DEFINE made == IF stage[x] = "locked to enrol" THEN With(registry, mine[x])
                       ELSE Without(registry, mine[x])
    <2>1. made \in SUBSET Entries
      BY <1>3, WithEntries, WithoutEntries DEF RegistryTypeOK, Decide
    <2>2. stage'[x] = "writing" =>
            next'[x] = made /\ Unique(made) /\ Cardinality(made) <= MaxEntries
      <3>1. Unique(registry)
        BY DEF Unique
      <3> QED
        BY <1>3, <3>1, WithUnique, WithoutUnique DEF Decide, RegistryTypeOK
    <2>3. /\ stage' \in [Procs -> Stages] /\ next' \in [Procs -> SUBSET Entries]
          /\ \A y \in Procs : y # x => stage'[y] = stage[y] /\ next'[y] = next[y]
          /\ stage'[x] \in { "writing", "releasing" }
      BY <1>3, <2>1 DEF Decide, RegistryTypeOK, Stages
    <2>4. UNCHANGED << disks, names, registry, locks, mine, watch >> /\ stage[x] # "idle"
      BY <1>3 DEF Decide
    <2> HIDE DEF made
    <2>5. RegistryTypeOK'
      BY <2>3, <2>4 DEF RegistryTypeOK
    <2>6. Known'
      BY <2>3, <2>4
    <2>7. Prepared'
      BY <2>2, <2>3, <2>4 DEF Unique
    <2> QED
      BY <2>4, <2>5, <2>6, <2>7
  <1>4. ASSUME Write(x)
        PROVE  Inv'
    <2>1. Unique(next[x]) /\ Cardinality(next[x]) <= MaxEntries /\ next[x] \in SUBSET Entries
      BY <1>4 DEF Write, RegistryTypeOK
    <2> QED
      BY <1>4, <2>1 DEF Write, RegistryTypeOK, Stages, Unique
  <1>5. ASSUME Release(x)
        PROVE  Inv'
    BY <1>5, RegistryAssumption DEF Release, SetLock, Robbed, RegistryTypeOK, Stages, Unique
  <1> QED
    BY <1>1, <1>2, <1>3, <1>4, <1>5

LEMMA OneMore ==
  ASSUME NEW n \in 0..MaxMoves, n < MaxMoves
  PROVE  n + 1 \in 0..MaxMoves
  BY RegistryAssumption

LEMMA WorldInv ==
  ASSUME Inv,
         \/ \E c \in Clearers : Look(c) \/ LookAgain(c) \/ Clear(c)
         \/ \E r, s \in Roots : MoveCheckout(r, s) \/ \E d \in Dirs : CopyCheckout(r, s, d)
         \/ UNCHANGED registryVars
  PROVE  Inv'
  <1> USE DEF Inv, Known, Prepared, RegistryStaysReadable, Parses, Enrolling, disks, names, calls, locks, Unique
  <1>1. ASSUME NEW c \in Clearers, Look(c) \/ LookAgain(c) \/ Clear(c)
        PROVE  Inv'
    BY <1>1 DEF Look, LookAgain, Clear, Robbed, RegistryTypeOK
  <1>2. ASSUME NEW r \in Roots, NEW s \in Roots, MoveCheckout(r, s)
        PROVE  Inv'
    <2>1. disk' \in [Roots -> Dirs \cup {Null}]
      BY <1>2 DEF MoveCheckout, RegistryTypeOK
    <2>2. moves' \in 0..MaxMoves
      <3>1. moves \in 0..MaxMoves /\ moves < MaxMoves /\ moves' = moves + 1
        BY <1>2 DEF MoveCheckout, RegistryTypeOK
      <3> QED
        BY <3>1, OneMore
    <2> QED
      BY <1>2, <2>1, <2>2 DEF MoveCheckout, RegistryTypeOK
  <1>3. ASSUME NEW r \in Roots, NEW s \in Roots, NEW d \in Dirs, CopyCheckout(r, s, d)
        PROVE  Inv'
    <2>1. disk[r] \in Dirs
      BY <1>3 DEF CopyCheckout, RegistryTypeOK
    <2>2. disk' \in [Roots -> Dirs \cup {Null}] /\ ident' \in [Dirs -> Ids \cup {Null}]
      BY <1>3, <2>1 DEF CopyCheckout, RegistryTypeOK
    <2>3. moves' \in 0..MaxMoves
      <3>1. moves \in 0..MaxMoves /\ moves < MaxMoves /\ moves' = moves + 1
        BY <1>3 DEF CopyCheckout, RegistryTypeOK
      <3> QED
        BY <3>1, OneMore
    <2> QED
      BY <1>3, <2>2, <2>3 DEF CopyCheckout, RegistryTypeOK
  <1>4. ASSUME UNCHANGED registryVars
        PROVE  Inv'
    BY <1>4 DEF registryVars, RegistryTypeOK
  <1> QED
    BY <1>1, <1>2, <1>3, <1>4

LEMMA StepInv ==
  ASSUME Inv, [RegistryNext]_registryVars
  PROVE  Inv'
  BY NamingInv, CallInv, WorldInv DEF RegistryNext, RegistryStep

LEMMA InvAlways == RegistrySpec => []Inv
  BY InitInv, StepInv, PTL DEF RegistrySpec

\* Every call leaves a well typed registry of at most MAX_ENTRIES entries,
\* whoever holds the lock.
THEOREM RegistryTypeCorrect == RegistrySpec => []RegistryTypeOK
  <1>1. Inv => RegistryTypeOK
    BY DEF Inv
  <1> QED
    BY <1>1, InvAlways, PTL

\* parseRegistry never refuses what a call has written, even when a stale
\* clearer has let two calls in at once.
THEOREM RegistryReadable == RegistrySpec => []RegistryStaysReadable
  <1>1. Inv => RegistryStaysReadable
    BY DEF Inv
  <1> QED
    BY <1>1, InvAlways, PTL

\* linkSync gives an identity once; a copy gets one in a new directory only.
THEOREM IdentitiesForGood == RegistrySpec => IdentityForGood
  <1>1. ASSUME Inv, [RegistryNext]_registryVars
        PROVE  [\A d \in Dirs : ident[d] # Null => ident'[d] = ident[d]]_registryVars
    <2>1. ASSUME NEW x \in Procs, Publish(x)
          PROVE  \A d \in Dirs : ident[d] # Null => ident'[d] = ident[d]
      BY <1>1, <2>1 DEF Publish, Vacant, Inv, RegistryTypeOK
    <2>2. ASSUME NEW r \in Roots, NEW s \in Roots, NEW d \in Dirs, CopyCheckout(r, s, d)
          PROVE  \A e \in Dirs : ident[e] # Null => ident'[e] = ident[e]
      BY <1>1, <2>2 DEF CopyCheckout, Inv, RegistryTypeOK
    <2>3. ASSUME NEW x \in Procs,
                 \/ \E r \in Roots : StartNaming(x, r) \/ StartEnrol(x, r) \/ StartForget(x, r)
                 \/ NotPublished(x) \/ Unlink(x) \/ Acquire(x) \/ GiveUp(x) \/ Decide(x)
                 \/ Write(x) \/ Release(x) \/ Fail(x) \/ Die(x)
          PROVE  ident' = ident
      BY <2>3 DEF StartNaming, StartEnrol, StartForget, NotPublished, Unlink, Acquire,
                  GiveUp, Decide, Write, Release, Fail, Die, names
    <2>4. ASSUME NEW c \in Clearers, Look(c) \/ LookAgain(c) \/ Clear(c)
          PROVE  ident' = ident
      BY <2>4 DEF Look, LookAgain, Clear, names
    <2>5. ASSUME NEW r \in Roots, NEW s \in Roots, MoveCheckout(r, s)
          PROVE  ident' = ident
      BY <2>5 DEF MoveCheckout, names
    <2> QED
      BY <1>1, <2>1, <2>2, <2>3, <2>4, <2>5 DEF RegistryNext, RegistryStep
  <1> QED
    BY <1>1, InvAlways, PTL DEF RegistrySpec, IdentityForGood

---------------------------------------------------------------------------
(* Registrations are kept *)

Holding(x) == stage[x] \in { "locked to enrol", "locked to forget", "writing", "releasing" }

\* A call past the lock owns the lock file or is evicted, two calls past it
\* are both evicted, and an evicted call or a live owner is past it.
Exclusive ==
    /\ \A x \in Procs : Holding(x) => lock = x \/ x \in evicted
    /\ \A x, y \in Procs : Holding(x) /\ Holding(y) => x = y \/ { x, y } \subseteq evicted
    /\ \A x \in Robbed : Holding(x)

\* What a call that is not evicted is about to write is made of the registry
\* it replaces.
Current ==
    \A x \in Procs \ evicted : stage[x] = "writing" =>
        \/ MayEnrol(registry, mine[x]) /\ next[x] = With(registry, mine[x])
        \/ next[x] = Without(registry, mine[x])

LockInv == Inv /\ Exclusive /\ Current

LEMMA InitLock ==
  ASSUME RegistryInit
  PROVE  Exclusive /\ Current
  BY RegistryAssumption DEF RegistryInit, Exclusive, Current, Holding, Robbed

\* Whoever gets the lock is alone past it, or evicted.
LEMMA AcquireLock ==
  ASSUME LockInv, NEW x \in Procs, Acquire(x)
  PROVE  Exclusive' /\ Current'
  <1> USE RegistryAssumption DEF LockInv, Inv, RegistryTypeOK, Holding, Robbed
  <1>1. /\ lock = Null /\ lock' = x /\ Holding(x)' /\ stage'[x] # "writing"
        /\ \A y \in Procs : y # x => stage'[y] = stage[y]
        /\ evicted' = IF evicted = {} THEN {} ELSE evicted \cup {x}
        /\ UNCHANGED << registry, mine, next >>
    BY DEF Acquire, Free, SetLock, Goto, Stages
  <1>2. \A y \in Procs : Holding(y) => y \in evicted
    BY <1>1 DEF Exclusive
  <1>3. \A y \in Procs : Holding(y)' => y = x \/ y \in evicted
    BY <1>1, <1>2
  <1>4. Exclusive'
    BY <1>1, <1>3 DEF Exclusive
  <1>5. Current'
    BY <1>1 DEF Current
  <1> QED
    BY <1>4, <1>5

\* A call that ends takes the lock file with it, or leaves it if it dies.
LEMMA LeaveLock ==
  ASSUME LockInv, NEW x \in Procs, Release(x) \/ Die(x)
  PROVE  Exclusive' /\ Current'
  <1> USE RegistryAssumption DEF LockInv, Inv, RegistryTypeOK, Holding, Robbed
  <1>1. /\ stage'[x] = "idle" /\ \A y \in Procs : y # x => stage'[y] = stage[y]
        /\ UNCHANGED registry
        /\ \A y \in Procs : y # x => mine'[y] = mine[y] /\ next'[y] = next[y]
    BY DEF Release, Die, Leave, Goto
  <1>2. \/ lock' = Null /\ evicted' = Robbed \ {x}
        \/ lock' = (IF lock = x THEN Dead ELSE lock) /\ evicted' = evicted \ {x}
    BY DEF Release, Die, SetLock
  <1>3. Exclusive'
    <2>1. CASE lock' = Null /\ evicted' = Robbed \ {x}
      BY <1>1, <2>1 DEF Exclusive
    <2>2. CASE lock' = (IF lock = x THEN Dead ELSE lock) /\ evicted' = evicted \ {x}
      <3>1. \A y \in Procs : Holding(y)' => y # x /\ Holding(y)
        BY <1>1
      <3>2. \A y \in Procs : Holding(y)' => lock' = y \/ y \in evicted'
        BY <3>1, <2>2 DEF Exclusive
      <3>3. \A y, z \in Procs : Holding(y)' /\ Holding(z)' => y = z \/ { y, z } \subseteq evicted'
        BY <3>1, <2>2 DEF Exclusive
      <3>4. \A y \in Robbed' : y \in Robbed /\ y \in Procs /\ y # x
        BY <2>2
      <3>5. \A y \in Robbed' : Holding(y)'
        BY <3>4, <1>1 DEF Exclusive
      <3> QED
        BY <3>2, <3>3, <3>5 DEF Exclusive
    <2> QED
      BY <1>2, <2>1, <2>2
  <1>4. Current'
    BY <1>1, <1>2 DEF Current
  <1> QED
    BY <1>3, <1>4

\* Between them the lock is not touched; only Write changes the registry.
LEMMA WorkLock ==
  ASSUME LockInv, NEW x \in Procs, GiveUp(x) \/ Decide(x) \/ Write(x) \/ Fail(x)
  PROVE  Exclusive' /\ Current'
  <1> USE RegistryAssumption DEF LockInv, Inv, RegistryTypeOK, Holding, Robbed
  <1>1. UNCHANGED locks /\ \A y \in Procs : y # x => stage'[y] = stage[y] /\ next'[y] = next[y] /\ mine'[y] = mine[y]
    BY DEF GiveUp, Decide, Write, Fail, Goto, Leave, locks
  <1>2. Holding(x)' <=> Holding(x)
    BY DEF GiveUp, Decide, Write, Fail, Goto, Leave
  <1>3. Exclusive'
    BY <1>1, <1>2 DEF Exclusive, locks
  <1>4. CASE GiveUp(x) \/ Fail(x)
    <2>1. stage'[x] # "writing" /\ UNCHANGED registry
      BY <1>4 DEF GiveUp, Fail, Goto, Leave
    <2> QED
      BY <1>1, <1>3, <2>1 DEF Current, locks
  <1>5. CASE Decide(x)
    <2>1. stage'[x] = "writing" =>
            \/ MayEnrol(registry, mine[x]) /\ next'[x] = With(registry, mine[x])
            \/ next'[x] = Without(registry, mine[x])
      BY <1>5 DEF Decide, Goto
    <2>2. UNCHANGED << registry, mine >>
      BY <1>5 DEF Decide
    <2> QED
      BY <1>1, <1>3, <2>1, <2>2 DEF Current, locks
  <1>6. CASE Write(x)
    <2>1. stage'[x] # "writing" /\ Holding(x)
      BY <1>6 DEF Write, Goto
    <2>2. \A y \in Procs : y # x /\ Holding(y) => y \in evicted
      BY <2>1 DEF Exclusive
    <2> QED
      BY <1>1, <1>3, <2>1, <2>2 DEF Current, locks
  <1> QED
    BY <1>3, <1>4, <1>5, <1>6

LEMMA ElsewhereLock ==
  ASSUME LockInv, NEW x \in Procs, ~Holding(x), ~Holding(x)', UNCHANGED << registry, locks >>,
         \A y \in Procs : y # x => stage'[y] = stage[y] /\ mine'[y] = mine[y] /\ next'[y] = next[y]
  PROVE  Exclusive' /\ Current'
  <1>1. \A y \in Procs : /\ Holding(y)' <=> Holding(y)
                         /\ Holding(y) => UNCHANGED << stage[y], mine[y], next[y] >>
    BY DEF Holding
  <1>2. UNCHANGED << registry, lock, evicted >> /\ evicted \subseteq Procs /\ Robbed \subseteq Procs
    BY DEF locks, LockInv, Inv, RegistryTypeOK, Robbed
  <1>3. Exclusive'
    BY <1>1, <1>2 DEF LockInv, Exclusive, Robbed
  <1>4. \A y \in Procs : stage'[y] = "writing" => stage[y] = "writing" /\ Holding(y)
    BY DEF Holding
  <1>5. Current'
    BY <1>1, <1>2, <1>4 DEF LockInv, Current
  <1> QED
    BY <1>3, <1>5

LEMMA OtherLock ==
  ASSUME LockInv,
         \/ \E x \in Procs :
              \/ \E r \in Roots : StartNaming(x, r) \/ StartEnrol(x, r) \/ StartForget(x, r)
              \/ Publish(x) \/ NotPublished(x) \/ Unlink(x)
         \/ \E c \in Clearers : Look(c) \/ LookAgain(c) \/ Clear(c)
         \/ \E r, s \in Roots : MoveCheckout(r, s) \/ \E d \in Dirs : CopyCheckout(r, s, d)
         \/ UNCHANGED registryVars
  PROVE  Exclusive' /\ Current'
  <1> USE DEF LockInv, Inv, RegistryTypeOK, Holding, Goto, Leave
  <1>1. ASSUME NEW x \in Procs, NEW r \in Roots,
               StartNaming(x, r) \/ StartEnrol(x, r) \/ StartForget(x, r)
        PROVE  Exclusive' /\ Current'
    <2>1. /\ UNCHANGED << registry, locks, next >>
          /\ stage[x] = "idle" /\ stage'[x] \in { "naming", "enrolling", "forgetting" }
          /\ \A y \in Procs : y # x => stage'[y] = stage[y] /\ mine'[y] = mine[y]
      BY <1>1 DEF StartNaming, StartEnrol, StartForget
    <2>2. ~Holding(x) /\ ~Holding(x)'
      BY <2>1
    <2> QED
      BY <2>1, <2>2, ElsewhereLock
  <1>2. ASSUME NEW x \in Procs, Publish(x) \/ NotPublished(x) \/ Unlink(x)
        PROVE  Exclusive' /\ Current'
    <2>1. /\ UNCHANGED << registry, locks >>
          /\ \A y \in Procs : y # x => stage'[y] = stage[y] /\ mine'[y] = mine[y] /\ next'[y] = next[y]
          /\ ~Holding(x) /\ ~Holding(x)'
      BY <1>2 DEF Publish, NotPublished, Unlink
    <2> QED
      BY <2>1, ElsewhereLock
  <1>3. ASSUME NEW c \in Clearers, Look(c) \/ LookAgain(c)
        PROVE  Exclusive' /\ Current'
    BY <1>3 DEF Look, LookAgain, Exclusive, Current, Robbed, calls, locks
  <1>4. ASSUME NEW c \in Clearers, Clear(c)
        PROVE  Exclusive' /\ Current'
    BY <1>4, RegistryAssumption DEF Clear, Exclusive, Current, Robbed, calls
  <1>5. ASSUME NEW r \in Roots, NEW s \in Roots,
               MoveCheckout(r, s) \/ \E d \in Dirs : CopyCheckout(r, s, d)
        PROVE  Exclusive' /\ Current'
    <2>1. UNCHANGED << registry, locks, calls >>
      BY <1>5 DEF MoveCheckout, CopyCheckout
    <2> QED
      BY <2>1 DEF Exclusive, Current, Robbed, calls, locks
  <1>6. ASSUME UNCHANGED registryVars
        PROVE  Exclusive' /\ Current'
    BY <1>6 DEF registryVars, Exclusive, Current, Robbed
  <1> QED
    BY <1>1, <1>2, <1>3, <1>4, <1>5, <1>6

LEMMA StepLock ==
  ASSUME LockInv, [RegistryNext]_registryVars
  PROVE  LockInv'
  <1>1. Inv'
    BY StepInv DEF LockInv
  <1>2. Exclusive' /\ Current'
    BY AcquireLock, LeaveLock, WorkLock, OtherLock DEF RegistryNext, RegistryStep
  <1> QED
    BY <1>1, <1>2 DEF LockInv

LEMMA StepKeeps ==
  ASSUME LockInv, [RegistryNext]_registryVars, NEW e \in registry
  PROVE  \/ \E f \in registry' : f.id = e.id /\ (f.root = e.root \/ f.dir = e.dir)
         \/ \E x \in Procs : mine[x].id = e.id /\ next[x] = Without(registry, e)
                             /\ registry' = next[x]
         \/ \E x \in evicted : stage[x] = "writing" /\ registry' = next[x]
  <1>1. CASE registry' = registry
    BY <1>1
  <1>2. ASSUME NEW x \in Procs, Write(x)
        PROVE  \/ \E f \in registry' : f.id = e.id /\ (f.root = e.root \/ f.dir = e.dir)
               \/ \E y \in Procs : mine[y].id = e.id /\ next[y] = Without(registry, e)
                                   /\ registry' = next[y]
               \/ \E y \in evicted : stage[y] = "writing" /\ registry' = next[y]
    <2>1. registry' = next[x] /\ stage[x] = "writing"
      BY <1>2 DEF Write
    <2>2. CASE MayEnrol(registry, mine[x]) /\ next[x] = With(registry, mine[x])
      <3>1. Unique(registry)
        BY DEF LockInv, Inv, RegistryStaysReadable, Parses, Unique
      <3> QED
        BY <2>1, <2>2, <3>1, WithKeeps
    <2>3. CASE next[x] = Without(registry, mine[x]) /\ mine[x].id = e.id
      <3>1. next[x] = Without(registry, e)
        BY <2>3 DEF Without
      <3> QED
        BY <2>1, <2>3, <3>1
    <2>4. CASE next[x] = Without(registry, mine[x]) /\ mine[x].id # e.id
      <3>1. e \in registry'
        BY <2>1, <2>4 DEF Without
      <3> QED
        BY <3>1
    <2>5. CASE x \in evicted
      BY <2>1, <2>5
    <2> QED
      BY <2>1, <2>2, <2>3, <2>4, <2>5 DEF LockInv, Current
  <1>3. ASSUME NEW x \in Procs,
               \/ \E r \in Roots : StartNaming(x, r) \/ StartEnrol(x, r) \/ StartForget(x, r)
               \/ Publish(x) \/ NotPublished(x) \/ Unlink(x) \/ Acquire(x) \/ GiveUp(x)
               \/ Decide(x) \/ Release(x) \/ Fail(x) \/ Die(x)
        PROVE  registry' = registry
    BY <1>3 DEF StartNaming, StartEnrol, StartForget, Publish, NotPublished, Unlink, Acquire,
                GiveUp, Decide, Release, Fail, Die
  <1>4. ASSUME NEW c \in Clearers, Look(c) \/ LookAgain(c) \/ Clear(c)
        PROVE  registry' = registry
    BY <1>4 DEF Look, LookAgain, Clear
  <1>5. ASSUME NEW r \in Roots, NEW s \in Roots,
               MoveCheckout(r, s) \/ \E d \in Dirs : CopyCheckout(r, s, d)
        PROVE  registry' = registry
    BY <1>5 DEF MoveCheckout, CopyCheckout
  <1>6. UNCHANGED registryVars => registry' = registry
    BY DEF registryVars
  <1> QED
    BY <1>1, <1>2, <1>3, <1>4, <1>5, <1>6 DEF RegistryNext, RegistryStep

\* No enrolment undoes another session's and none goes to a copy, however
\* long a session keeps the lock and however many run unlock-stale: only a call
\* whose lock another session removed, or that took the lock while such a call
\* was at work, may write a registry it did not make of the one it replaces.
THEOREM RegistrationsSurvive == RegistrySpec => RegistrationsKept
  <1>1. RegistryInit => LockInv
    BY InitInv, InitLock DEF LockInv
  <1>2. LockInv /\ [RegistryNext]_registryVars => LockInv'
    BY StepLock
  <1>3. LockInv /\ [RegistryNext]_registryVars =>
          [\A e \in registry :
             \/ \E f \in registry' : f.id = e.id /\ (f.root = e.root \/ f.dir = e.dir)
             \/ \E x \in Procs : mine[x].id = e.id /\ next[x] = Without(registry, e)
                                 /\ registry' = next[x]
             \/ \E x \in evicted : stage[x] = "writing" /\ registry' = next[x]]_registryVars
    BY StepKeeps
  <1> QED
    BY <1>1, <1>2, <1>3, PTL DEF RegistrySpec, RegistrationsKept

---------------------------------------------------------------------------
(* init, rollback and forget: the invariant *)

Running == { "files", "identity", "naming", "enrol", "enrolling", "manifest", "receipt" }

Jobs == [ root: Roots, version: Versions \cup {Null}, stamp: Stamps,
          identity: { "create", "skip", "conflict" } ]

FilesOK ==
    /\ disk \in [Roots -> Dirs \cup {Null}]
    /\ content \in [Dirs -> [Files -> Values]]
    /\ receipt \in [Dirs -> [Files -> Versions \cup {Null}]]
    /\ backup \in [Dirs -> [Stamps -> [Files -> Texts \cup Versions \cup {Null}]]]
    /\ listed \subseteq Dirs \X Stamps
    /\ runs \in 0..MaxRuns
    /\ owed \subseteq Dirs \X Files \X Texts

CommandsOK ==
    /\ at \in [Procs -> Ats]
    /\ job \in [Procs -> Jobs \cup {NoJob}]
    /\ todo \in [Procs -> SUBSET Files]
    /\ doing \in [Procs -> Files \cup {Null}]

\* A command knows its job; no stamp is ahead of the count.
Stamped ==
    \A x \in Procs : at[x] \in Running \cup { "restoring" } =>
        job[x] \in Jobs /\ job[x].stamp <= runs

\* Each run has its own stamp.
Apart ==
    \A x, y \in Procs : at[x] \in Running /\ at[y] \in Running /\ job[x].stamp = job[y].stamp
        => x = y

\* A stamp not yet given has no backup and no manifest, and neither has that
\* of a run that is still replacing files.
Ahead ==
    /\ \A d \in Dirs, s \in Stamps, f \in Files : s > runs => backup[d][s][f] = Null
    /\ \A d \in Dirs, s \in Stamps : << d, s >> \in listed =>
          s <= runs /\ \A x \in Procs : at[x] = "files" => job[x].stamp # s

\* No rollback restores the backup of a run still replacing files.
Closed ==
    \A x, y \in Procs : at[x] = "files" /\ at[y] = "restoring" => job[x].stamp # job[y].stamp

Busy == \A x \in Procs : doing[x] # Null => at[x] = "files" /\ doing[x] \in todo[x]

\* A run's backup of a file is not there, or holds the user's text the file
\* still has.
Saving ==
    \A x \in Procs : at[x] = "files" =>
        /\ Here(x) \in Dirs /\ job[x].version \in Versions
        /\ \A f \in todo[x] :
              IF doing[x] = f
              THEN content[Here(x)][f] \in Texts =>
                       backup[Here(x)][job[x].stamp][f] = content[Here(x)][f]
              ELSE backup[Here(x)][job[x].stamp][f] = Null

\* A backup with v that no rollback under way is done with.
Holds(d, s, f, v) ==
    /\ backup[d][s][f] = v
    /\ \A x \in Procs : at[x] = "restoring" /\ Here(x) = d /\ job[x].stamp = s => f \in todo[x]

Kept == \A d \in Dirs, f \in Files, t \in Texts :
    << d, f, t >> \in owed => \E s \in Stamps : Holds(d, s, f, t)

FilesInv == FilesOK /\ CommandsOK /\ Stamped /\ Apart /\ Ahead /\ Closed /\ Busy /\ Saving /\ Kept

---------------------------------------------------------------------------
(* Files of directories *)

LEMMA PutTwo ==
  ASSUME NEW S, NEW T, NEW V, NEW g \in [S -> [T -> V]], NEW a \in S, NEW b \in T, NEW v \in V
  PROVE  /\ [g EXCEPT ![a][b] = v] \in [S -> [T -> V]]
         /\ [g EXCEPT ![a][b] = v][a][b] = v
         /\ \A c \in S, e \in T : c # a \/ e # b => [g EXCEPT ![a][b] = v][c][e] = g[c][e]
  OBVIOUS

LEMMA PutThree ==
  ASSUME NEW S, NEW T, NEW U, NEW V, NEW g \in [S -> [T -> [U -> V]]],
         NEW a \in S, NEW b \in T, NEW c \in U, NEW v \in V
  PROVE  /\ [g EXCEPT ![a][b][c] = v] \in [S -> [T -> [U -> V]]]
         /\ [g EXCEPT ![a][b][c] = v][a][b][c] = v
         /\ \A i \in S, j \in T, k \in U :
               i # a \/ j # b \/ k # c => [g EXCEPT ![a][b][c] = v][i][j][k] = g[i][j][k]
  OBVIOUS

---------------------------------------------------------------------------
(* Steps that touch no file *)

\* A command stays as it is, or it is where it neither replaces nor restores
\* files, with the job it had if it is running.
Rests(y) ==
    \/ at'[y] = at[y] /\ job'[y] = job[y] /\ todo'[y] = todo[y] /\ doing'[y] = doing[y]
    \/ /\ at'[y] \notin { "files", "restoring" }
       /\ doing'[y] = Null
       /\ at'[y] \in Running => at[y] \in Running /\ job'[y] = job[y]

Quiet ==
    /\ UNCHANGED << disk, content, backup, listed, owed >>
    /\ runs' \in 0..MaxRuns /\ \A s \in Stamps : s <= runs => s <= runs'
    /\ \A s \in Stamps : s > runs' => s > runs
    /\ receipt' \in [Dirs -> [Files -> Versions \cup {Null}]]
    /\ CommandsOK'
    /\ \A y \in Procs : Rests(y)

LEMMA QuietKeeps ==
  ASSUME FilesInv, Quiet
  PROVE  FilesInv'
  <1>1. FilesOK'
    BY DEF FilesInv, FilesOK, Quiet
  <1>2. CommandsOK'
    BY DEF Quiet
  <1>3. Stamped' /\ Apart'
    BY DEF FilesInv, Stamped, Apart, Quiet, Rests, Running, Jobs
  <1>4. Ahead'
    BY DEF FilesInv, Ahead, Quiet, Rests
  <1>5. Closed' /\ Busy'
    BY DEF FilesInv, Closed, Busy, Quiet, Rests
  <1>6. Saving'
    BY DEF FilesInv, Saving, Quiet, Rests, Here
  <1>7. Kept'
    <2>1. SUFFICES ASSUME NEW d \in Dirs, NEW f \in Files, NEW t \in Texts, << d, f, t >> \in owed'
                   PROVE  \E s \in Stamps : Holds(d, s, f, t)'
      BY DEF Kept
    <2>2. PICK s \in Stamps : Holds(d, s, f, t)
      BY <2>1 DEF FilesInv, Kept, Quiet
    <2>3. Holds(d, s, f, t)'
      BY <2>2 DEF Holds, Here, Quiet, Rests
    <2> QED
      BY <2>3
  <1> QED
    BY <1>1, <1>2, <1>3, <1>4, <1>5, <1>6, <1>7 DEF FilesInv

LEMMA DoneRests ==
  ASSUME CommandsOK, NEW x \in Procs, Done(x)
  PROVE  CommandsOK' /\ \A y \in Procs : Rests(y)
  <1>1. /\ at' = [at EXCEPT ![x] = "idle"] /\ job' = [job EXCEPT ![x] = NoJob]
        /\ todo' = [todo EXCEPT ![x] = {}] /\ doing' = [doing EXCEPT ![x] = Null]
    BY DEF Done, GoOn
  <1>2. CommandsOK'
    BY <1>1 DEF CommandsOK, Ats
  <1> QED
    BY <1>1, <1>2 DEF CommandsOK, Rests, Running

\* A run goes on to another part, with its job.
LEMMA GoingRests ==
  ASSUME CommandsOK, NEW x \in Procs, NEW a \in Ats \ { "files", "restoring" },
         GoOn(x, a), UNCHANGED << job, todo, doing >>,
         doing[x] = Null, a \in Running => at[x] \in Running
  PROVE  CommandsOK' /\ \A y \in Procs : Rests(y)
  <1>1. at' = [at EXCEPT ![x] = a]
    BY DEF GoOn
  <1> QED
    BY <1>1 DEF CommandsOK, Rests

LEMMA QuietSteps ==
  ASSUME FilesInv, NEW x \in Procs,
         \/ FilesDone(x) \/ Name(x) \/ Named(x) \/ Enrol(x) \/ Enrolled(x)
         \/ \E r \in Roots : Forget(x, r)
         \/ Forgotten(x) \/ LeaveReceipt(x) \/ Stop(x)
  PROVE  Quiet
  <1> USE DEF FilesInv
  <1>1. ASSUME FilesDone(x) \/ Name(x) \/ Named(x) \/ Enrol(x) \/ Enrolled(x)
        PROVE  Quiet
    <2>1. PICK a \in { "identity", "enrol", "manifest", "naming", "enrolling" } : GoOn(x, a)
      BY <1>1 DEF FilesDone, Name, Named, Enrol, Enrolled
    <2>2. at[x] \in Running /\ doing[x] = Null /\ UNCHANGED << job, todo, doing >>
      BY <1>1 DEF FilesDone, Name, Named, Enrol, Enrolled, Busy, Running
    <2>3. disk' = disk /\ UNCHANGED << files, runs >>
      BY <1>1 DEF FilesDone, Name, Named, Enrol, Enrolled, StartNaming, StartEnrol,
                  registryVars, disks
    <2>6. runs \in 0..MaxRuns
      BY DEF FilesOK
    <2>4. a \in Ats \ { "files", "restoring" }
      BY DEF Ats
    <2>5. CommandsOK' /\ \A y \in Procs : Rests(y)
      BY <2>1, <2>2, <2>4, GoingRests
    <2> QED
      BY <2>3, <2>5, <2>6 DEF Quiet, files, FilesOK
  <1>2. ASSUME NEW r \in Roots, Forget(x, r)
        PROVE  Quiet
    <2>1. GoOn(x, "forgetting") /\ doing[x] = Null /\ UNCHANGED << job, todo, doing >>
      BY <1>2 DEF Forget, Busy
    <2>2. disk' = disk /\ UNCHANGED files /\ runs < MaxRuns /\ runs' = runs + 1
      BY <1>2 DEF Forget, StartForget, disks
    <2>5. /\ runs' \in 0..MaxRuns /\ \A s \in Stamps : s <= runs => s <= runs'
          /\ \A s \in Stamps : s > runs' => s > runs
      BY <2>2, RunsAssumption DEF FilesOK, Stamps
    <2>3. "forgetting" \in Ats \ { "files", "restoring" } /\ "forgetting" \notin Running
      BY DEF Ats, Running
    <2>4. CommandsOK' /\ \A y \in Procs : Rests(y)
      BY <2>1, <2>3, GoingRests
    <2> QED
      BY <2>2, <2>4, <2>5 DEF Quiet, files, FilesOK
  <1>3. ASSUME Forgotten(x) \/ Stop(x)
        PROVE  Quiet
    <2>1. Done(x) /\ UNCHANGED << files, runs >>
      BY <1>3 DEF Forgotten, Stop
    <2>2. disk' = disk
      BY <1>3 DEF Forgotten, Stop, Die, registryVars, disks
    <2> QED
      BY <2>1, <2>2, DoneRests DEF Quiet, files, FilesOK
  <1>4. ASSUME LeaveReceipt(x)
        PROVE  Quiet
    <2>1. Done(x) /\ UNCHANGED << disk, content, backup, listed, owed, runs >>
      BY <1>4 DEF LeaveReceipt, registryVars
    <2>2. at[x] = "receipt"
      BY <1>4 DEF LeaveReceipt
    <2>3. job[x] \in Jobs
      BY <2>2 DEF Stamped, Running
    <2>4. Here(x) \in Dirs \cup {Null} /\ job[x].version \in Versions \cup {Null}
      BY <2>3 DEF Here, FilesOK, Jobs
    <2>5. receipt' \in [Dirs -> [Files -> Versions \cup {Null}]]
      BY <1>4, <2>4 DEF LeaveReceipt, FilesOK
    <2> QED
      BY <2>1, <2>5, DoneRests DEF Quiet, FilesOK
  <1> QED
    BY <1>1, <1>2, <1>3, <1>4

LEMMA RegistryQuiet ==
  ASSUME FilesInv,
         \/ /\ \/ \E x \in Procs : RegistryStep(x)
               \/ \E c \in Clearers : Look(c) \/ LookAgain(c) \/ Clear(c)
            /\ UNCHANGED << files, runs, commands >>
         \/ UNCHANGED vars
  PROVE  Quiet
  <1>1. UNCHANGED << files, runs, commands >>
    BY DEF vars
  <1>2. disk' = disk
    <2>1. ASSUME NEW x \in Procs, RegistryStep(x)
          PROVE  disk' = disk
      BY <2>1 DEF RegistryStep, Publish, NotPublished, Unlink, Acquire, GiveUp, Decide, Write,
                  Release, Fail, disks
    <2>2. ASSUME NEW c \in Clearers, Look(c) \/ LookAgain(c) \/ Clear(c)
          PROVE  disk' = disk
      BY <2>2 DEF Look, LookAgain, Clear, disks
    <2>3. UNCHANGED vars => disk' = disk
      BY DEF vars, registryVars
    <2> QED
      BY <2>1, <2>2, <2>3
  <1> QED
    BY <1>1, <1>2 DEF Quiet, Rests, FilesInv, FilesOK, CommandsOK, files, commands
---------------------------------------------------------------------------
(* Steps that touch files *)

LEMMA StartInitKeeps ==
  ASSUME FilesInv, NEW x \in Procs, NEW r \in Roots, NEW v \in Versions, NEW force \in BOOLEAN,
         StartInit(x, r, v, force)
  PROVE  FilesInv'
  <1> USE DEF FilesInv
  <1> DEFINE new == [ root |-> r, version |-> v, stamp |-> runs + 1,
                      identity |-> IdentityPlan(disk[r], v, force) ]
  <1>1. /\ at[x] = "idle" /\ disk[r] \in Dirs
        /\ runs < MaxRuns /\ runs' = runs + 1
        /\ at' = [at EXCEPT ![x] = "files"]
        /\ todo' = [todo EXCEPT ![x] = ToWrite(disk[r], v, force)]
        /\ UNCHANGED << disk, content, receipt, backup, listed, owed, doing >>
    BY DEF StartInit, GoOn, registryVars, files, FilesOK
  <1>2. job' = [job EXCEPT ![x] = new]
    BY <1>1 DEF StartInit
  <1>3. runs + 1 \in Stamps /\ runs \in Nat
    BY <1>1, RunsAssumption DEF FilesOK, Stamps
  <1>4. IdentityPlan(disk[r], v, force) \in { "create", "skip", "conflict" }
    BY DEF IdentityPlan
  <1>5. new \in Jobs
    BY <1>3, <1>4 DEF Jobs
  <1>6. job'[x] = new /\ new.stamp = runs + 1 /\ new.root = r
    BY <1>2 DEF CommandsOK
  <1> HIDE DEF new
  <1>7. FilesOK'
    BY <1>1, <1>3, RunsAssumption DEF FilesOK, Stamps
  <1>8. CommandsOK'
    BY <1>1, <1>2, <1>5 DEF CommandsOK, Ats, ToWrite
  <1>9. \A y \in Procs : y # x => /\ at'[y] = at[y] /\ job'[y] = job[y]
                                  /\ todo'[y] = todo[y] /\ doing'[y] = doing[y]
    BY <1>1, <1>2 DEF CommandsOK
  <1>10. at'[x] = "files" /\ doing'[x] = Null
    BY <1>1 DEF CommandsOK, Busy
  <1>11. Stamped'
    <2>1. \A n \in Stamps : n <= runs => n <= runs + 1
      BY <1>3 DEF Stamps
    <2>2. \A y \in Procs : job[y] \in Jobs => job[y].stamp \in Stamps
      BY DEF Jobs
    <2>3. runs + 1 <= runs + 1
      BY <1>3
    <2> QED
      BY <1>1, <1>5, <1>6, <1>9, <2>1, <2>2, <2>3 DEF Stamped
  <1>12. \A n \in Stamps : n <= runs => n # runs + 1
    BY <1>3 DEF Stamps
  <1>13. \A y \in Procs : at[y] \in Running \cup { "restoring" } => job[y].stamp # runs + 1
    <2>1. \A y \in Procs : job[y] \in Jobs => job[y].stamp \in Stamps
      BY DEF Jobs
    <2> QED
      BY <1>12, <2>1 DEF Stamped
  <1>14. Apart' /\ Closed'
    BY <1>6, <1>9, <1>10, <1>13 DEF Apart, Closed, Running
  <1>15. Ahead'
    <2>1. \A n \in Stamps : n > runs + 1 => n > runs
      BY <1>3 DEF Stamps
    <2>2. \A n \in Stamps : n <= runs => n <= runs + 1
      BY <1>3 DEF Stamps
    <2> QED
      BY <1>1, <1>6, <1>9, <1>10, <1>12, <2>1, <2>2 DEF Ahead
  <1>16. Busy'
    BY <1>1, <1>9, <1>10 DEF Busy
  <1>17. Saving'
    <2>1. ASSUME NEW f \in todo'[x]
          PROVE  doing'[x] # f /\ backup'[Here(x)'][job'[x].stamp][f] = Null
      <3>1. f \in Files
        BY <2>1, <1>8 DEF CommandsOK
      <3>2. runs + 1 > runs
        BY <1>3
      <3> QED
        BY <1>1, <1>3, <1>6, <1>10, <3>1, <3>2, FileAssumption DEF Here, Ahead
    <2>2. Here(x)' \in Dirs /\ job'[x].version \in Versions
      BY <1>1, <1>6 DEF Here, new
    <2> QED
      BY <1>1, <1>9, <2>1, <2>2 DEF Saving, Here
  <1>18. Kept'
    BY <1>1, <1>9, <1>10 DEF Kept, Holds, Here
  <1> QED
    BY <1>7, <1>8, <1>11, <1>14, <1>15, <1>16, <1>17, <1>18

LEMMA SaveCopyKeeps ==
  ASSUME FilesInv, NEW x \in Procs, NEW f \in todo[x], SaveCopy(x, f)
  PROVE  FilesInv'
  <1> USE DEF FilesInv
  <1> DEFINE d == Here(x)
             s == job[x].stamp
  <1>1. /\ at[x] = "files" /\ doing[x] = Null /\ NeedsCopy(x, d, f)
        /\ backup' = [backup EXCEPT ![d][s][f] = content[d][f]]
        /\ doing' = [doing EXCEPT ![x] = f]
        /\ UNCHANGED << disk, content, receipt, listed, owed, runs, at, job, todo >>
    BY DEF SaveCopy, registryVars
  <1>2. d \in Dirs /\ s \in Stamps /\ f \in Files
    BY <1>1 DEF Saving, Stamped, Running, Jobs, CommandsOK
  <1>3. backup[d][s][f] = Null
    BY <1>1, <1>2, FileAssumption DEF Saving
  <1>4. s <= runs
    BY <1>1 DEF Stamped, Running
  <1>5. content[d][f] \in Texts \cup Versions
    BY <1>1, <1>2 DEF NeedsCopy, FilesOK, Values
  <1> HIDE DEF d, s
  <1>6. /\ backup' \in [Dirs -> [Stamps -> [Files -> Texts \cup Versions \cup {Null}]]]
        /\ backup'[d][s][f] = content[d][f]
        /\ \A i \in Dirs, j \in Stamps, k \in Files :
              i # d \/ j # s \/ k # f => backup'[i][j][k] = backup[i][j][k]
    <2>1. content[d][f] \in Texts \cup Versions \cup {Null}
      BY <1>5
    <2>2. backup \in [Dirs -> [Stamps -> [Files -> Texts \cup Versions \cup {Null}]]]
      BY DEF FilesOK
    <2> QED
      BY <1>1, <1>2, <2>1, <2>2, PutThree
  <1>7. FilesOK' /\ CommandsOK'
    BY <1>1, <1>2, <1>6 DEF FilesOK, CommandsOK
  <1>8. Stamped' /\ Apart' /\ Closed' /\ Busy'
    BY <1>1, <1>2 DEF Stamped, Apart, Closed, Busy, CommandsOK
  <1>9. Ahead'
    <2>1. \A n \in Stamps : n > runs => n # s
      BY <1>2, <1>4 DEF Stamps, FilesOK
    <2> QED
      BY <1>1, <1>2, <1>6, <2>1 DEF Ahead
  <1>10. Saving'
    <2>1. ASSUME NEW y \in Procs, at[y] = "files", y # x
          PROVE  job[y].stamp # s /\ job[y].stamp \in Stamps /\ Here(y) \in Dirs
      BY <1>1, <2>1 DEF Apart, Running, Stamped, Jobs, Saving, s
    <2>2. \A y \in Procs : y # x => doing'[y] = doing[y]
      BY <1>1 DEF CommandsOK
    <2>3. ASSUME NEW y \in Procs, at[y] = "files", y # x, NEW k \in todo[y]
          PROVE  IF doing'[y] = k
                 THEN content'[Here(y)'][k] \in Texts =>
                        backup'[Here(y)'][job'[y].stamp][k] = content'[Here(y)'][k]
                 ELSE backup'[Here(y)'][job'[y].stamp][k] = Null
      <3>1. k \in Files
        BY <2>3 DEF CommandsOK
      <3>2. backup'[Here(y)][job[y].stamp][k] = backup[Here(y)][job[y].stamp][k]
        <4>1. job[y].stamp # s /\ job[y].stamp \in Stamps /\ Here(y) \in Dirs
          BY <2>1, <2>3
        <4> QED
          BY <1>6, <3>1, <4>1
      <3>3. IF doing[y] = k
            THEN content[Here(y)][k] \in Texts =>
                   backup[Here(y)][job[y].stamp][k] = content[Here(y)][k]
            ELSE backup[Here(y)][job[y].stamp][k] = Null
        BY <2>3 DEF Saving
      <3>4. Here(y)' = Here(y) /\ content' = content /\ job' = job /\ doing'[y] = doing[y]
        BY <1>1, <2>2, <2>3 DEF Here
      <3> QED
        BY <3>2, <3>3, <3>4
    <2>4. ASSUME NEW k \in todo[x]
          PROVE  IF doing'[x] = k
                 THEN content'[Here(x)'][k] \in Texts =>
                        backup'[Here(x)'][job'[x].stamp][k] = content'[Here(x)'][k]
                 ELSE backup'[Here(x)'][job'[x].stamp][k] = Null
      <3>1. k \in Files /\ doing'[x] = f
        BY <1>1, <2>4 DEF CommandsOK
      <3>2. Here(x)' = d /\ job'[x].stamp = s /\ content' = content
        BY <1>1 DEF Here, d, s
      <3>3. CASE k = f
        BY <1>6, <3>1, <3>2, <3>3
      <3>4. CASE k # f
        <4>1. backup[d][s][k] = Null
          BY <1>1, <2>4, <3>1, FileAssumption DEF Saving, d, s
        <4> QED
          BY <1>2, <1>6, <3>1, <3>2, <3>4, <4>1
      <3> QED
        BY <3>3, <3>4
    <2>5. \A y \in Procs : at[y] = "files" => Here(y)' \in Dirs /\ job[y].version \in Versions
      BY <1>1 DEF Saving, Here
    <2> QED
      BY <1>1, <2>3, <2>4, <2>5 DEF Saving
  <1>11. Kept'
    <2>1. SUFFICES ASSUME NEW e \in Dirs, NEW k \in Files, NEW t \in Texts, << e, k, t >> \in owed'
                   PROVE  \E n \in Stamps : Holds(e, n, k, t)'
      BY DEF Kept
    <2>2. PICK n \in Stamps : Holds(e, n, k, t)
      BY <1>1, <2>1 DEF Kept
    <2>3. e # d \/ n # s \/ k # f
      BY <1>3, <2>2, TextAssumption DEF Holds
    <2>4. Holds(e, n, k, t)'
      BY <1>1, <1>6, <2>2, <2>3 DEF Holds, Here
    <2> QED
      BY <2>4
  <1> QED
    BY <1>7, <1>8, <1>9, <1>10, <1>11

LEMMA PutFileKeeps ==
  ASSUME FilesInv, NEW x \in Procs, NEW f \in todo[x], PutFile(x, f)
  PROVE  FilesInv'
  <1> USE DEF FilesInv
  <1> DEFINE d == Here(x)
             s == job[x].stamp
             v == job[x].version
  <1>1. /\ at[x] = "files"
        /\ todo' = [todo EXCEPT ![x] = @ \ {f}]
        /\ doing' = [doing EXCEPT ![x] = Null]
        /\ UNCHANGED << disk, receipt, backup, listed, runs, at, job >>
    BY DEF PutFile, registryVars
  <1>2. d \in Dirs /\ s \in Stamps /\ f \in Files /\ v \in Versions
    BY <1>1 DEF Saving, Stamped, Running, Jobs, CommandsOK
  <1>3. d # Null
    BY <1>2, RegistryAssumption
  <1>4. /\ doing[x] = f \/ (doing[x] = Null /\ ~NeedsCopy(x, d, f))
        /\ content' = [content EXCEPT ![d][f] = v]
        /\ owed' = owed \cup ({ << d, f, content[d][f] >> } \cap (Dirs \X Files \X Texts))
    BY <1>3 DEF PutFile
  <1>5. content[d][f] \in Texts =>
          backup[d][s][f] = content[d][f]
    <2>1. CASE doing[x] = f
      BY <1>1, <2>1 DEF Saving
    <2>2. CASE ~NeedsCopy(x, d, f)
      BY <1>2, <2>2, FileAssumption, TextAssumption DEF NeedsCopy
    <2> QED
      BY <1>4, <2>1, <2>2
  <1>6. v \notin Texts
    BY <1>2, TextAssumption
  <1> HIDE DEF d, s, v
  <1>7. /\ content' \in [Dirs -> [Files -> Values]]
        /\ content'[d][f] = v
        /\ \A i \in Dirs, k \in Files : i # d \/ k # f => content'[i][k] = content[i][k]
    <2>1. content \in [Dirs -> [Files -> Values]] /\ v \in Values
      BY <1>2 DEF FilesOK, Values
    <2> QED
      BY <1>2, <1>4, <2>1, PutTwo
  <1>8. FilesOK' /\ CommandsOK'
    BY <1>1, <1>4, <1>7 DEF FilesOK, CommandsOK
  <1>9. Stamped' /\ Apart' /\ Closed' /\ Ahead'
    BY <1>1 DEF Stamped, Apart, Closed, Ahead
  <1>10. \A y \in Procs : y # x => todo'[y] = todo[y] /\ doing'[y] = doing[y]
    BY <1>1 DEF CommandsOK
  <1>11. todo'[x] = todo[x] \ {f} /\ doing'[x] = Null
    BY <1>1 DEF CommandsOK
  <1>12. Busy'
    BY <1>1, <1>10, <1>11 DEF Busy
  <1>13. Saving'
    <2>1. ASSUME NEW y \in Procs, at[y] = "files", NEW k \in todo'[y]
          PROVE  IF doing'[y] = k
                 THEN content'[Here(y)][k] \in Texts =>
                        backup[Here(y)][job[y].stamp][k] = content'[Here(y)][k]
                 ELSE backup[Here(y)][job[y].stamp][k] = Null
      <3>1. k \in todo[y] /\ k \in Files /\ Here(y) \in Dirs
        BY <1>10, <1>11, <2>1 DEF CommandsOK, Saving
      <3>2. CASE y = x
        <4>1. k # f /\ k # Null /\ doing[x] # k
          BY <1>4, <1>11, <2>1, <3>1, <3>2, FileAssumption
        <4>2. backup[Here(x)][job[x].stamp][k] = Null
          BY <1>1, <3>1, <3>2, <4>1 DEF Saving
        <4> QED
          BY <1>11, <3>2, <4>1, <4>2
      <3>3. CASE y # x
        <4>1. content'[Here(y)][k] \in Texts => content'[Here(y)][k] = content[Here(y)][k]
          BY <1>6, <1>7, <3>1
        <4> QED
          BY <1>10, <2>1, <3>1, <3>3, <4>1 DEF Saving
      <3> QED
        BY <3>2, <3>3
    <2> QED
      BY <1>1, <2>1 DEF Saving, Here
  <1>14. Kept'
    <2>1. SUFFICES ASSUME NEW e \in Dirs, NEW k \in Files, NEW t \in Texts, << e, k, t >> \in owed'
                   PROVE  \E n \in Stamps : Holds(e, n, k, t)'
      BY DEF Kept
    <2>2. ASSUME NEW y \in Procs, at[y] = "restoring"
          PROVE  todo'[y] = todo[y] /\ job[y].stamp # s
      BY <1>1, <1>10, <2>2 DEF Closed, s
    <2>3. CASE << e, k, t >> \in owed
      <3>1. PICK n \in Stamps : Holds(e, n, k, t)
        BY <2>3 DEF Kept
      <3>2. Holds(e, n, k, t)'
        BY <1>1, <2>2, <3>1 DEF Holds, Here
      <3> QED
        BY <3>2
    <2>4. CASE << e, k, t >> \notin owed
      <3>1. e = d /\ k = f /\ t = content[d][f]
        BY <1>4, <2>1, <2>4
      <3>2. PICK n \in Stamps : n = s
        BY <1>2
      <3>3. Holds(e, n, k, t)'
        BY <1>1, <1>5, <2>1, <2>2, <3>1, <3>2 DEF Holds, Here
      <3> QED
        BY <3>3
    <2> QED
      BY <2>3, <2>4
  <1> QED
    BY <1>8, <1>9, <1>12, <1>13, <1>14

LEMMA EditFileKeeps ==
  ASSUME FilesInv, NEW d \in Dirs, NEW f \in Files, NEW t \in Texts, EditFile(d, f, t)
  PROVE  FilesInv'
  <1> USE DEF FilesInv
  <1>1. /\ Unattended(f)
        /\ content' = [content EXCEPT ![d][f] = t]
        /\ owed' \subseteq owed
        /\ UNCHANGED << disk, receipt, backup, listed, runs, at, job, todo, doing >>
    BY DEF EditFile, registryVars, commands
  <1>2. /\ content' \in [Dirs -> [Files -> Values]]
        /\ \A i \in Dirs, k \in Files : k # f => content'[i][k] = content[i][k]
    <2>1. content \in [Dirs -> [Files -> Values]] /\ t \in Values
      BY DEF FilesOK, Values
    <2> QED
      BY <1>1, <2>1, PutTwo
  <1>3. FilesOK' /\ CommandsOK'
    BY <1>1, <1>2 DEF FilesOK, CommandsOK
  <1>4. Stamped' /\ Apart' /\ Closed' /\ Ahead' /\ Busy'
    BY <1>1 DEF Stamped, Apart, Closed, Ahead, Busy
  <1>5. Saving'
    <2>1. ASSUME NEW y \in Procs, at[y] = "files", NEW k \in todo[y], doing[y] = k
          PROVE  content'[Here(y)][k] = content[Here(y)][k]
      <3>1. k \in Files /\ k # f /\ Here(y) \in Dirs
        BY <1>1, <2>1 DEF CommandsOK, Unattended, Saving
      <3> QED
        BY <1>2, <3>1
    <2> QED
      BY <1>1, <2>1 DEF Saving, Here
  <1>6. Kept'
    BY <1>1 DEF Kept, Holds, Here
  <1> QED
    BY <1>3, <1>4, <1>5, <1>6

LEMMA RestoreKeeps ==
  ASSUME FilesInv, NEW x \in Procs, NEW f \in todo[x], Restore(x, f)
  PROVE  FilesInv'
  <1> USE DEF FilesInv
  <1> DEFINE d == Here(x)
             s == job[x].stamp
             old == backup[d][s][f]
  <1>1. /\ at[x] = "restoring" /\ d # Null /\ old # Null /\ Unattended(f)
        /\ content' = [content EXCEPT ![d][f] = old]
        /\ owed' = owed \ { << d, f, old >> }
        /\ todo' = [todo EXCEPT ![x] = @ \ {f}]
        /\ UNCHANGED << disk, receipt, backup, listed, runs, at, job, doing >>
    BY DEF Restore, StillSaved, registryVars
  <1>2. d \in Dirs /\ s \in Stamps /\ f \in Files
    BY <1>1 DEF Stamped, Jobs, CommandsOK, FilesOK, Here
  <1>3. old \in Values
    BY <1>1, <1>2 DEF FilesOK, Values
  <1> HIDE DEF d, s, old
  <1>5. /\ content' \in [Dirs -> [Files -> Values]]
        /\ \A i \in Dirs, k \in Files : k # f => content'[i][k] = content[i][k]
    <2>1. content \in [Dirs -> [Files -> Values]]
      BY DEF FilesOK
    <2> QED
      BY <1>1, <1>2, <1>3, <2>1, PutTwo
  <1>6. FilesOK' /\ CommandsOK'
    BY <1>1, <1>5 DEF FilesOK, CommandsOK
  <1>7. Stamped' /\ Apart' /\ Closed' /\ Ahead'
    BY <1>1 DEF Stamped, Apart, Closed, Ahead
  <1>8. \A y \in Procs : y # x => todo'[y] = todo[y]
    BY <1>1 DEF CommandsOK
  <1>9. todo'[x] = todo[x] \ {f}
    BY <1>1 DEF CommandsOK
  <1>10. Busy'
    BY <1>1, <1>8 DEF Busy
  <1>11. Saving'
    <2>1. ASSUME NEW y \in Procs, at[y] = "files", NEW k \in todo[y], doing[y] = k
          PROVE  content'[Here(y)][k] = content[Here(y)][k]
      <3>1. k \in Files /\ k # f /\ Here(y) \in Dirs
        BY <1>1, <2>1 DEF CommandsOK, Unattended, Saving
      <3> QED
        BY <1>5, <3>1
    <2>2. \A y \in Procs : at[y] = "files" => y # x
      BY <1>1
    <2> QED
      BY <1>1, <1>8, <2>1, <2>2 DEF Saving, Here
  <1>12. Kept'
    <2>1. SUFFICES ASSUME NEW e \in Dirs, NEW k \in Files, NEW t \in Texts, << e, k, t >> \in owed'
                   PROVE  \E n \in Stamps : Holds(e, n, k, t)'
      BY DEF Kept
    <2>2. PICK n \in Stamps : Holds(e, n, k, t)
      BY <1>1, <2>1 DEF Kept
    <2>3. ~(e = d /\ n = s /\ k = f)
      BY <1>1, <2>1, <2>2 DEF Holds, old
    <2>4. ASSUME NEW y \in Procs, at[y] = "restoring", Here(y) = e, job[y].stamp = n
          PROVE  k \in todo'[y]
      <3>1. k \in todo[y]
        BY <2>2, <2>4 DEF Holds
      <3> QED
        BY <1>8, <1>9, <2>3, <2>4, <3>1 DEF d, s
    <2>5. Holds(e, n, k, t)'
      BY <1>1, <2>2, <2>4 DEF Holds, Here
    <2> QED
      BY <2>5
  <1> QED
    BY <1>6, <1>7, <1>10, <1>11, <1>12

LEMMA DropBackupKeeps ==
  ASSUME FilesInv, NEW x \in Procs, DropBackup(x)
  PROVE  FilesInv'
  <1> USE DEF FilesInv
  <1> DEFINE d == Here(x)
             s == job[x].stamp
  <1>1. /\ at[x] = "restoring" /\ todo[x] = {} /\ Done(x)
        /\ UNCHANGED << disk, content, receipt, owed, runs >>
    BY DEF DropBackup, registryVars
  <1>2. CommandsOK' /\ \A y \in Procs : Rests(y)
    BY <1>1, DoneRests
  <1>3. CASE d = Null
    <2>1. Quiet
      BY <1>1, <1>2, <1>3 DEF DropBackup, Quiet, FilesOK
    <2> QED
      BY <2>1, QuietKeeps
  <1>4. CASE d # Null
    <2>1. d \in Dirs /\ s \in Stamps
      BY <1>1, <1>4 DEF Stamped, Jobs, FilesOK, Here
    <2>2. /\ backup' = [backup EXCEPT ![d][s] = NoBackup]
          /\ listed' \subseteq listed
      BY <1>4 DEF DropBackup
    <2>3. NoBackup \in [Files -> Texts \cup Versions \cup {Null}] /\ \A k \in Files : NoBackup[k] = Null
      BY DEF NoBackup
    <2> HIDE DEF d, s
    <2>4. /\ backup' \in [Dirs -> [Stamps -> [Files -> Texts \cup Versions \cup {Null}]]]
          /\ \A i \in Dirs, j \in Stamps, k \in Files :
                /\ i # d \/ j # s => backup'[i][j][k] = backup[i][j][k]
                /\ i = d /\ j = s => backup'[i][j][k] = Null
      <3>1. backup \in [Dirs -> [Stamps -> [Files -> Texts \cup Versions \cup {Null}]]]
        BY DEF FilesOK
      <3>2. /\ backup' \in [Dirs -> [Stamps -> [Files -> Texts \cup Versions \cup {Null}]]]
            /\ backup'[d][s] = NoBackup
            /\ \A i \in Dirs, j \in Stamps : i # d \/ j # s => backup'[i][j] = backup[i][j]
        BY <2>1, <2>2, <2>3, <3>1, PutTwo
      <3> QED
        BY <2>3, <3>2
    <2>5. FilesOK'
      BY <1>1, <2>2, <2>4 DEF FilesOK
    <2>6. Stamped' /\ Apart'
      BY <1>1, <1>2 DEF Stamped, Apart, Rests, Running
    <2>7. Ahead'
      BY <1>1, <1>2, <2>2, <2>4 DEF Ahead, Rests
    <2>8. Closed' /\ Busy'
      BY <1>2 DEF Closed, Busy, Rests
    <2>9. Saving'
      <3>1. ASSUME NEW y \in Procs, at'[y] = "files"
            PROVE  /\ at[y] = "files" /\ job'[y] = job[y] /\ todo'[y] = todo[y]
                   /\ doing'[y] = doing[y] /\ Here(y)' = Here(y)
        BY <1>1, <1>2, <3>1 DEF Rests, Here
      <3>2. ASSUME NEW y \in Procs, at'[y] = "files", NEW k \in todo[y]
            PROVE  backup'[Here(y)][job[y].stamp][k] = backup[Here(y)][job[y].stamp][k]
        <4>1. at[y] = "files"
          BY <3>1, <3>2
        <4>2. Here(y) \in Dirs /\ k \in Files
          BY <3>2, <4>1 DEF Saving, CommandsOK
        <4>3. job[y].stamp \in Stamps
          BY <4>1 DEF Stamped, Jobs, Running
        <4>4. job[y].stamp # s
          BY <1>1, <4>1 DEF Closed, s
        <4> QED
          BY <2>4, <4>2, <4>3, <4>4
      <3> QED
        BY <1>1, <3>1, <3>2 DEF Saving
    <2>10. Kept'
      <3>1. SUFFICES ASSUME NEW e \in Dirs, NEW k \in Files, NEW t \in Texts, << e, k, t >> \in owed'
                     PROVE  \E n \in Stamps : Holds(e, n, k, t)'
        BY DEF Kept
      <3>2. PICK n \in Stamps : Holds(e, n, k, t)
        BY <1>1, <3>1 DEF Kept
      <3>3. e # d \/ n # s
        BY <1>1, <3>2 DEF Holds, d, s
      <3>4. Holds(e, n, k, t)'
        BY <1>1, <1>2, <2>4, <3>2, <3>3 DEF Holds, Here, Rests
      <3> QED
        BY <3>4
    <2> QED
      BY <1>2, <2>5, <2>6, <2>7, <2>8, <2>9, <2>10
  <1> QED
    BY <1>3, <1>4

LEMMA ListBackupsKeeps ==
  ASSUME FilesInv, NEW x \in Procs, ListBackups(x)
  PROVE  FilesInv'
  <1> USE DEF FilesInv
  <1> DEFINE d == Here(x)
             s == job[x].stamp
  <1>1. /\ at[x] = "manifest" /\ GoOn(x, "receipt")
        /\ UNCHANGED << disk, content, receipt, backup, owed, runs, job, todo, doing >>
    BY DEF ListBackups, registryVars
  <1>2. "receipt" \in Ats \ { "files", "restoring" } /\ at[x] \in Running /\ doing[x] = Null
    BY <1>1 DEF Ats, Running, Busy
  <1>3. CommandsOK' /\ \A y \in Procs : Rests(y)
    BY <1>1, <1>2, GoingRests
  <1>4. s \in Stamps /\ s <= runs
    BY <1>2 DEF Stamped, Jobs
  <1>5. listed' = listed \/ (d \in Dirs /\ listed' = listed \cup { << d, s >> })
    <2>1. d \in Dirs \cup {Null}
      BY <1>2 DEF Stamped, Jobs, FilesOK, Here
    <2> QED
      BY <2>1 DEF ListBackups
  <1>6. FilesOK'
    BY <1>1, <1>4, <1>5 DEF FilesOK
  <1>7. Stamped' /\ Apart' /\ Closed' /\ Busy'
    BY <1>1, <1>3 DEF Stamped, Apart, Closed, Busy, Rests, Running
  <1>8. \A y \in Procs : at[y] = "files" => job[y].stamp # s
    BY <1>1, <1>2 DEF Apart, Running
  <1> HIDE DEF d, s
  <1>9. Ahead'
    BY <1>1, <1>3, <1>4, <1>5, <1>8 DEF Ahead, Rests
  <1>10. Saving'
    BY <1>1, <1>3 DEF Saving, Rests, Here
  <1>11. Kept'
    BY <1>1, <1>3 DEF Kept, Holds, Rests, Here
  <1> QED
    BY <1>3, <1>6, <1>7, <1>9, <1>10, <1>11

LEMMA StartRollbackKeeps ==
  ASSUME FilesInv, NEW x \in Procs, NEW r \in Roots, NEW s \in Stamps, StartRollback(x, r, s)
  PROVE  FilesInv'
  <1> USE DEF FilesInv
  <1> DEFINE d == disk[r]
             new == [ root |-> r, version |-> Null, stamp |-> s, identity |-> "skip" ]
  <1>1. /\ at[x] = "idle" /\ d \in Dirs /\ << d, s >> \in listed
        /\ at' = [at EXCEPT ![x] = "restoring"]
        /\ job' = [job EXCEPT ![x] = new]
        /\ todo' = [todo EXCEPT ![x] = Saved(d, s)]
        /\ UNCHANGED << disk, content, receipt, backup, listed, owed, runs, doing >>
    BY DEF StartRollback, HasManifest, GoOn, registryVars, files, FilesOK
  <1>2. new \in Jobs /\ new.stamp = s /\ new.root = r
    BY DEF Jobs
  <1>3. s <= runs /\ \A y \in Procs : at[y] = "files" => job[y].stamp # s
    BY <1>1 DEF Ahead
  <1>4. Saved(d, s) \subseteq Files
    BY DEF Saved
  <1> HIDE DEF new
  <1>5. FilesOK'
    BY <1>1 DEF FilesOK
  <1>6. CommandsOK'
    BY <1>1, <1>2, <1>4 DEF CommandsOK, Ats
  <1>7. \A y \in Procs : y # x => /\ at'[y] = at[y] /\ job'[y] = job[y]
                                  /\ todo'[y] = todo[y] /\ doing'[y] = doing[y]
    BY <1>1 DEF CommandsOK
  <1>8. /\ at'[x] = "restoring" /\ job'[x] = new /\ todo'[x] = Saved(d, s)
        /\ doing'[x] = Null
    BY <1>1 DEF CommandsOK, Busy
  <1>9. Stamped' /\ Apart' /\ Closed' /\ Busy'
    BY <1>1, <1>2, <1>3, <1>7, <1>8 DEF Stamped, Apart, Closed, Busy, Running
  <1>10. Ahead'
    BY <1>1, <1>7, <1>8 DEF Ahead
  <1>11. Saving'
    BY <1>1, <1>7, <1>8 DEF Saving, Here
  <1>12. Kept'
    <2>1. SUFFICES ASSUME NEW e \in Dirs, NEW k \in Files, NEW t \in Texts, << e, k, t >> \in owed'
                   PROVE  \E n \in Stamps : Holds(e, n, k, t)'
      BY DEF Kept
    <2>2. PICK n \in Stamps : Holds(e, n, k, t)
      BY <1>1, <2>1 DEF Kept
    <2>3. e = d /\ n = s => k \in Saved(d, s)
      BY <2>2, TextAssumption DEF Holds, Saved
    <2>4. Holds(e, n, k, t)'
      BY <1>1, <1>2, <1>7, <1>8, <2>2, <2>3 DEF Holds, Here
    <2> QED
      BY <2>4
  <1> QED
    BY <1>5, <1>6, <1>9, <1>10, <1>11, <1>12

---------------------------------------------------------------------------
(* Checkouts that are moved or copied while nobody writes their files *)

LEMMA MoveKeeps ==
  ASSUME FilesInv, Still, NEW r \in Roots, NEW t \in Roots, MoveCheckout(r, t),
         UNCHANGED << files, runs, commands >>
  PROVE  FilesInv'
  <1> USE DEF FilesInv
  <1>1. /\ UNCHANGED << content, receipt, backup, listed, owed, runs, at, job, todo, doing >>
        /\ disk' = [disk EXCEPT ![t] = disk[r], ![r] = Null]
    BY DEF MoveCheckout, files, commands
  <1>2. FilesOK' /\ CommandsOK'
    BY <1>1 DEF FilesOK, CommandsOK
  <1>3. Stamped' /\ Apart' /\ Ahead' /\ Closed' /\ Busy'
    BY <1>1 DEF Stamped, Apart, Ahead, Closed, Busy
  <1>4. Saving' /\ Kept'
    BY <1>1 DEF Saving, Kept, Holds, Still
  <1> QED
    BY <1>2, <1>3, <1>4

LEMMA CopyKeeps ==
  ASSUME FilesInv, Still, NEW r \in Roots, NEW q \in Roots, NEW d \in Dirs,
         CopyCheckout(r, q, d), Copied(disk[r], d), UNCHANGED << runs, commands >>
  PROVE  FilesInv'
  <1> USE DEF FilesInv
  <1> DEFINE e == disk[r]
  <1>1. e \in Dirs /\ e # d
    BY DEF CopyCheckout, FilesOK
  <1>2. /\ disk' = [disk EXCEPT ![q] = d]
        /\ UNCHANGED << runs, at, job, todo, doing >>
        /\ content' = [content EXCEPT ![d] = content[e]]
        /\ receipt' = [receipt EXCEPT ![d] = receipt[e]]
        /\ backup' = [backup EXCEPT ![d] = backup[e]]
    BY DEF CopyCheckout, Copied, commands
  <1>3. /\ listed' = (listed \ ({d} \X Stamps)) \cup { << d, s >> : s \in { u \in Stamps : << e, u >> \in listed } }
        /\ owed' = { o \in owed : o[1] # d } \cup { << d, o[2], o[3] >> : o \in { p \in owed : p[1] = e } }
    BY DEF Copied
  <1> HIDE DEF e
  <1>4. listed' \subseteq Dirs \X Stamps
    <2>1. SUFFICES ASSUME NEW p \in listed'
                   PROVE  p \in Dirs \X Stamps
      OBVIOUS
    <2>2. p \in listed \/ \E s \in Stamps : p = << d, s >>
      BY <1>3
    <2> QED
      BY <2>2 DEF FilesOK
  <1>5. owed' \subseteq Dirs \X Files \X Texts
    <2>1. \A o \in owed : o[2] \in Files /\ o[3] \in Texts
      BY DEF FilesOK
    <2> QED
      BY <1>3, <2>1 DEF FilesOK
  <1>6. FilesOK' /\ CommandsOK'
    BY <1>1, <1>2, <1>4, <1>5 DEF FilesOK, CommandsOK
  <1>7. Stamped' /\ Apart' /\ Closed' /\ Busy'
    BY <1>2 DEF Stamped, Apart, Closed, Busy
  <1>8. \A i \in Dirs : backup'[i] = IF i = d THEN backup[e] ELSE backup[i]
    BY <1>2 DEF FilesOK
  <1>9. Ahead'
    <2>1. \A i \in Dirs, s \in Stamps, f \in Files : s > runs => backup'[i][s][f] = Null
      BY <1>1, <1>8 DEF Ahead
    <2>2. \A i \in Dirs, s \in Stamps : << i, s >> \in listed' => \E j \in Dirs : << j, s >> \in listed
      BY <1>1, <1>3
    <2> QED
      BY <1>2, <2>1, <2>2 DEF Ahead
  <1>10. Saving'
    BY <1>2 DEF Saving, Still
  <1>11. Kept'
    <2>1. SUFFICES ASSUME NEW i \in Dirs, NEW f \in Files, NEW t \in Texts, << i, f, t >> \in owed'
                   PROVE  \E n \in Stamps : Holds(i, n, f, t)'
      BY DEF Kept
    <2>2. PICK j \in Dirs : << j, f, t >> \in owed /\ j = IF i = d THEN e ELSE i
      <3>1. CASE i # d
        BY <1>3, <2>1, <3>1
      <3>2. CASE i = d
        <4>1. PICK o \in owed : o[1] = e /\ << i, f, t >> = << d, o[2], o[3] >>
          BY <1>3, <2>1, <3>2
        <4>2. o = << e, f, t >>
          BY <4>1 DEF FilesOK
        <4> QED
          BY <1>1, <3>2, <4>2
      <3> QED
        BY <3>1, <3>2
    <2>3. PICK n \in Stamps : Holds(j, n, f, t)
      BY <2>2 DEF Kept
    <2>4. Holds(i, n, f, t)'
      BY <1>2, <1>8, <2>2, <2>3 DEF Holds, Still
    <2> QED
      BY <2>4
  <1> QED
    BY <1>6, <1>7, <1>9, <1>10, <1>11

---------------------------------------------------------------------------

LEMMA InitFiles ==
  ASSUME Init
  PROVE  FilesInv
  <1> USE DEF Init
  <1>1. FilesOK
    <2>1. content \in [Dirs -> [Files -> Values]]
      BY DEF Values
    <2>2. backup \in [Dirs -> [Stamps -> [Files -> Texts \cup Versions \cup {Null}]]]
      BY DEF NoBackup
    <2>3. receipt \in [Dirs -> [Files -> Versions \cup {Null}]]
      BY DEF NoBackup
    <2>4. runs \in 0..MaxRuns
      BY RunsAssumption
    <2> QED
      BY <2>1, <2>2, <2>3, <2>4 DEF FilesOK, RegistryInit
  <1>2. CommandsOK
    BY DEF CommandsOK, Ats
  <1>3. Stamped /\ Apart /\ Closed /\ Busy /\ Saving
    BY DEF Stamped, Apart, Closed, Busy, Saving, Running
  <1>4. Ahead /\ Kept
    BY DEF Ahead, Kept, NoBackup
  <1> QED
    BY <1>1, <1>2, <1>3, <1>4 DEF FilesInv

LEMMA StepFiles ==
  ASSUME FilesInv, [Next]_vars
  PROVE  FilesInv'
  <1>1. ASSUME NEW x \in Procs, NEW r \in Roots,
               \/ \E v \in Versions, force \in BOOLEAN : StartInit(x, r, v, force)
               \/ \E s \in Stamps : StartRollback(x, r, s)
        PROVE  FilesInv'
    BY <1>1, StartInitKeeps, StartRollbackKeeps
  <1>2. ASSUME NEW x \in Procs, NEW f \in todo[x],
               SaveCopy(x, f) \/ PutFile(x, f) \/ Restore(x, f)
        PROVE  FilesInv'
    BY <1>2, SaveCopyKeeps, PutFileKeeps, RestoreKeeps
  <1>3. ASSUME NEW x \in Procs, ListBackups(x) \/ DropBackup(x)
        PROVE  FilesInv'
    BY <1>3, ListBackupsKeeps, DropBackupKeeps
  <1>4. ASSUME NEW x \in Procs,
               \/ FilesDone(x) \/ Name(x) \/ Named(x) \/ Enrol(x) \/ Enrolled(x)
               \/ \E r \in Roots : Forget(x, r)
               \/ Forgotten(x) \/ LeaveReceipt(x) \/ Stop(x)
        PROVE  FilesInv'
    <2>1. Quiet
      BY <1>4, QuietSteps
    <2> QED
      BY <2>1, QuietKeeps
  <1>5. ASSUME \/ /\ \/ \E x \in Procs : RegistryStep(x)
                     \/ \E c \in Clearers : Look(c) \/ LookAgain(c) \/ Clear(c)
                  /\ UNCHANGED << files, runs, commands >>
               \/ UNCHANGED vars
        PROVE  FilesInv'
    <2>1. Quiet
      BY <1>5, RegistryQuiet
    <2> QED
      BY <2>1, QuietKeeps
  <1>6. ASSUME NEW d \in Dirs, NEW f \in Files, NEW t \in Texts, EditFile(d, f, t)
        PROVE  FilesInv'
    BY <1>6, EditFileKeeps
  <1>7. ASSUME NEW r \in Roots, NEW s \in Roots, Still, MoveCheckout(r, s),
               UNCHANGED << files, runs, commands >>
        PROVE  FilesInv'
    BY <1>7, MoveKeeps
  <1>8. ASSUME NEW r \in Roots, NEW s \in Roots, NEW d \in Dirs, Still, CopyCheckout(r, s, d),
               Copied(disk[r], d), UNCHANGED << runs, commands >>
        PROVE  FilesInv'
    BY <1>8, CopyKeeps
  <1> QED
    BY <1>1, <1>2, <1>3, <1>4, <1>5, <1>6, <1>7, <1>8 DEF Next

LEMMA FilesAlways == Spec => []FilesInv
  BY InitFiles, StepFiles, PTL DEF Spec

\* A text of the user's that an init wrote over is in a backup until it is
\* restored, however runs, rollbacks, edits, copies and deaths of their
\* processes interleave (applyMazzyInit, rollbackMazzyInit).
THEOREM NoTextIsLost == Spec => []NothingLost
  <1>1. ASSUME FilesInv
        PROVE  NothingLost
    <2>1. SUFFICES ASSUME NEW o \in owed
                   PROVE  \E s \in Stamps : backup[o[1]][s][o[2]] = o[3]
      BY DEF NothingLost
    <2>2. o[1] \in Dirs /\ o[2] \in Files /\ o[3] \in Texts /\ o = << o[1], o[2], o[3] >>
      BY <1>1 DEF FilesInv, FilesOK
    <2> QED
      BY <1>1, <2>2 DEF FilesInv, Kept, Holds
  <1> QED
    BY <1>1, FilesAlways, PTL

---------------------------------------------------------------------------
(* The registry under init *)

LEMMA StepIsRegistryStep ==
  ASSUME FilesInv, [Next]_vars
  PROVE  [RegistryNext]_registryVars
  <1>1. ASSUME NEW x \in Procs,
               \/ \E r \in Roots : \/ \E v \in Versions, force \in BOOLEAN : StartInit(x, r, v, force)
                                   \/ \E s \in Stamps : StartRollback(x, r, s)
               \/ \E f \in todo[x] : SaveCopy(x, f) \/ PutFile(x, f) \/ Restore(x, f)
               \/ FilesDone(x) \/ Named(x) \/ Enrolled(x) \/ Forgotten(x)
               \/ ListBackups(x) \/ LeaveReceipt(x) \/ DropBackup(x)
        PROVE  UNCHANGED registryVars
    BY <1>1 DEF StartInit, StartRollback, SaveCopy, PutFile, Restore, FilesDone, Named, Enrolled,
                Forgotten, ListBackups, LeaveReceipt, DropBackup
  <1>2. ASSUME NEW x \in Procs, Name(x) \/ Enrol(x)
        PROVE  [RegistryNext]_registryVars
    <2>1. job[x].root \in Roots
      BY <1>2 DEF Name, Enrol, FilesInv, Stamped, Running, Jobs
    <2>2. \/ StartNaming(x, job[x].root) \/ StartEnrol(x, job[x].root)
          \/ UNCHANGED registryVars
      BY <1>2 DEF Name, Enrol
    <2> QED
      BY <2>1, <2>2 DEF RegistryNext
  <1>3. ASSUME NEW x \in Procs, NEW r \in Roots, Forget(x, r)
        PROVE  RegistryNext
    BY <1>3 DEF Forget, RegistryNext
  <1>4. ASSUME NEW x \in Procs, Stop(x)
        PROVE  [RegistryNext]_registryVars
    BY <1>4 DEF Stop, RegistryNext
  <1>5. ASSUME NEW x \in Procs, RegistryStep(x)
        PROVE  RegistryNext
    BY <1>5 DEF RegistryNext
  <1>6. ASSUME NEW d \in Dirs, NEW f \in Files, NEW t \in Texts, EditFile(d, f, t)
        PROVE  UNCHANGED registryVars
    BY <1>6 DEF EditFile
  <1>7. ASSUME NEW c \in Clearers, Look(c) \/ LookAgain(c) \/ Clear(c)
        PROVE  RegistryNext
    BY <1>7 DEF RegistryNext
  <1>8. ASSUME NEW r \in Roots, NEW s \in Roots,
               MoveCheckout(r, s) \/ \E d \in Dirs : CopyCheckout(r, s, d)
        PROVE  RegistryNext
    BY <1>8 DEF RegistryNext
  <1>9. UNCHANGED vars => UNCHANGED registryVars
    BY DEF vars
  <1> QED
    BY <1>1, <1>2, <1>3, <1>4, <1>5, <1>6, <1>7, <1>8, <1>9 DEF Next

\* Whatever init, rollback and forget do to a registry is a sequence of the
\* calls of project-registry.ts and project.ts.
THEOREM InitKeepsToRegistry == Spec => RegistrySpec
  <1>1. Init => RegistryInit
    BY DEF Init
  <1>2. FilesInv /\ [Next]_vars => [RegistryNext]_registryVars
    BY StepIsRegistryStep
  <1> QED
    BY <1>1, <1>2, FilesAlways, PTL DEF Spec, RegistrySpec

\* Under init the type invariant holds for any number of everything.
THEOREM InitTypeCorrect == Spec => []TypeOK
  <1>1. FilesInv /\ RegistryTypeOK => TypeOK
    BY DEF FilesInv, FilesOK, CommandsOK, Jobs, TypeOK
  <1> QED
    BY <1>1, FilesAlways, InitKeepsToRegistry, RegistryTypeCorrect, PTL
=============================================================================
