-------------------------- MODULE CutoverAuthority --------------------------
(***************************************************************************)
(* What the cutover between the two control stores promises.  One store is *)
(* the authority.  Only an activation makes it the canonical one and only  *)
(* a deactivation the legacy one again, each at a single moment; a session *)
(* that opens a store opens the authority, or none.  A break-glass session *)
(* never opens the legacy store.                                           *)
(***************************************************************************)
CONSTANTS
    Sessions,       \* processes that open the control store
    BreakGlass      \* those that may be started with MAZZY_CUTOVER=1

VARIABLES
    authority,      \* the store that sessions are to open
    glass,          \* those started with it, in this behavior
    asked,          \* [Sessions -> the switch the session's command makes]
    opened          \* [Sessions -> the store the session has open]

Stores == { "legacy", "canonical" }
Switches == { "none", "activate", "deactivate" }

Init ==
    /\ authority = "legacy"
    /\ glass \in SUBSET BreakGlass
    /\ asked = [s \in Sessions |-> "none"]
    /\ opened = [s \in Sessions |-> "none"]

\* A command begins, is refused, fails or ends.
Ask(s, switch) ==
    /\ asked[s] # switch
    /\ asked' = [asked EXCEPT ![s] = switch]
    /\ UNCHANGED << authority, glass, opened >>

\* The process ends.
Exit(s) ==
    /\ asked' = [asked EXCEPT ![s] = "none"]
    /\ opened' = [opened EXCEPT ![s] = "none"]
    /\ UNCHANGED << authority, glass >>

Activate(s) ==
    /\ asked[s] = "activate" /\ authority = "legacy"
    /\ authority' = "canonical"
    /\ UNCHANGED << glass, asked, opened >>

\* The last step of the command.
Deactivate(s) ==
    /\ asked[s] = "deactivate"
    /\ authority' = "legacy"
    /\ asked' = [asked EXCEPT ![s] = "none"]
    /\ UNCHANGED << glass, opened >>

StoreFor(s) == IF s \in glass THEN "canonical" ELSE authority

Open(s) ==
    /\ opened' = [opened EXCEPT ![s] = StoreFor(s)]
    /\ UNCHANGED << authority, glass, asked >>

Close(s) ==
    /\ opened[s] # "none"
    /\ opened' = [opened EXCEPT ![s] = "none"]
    /\ UNCHANGED << authority, glass, asked >>

Next ==
    \E s \in Sessions :
        \/ \E switch \in Switches : Ask(s, switch)
        \/ Exit(s)
        \/ Activate(s) \/ Deactivate(s)
        \/ Open(s) \/ Close(s)

Spec == Init /\ [][Next]_<< authority, glass, asked, opened >>
=============================================================================
