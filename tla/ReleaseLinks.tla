---------------------------- MODULE ReleaseLinks ----------------------------
(***************************************************************************)
(* What the links of an installation promise, whatever happens to the      *)
(* processes that move them: both name releases that are intact, and the   *)
(* active one is left only when `previous` names it.                       *)
(***************************************************************************)
CONSTANTS Commit, NoCommit

VARIABLES
    current,    \* what each link names, NoCommit while it is not there
    previous,
    intact      \* the releases that pass the check

linkVars == <<current, previous, intact>>

LinksInit ==
    /\ current = NoCommit
    /\ previous = NoCommit
    /\ intact = {}

Add(c) ==
    /\ intact' = intact \cup {c}
    /\ UNCHANGED <<current, previous>>

Remove(c) ==
    /\ c \notin {current, previous}
    /\ intact' = intact \ {c}
    /\ UNCHANGED <<current, previous>>

Keep ==
    /\ current # NoCommit
    /\ previous' = current
    /\ UNCHANGED <<current, intact>>

Switch(c) ==
    /\ c \in intact
    /\ current \in {NoCommit, previous}
    /\ current' = c
    /\ UNCHANGED <<previous, intact>>

LinksNext == Keep \/ \E c \in Commit : Add(c) \/ Remove(c) \/ Switch(c)

LinksSpec == LinksInit /\ [][LinksNext]_linkVars
=============================================================================
