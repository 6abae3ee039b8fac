---------------------------- MODULE ReaderLease ----------------------------
(***************************************************************************)
(* What the observer and the commands promise each other about the reader, *)
(* without locks, signals or time: one user of the chip at a time, and a   *)
(* command only inside a window that no other command has open.            *)
(***************************************************************************)
EXTENDS FiniteSets

CONSTANTS Cli, Observer, Nobody

VARIABLES inUse,   \* who uses the chip, at most one of them
          window   \* the command in its exclusive window

leaseVars == <<inUse, window>>

LeaseInit == inUse = {} /\ window = Nobody

OpenWindow(c) ==
    /\ window = Nobody
    /\ window' = c
    /\ UNCHANGED inUse

\* A window closes behind its command, even one that dies on the chip.
EndWindow(c) ==
    /\ window = c
    /\ window' = Nobody
    /\ inUse' = inUse \ {c}

Take(u) ==
    /\ inUse = {}
    /\ u \in Cli => window = u
    /\ inUse' = {u}
    /\ UNCHANGED window

PutBack(u) ==
    /\ inUse = {u}
    /\ inUse' = {}
    /\ UNCHANGED window

LeaseNext ==
    \/ \E c \in Cli : OpenWindow(c) \/ EndWindow(c)
    \/ \E u \in Cli \cup {Observer} : Take(u) \/ PutBack(u)

LeaseSpec == LeaseInit /\ [][LeaseNext]_leaseVars
=============================================================================
