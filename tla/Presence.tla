----------------------------- MODULE Presence -----------------------------
(***************************************************************************)
(* PresenceTracker (presence.py) as operators on a tracker record: one     *)
(* "scanned" event per continuous presence, removal after a quiet period.  *)
(***************************************************************************)
EXTENDS Integers, Sequences

CONSTANTS Uid,          \* card identities
          None,         \* Python's None
          RemovalTicks  \* removal_seconds

ASSUME PresenceAssumption ==
    /\ None \notin Uid
    /\ None \notin Int
    /\ RemovalTicks \in Nat \ {0}

\* Mutant: uid starts as 0.
NewTrackerBlank == [uid |-> 0, lastSeen |-> None, generation |-> 0]

NewTracker == [uid |-> None, lastSeen |-> None, generation |-> 0]

Trackers == [uid : Uid \cup {None}, lastSeen : Int \cup {None}, generation : Nat]

\* The check that raises ValueError("clock moved backwards").
ClockWentBack(t, at) == t.lastSeen # None /\ at < t.lastSeen

\* Mutant: no hysteresis.
RemovesAtOnce(t, tag, at) == t.uid # None /\ tag # t.uid

\* A known card is given up for another one at once, for silence only after
\* RemovalTicks.
Removes(t, tag, at) ==
    /\ t.uid # None
    /\ tag # t.uid
    /\ tag # None \/ (t.lastSeen # None /\ at - t.lastSeen >= RemovalTicks)

\* Mutant: self.uid = None is forgotten.
ForgetNothing(t, tag, at) == t

Forget(t, tag, at) ==
    IF Removes(t, tag, at) THEN [t EXCEPT !.uid = None, !.lastSeen = None] ELSE t

Admits(t, tag, at) == tag # None /\ Forget(t, tag, at).uid = None

\* Mutant: self.last_seen = at for a missed poll too.
ObserveRefreshing(t, tag, at) ==
    LET kept == Forget(t, tag, at) IN
    IF Admits(t, tag, at)
    THEN [uid |-> tag, lastSeen |-> at, generation |-> t.generation + 1]
    ELSE [kept EXCEPT !.lastSeen = at]

\* The tracker after observe(tag, at).
Observe(t, tag, at) ==
    LET kept == Forget(t, tag, at) IN
    CASE tag = None          -> kept
      [] Admits(t, tag, at)  -> [uid |-> tag, lastSeen |-> at,
                                 generation |-> t.generation + 1]
      [] OTHER               -> [kept EXCEPT !.lastSeen = at]

\* The events observe(tag, at) returns, in order.
Events(t, tag, at) ==
    (IF Removes(t, tag, at)
     THEN <<[kind |-> "removed", uid |-> t.uid, generation |-> t.generation]>>
     ELSE <<>>)
    \o
    (IF Admits(t, tag, at)
     THEN <<[kind |-> "scanned", uid |-> tag, generation |-> t.generation + 1]>>
     ELSE <<>>)
=============================================================================
