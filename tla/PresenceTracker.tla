-------------------------- MODULE PresenceTracker --------------------------
(***************************************************************************)
(* A PresenceTracker under polling: a reader that misses a lying card now  *)
(* and then, cards that come, go and are exchanged, polls at any distance  *)
(* in time and a clock that may step back.                                 *)
(*                                                                         *)
(* observe() only compares differences of times, so every time is kept     *)
(* relative to the present, and ages beyond RemovalTicks are equal.        *)
(***************************************************************************)
EXTENDS Presence

CONSTANTS MaxGeneration,  \* bound: cards are moved until so many presences
          MaxSkew         \* bound: how far the clock may fall behind last_seen;
                          \* 0 is a monotonic clock

ASSUME PollingAssumption == MaxGeneration \in Nat /\ MaxSkew \in Nat

VARIABLES
    card,     \* the card lying on the reader, or None
    readAt,   \* when a poll last returned it since it was put there, or None
    tracker,
    story,    \* the event before the last poll, then the events of that poll
    scans     \* "scanned" events since the card was put there

vars == <<card, readAt, tracker, story, scans>>

Event == [kind : {"removed", "scanned"}, uid : Uid \cup {None}, generation : Nat]

Ages == (-RemovalTicks)..MaxSkew

TypeOK ==
    /\ card \in Uid \cup {None}
    /\ readAt \in Ages \cup {None}
    /\ tracker \in Trackers
    /\ tracker.lastSeen \in Ages \cup {None}
    /\ story \in Seq(Event)
    /\ scans \in Nat

\* No presence yet reads like a presence 0 that has ended.
Init ==
    /\ card \in Uid \cup {None}
    /\ readAt = None
    /\ tracker = NewTracker
    /\ story = <<[kind |-> "removed", uid |-> None, generation |-> 0]>>
    /\ scans = 0

-----------------------------------------------------------------------------

\* A card that has been read is read again within RemovalTicks as long as it
\* lies there: only shorter gaps are the "transient failed polls".
MayMiss == readAt # None => -readAt < RemovalTicks

\* One observe() of what the reader returned.
Poll(tag) ==
    /\ tag = card \/ (tag = None /\ MayMiss)
    /\ ~ClockWentBack(tracker, 0)
    /\ tracker' = Observe(tracker, tag, 0)
    /\ story' = <<story[Len(story)]>> \o Events(tracker, tag, 0)
    /\ scans' = IF Admits(tracker, tag, 0) THEN scans + 1 ELSE scans
    /\ readAt' = IF tag = None THEN readAt ELSE 0
    /\ UNCHANGED card

\* ValueError("clock moved backwards") is raised before anything changes.
PollRejected ==
    /\ ClockWentBack(tracker, 0)
    /\ UNCHANGED vars

MoveCard ==
    /\ tracker.generation < MaxGeneration
    /\ card' \in (Uid \cup {None}) \ {card}
    /\ readAt' = None
    /\ scans' = 0
    /\ UNCHANGED <<tracker, story>>

Older(age) == IF age = None THEN None
              ELSE IF age > -RemovalTicks THEN age - 1 ELSE age

Tick ==
    /\ tracker' = [tracker EXCEPT !.lastSeen = Older(@)]
    /\ readAt' = Older(readAt)
    /\ UNCHANGED <<card, story, scans>>

\* The clock steps back: what was seen is suddenly less old.
StepBack ==
    /\ MaxSkew > 0
    /\ tracker.lastSeen # None
    /\ tracker.lastSeen < MaxSkew
    /\ readAt # None => readAt < MaxSkew
    /\ tracker' = [tracker EXCEPT !.lastSeen = @ + 1]
    /\ readAt' = IF readAt = None THEN None ELSE readAt + 1
    /\ UNCHANGED <<card, story, scans>>

Next ==
    \/ \E tag \in Uid \cup {None} : Poll(tag)
    \/ PollRejected
    \/ MoveCard
    \/ Tick
    \/ StepBack

Spec == Init /\ [][Next]_vars

\* The caller polls on, time goes on, and a lying card is read time and again;
\* cards need not move.
FairSpec == Spec /\ WF_vars(Tick) /\ \A tag \in Uid \cup {None} : WF_vars(tag = card /\ Poll(tag))
-----------------------------------------------------------------------------

\* However polls, misses and clock steps fall, a card that stays on the reader
\* is scanned at most once ("One scan per continuous presence").
OneScanPerStay == scans <= 1

\* The callers see one story: a removal names the presence scanned before it,
\* a scan follows a removal and counts one generation further.
Follows(before, after) ==
    CASE after.kind = "removed" -> before = [after EXCEPT !.kind = "scanned"]
      [] after.kind = "scanned" -> /\ before.kind = "removed"
                                   /\ after.generation = before.generation + 1

EventsAlternate ==
    /\ \A i \in 1..(Len(story) - 1) : Follows(story[i], story[i + 1])
    /\ LET last == story[Len(story)] IN
          /\ last.generation = tracker.generation
          /\ IF tracker.uid = None THEN last.kind = "removed"
             ELSE last.kind = "scanned" /\ last.uid = tracker.uid

\* A card that stays is eventually present, and one that is taken away is
\* eventually absent: neither hysteresis nor misses hide a change for ever,
\* once the clock has stopped stepping back.
ClockSettles == <>[][~StepBack]_vars

ChangesAreSeen ==
    ClockSettles =>
        \A tag \in Uid \cup {None} : card = tag ~> (tracker.uid = tag \/ card # tag)
=============================================================================
