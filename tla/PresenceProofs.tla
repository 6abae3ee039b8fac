-------------------------- MODULE PresenceProofs --------------------------
(***************************************************************************)
(* What PresenceTracker.observe() returns and leaves behind, case by case: *)
(* the lemmas that the proofs about its users share.                       *)
(***************************************************************************)
EXTENDS Presence, SequenceTheorems, TLAPS

\* The same card again only refreshes last_seen.
LEMMA ObserveSame ==
    ASSUME NEW t \in Trackers, NEW tag \in Uid, NEW at \in Int, t.uid = tag
    PROVE  /\ Observe(t, tag, at) = [t EXCEPT !.lastSeen = at]
           /\ ~Removes(t, tag, at) /\ ~Admits(t, tag, at)
BY PresenceAssumption DEF Trackers, Observe, Admits, Forget, Removes

\* A card other than the known one is admitted as a new presence.
LEMMA ObserveOther ==
    ASSUME NEW t \in Trackers, NEW tag \in Uid, NEW at \in Int, t.uid # tag
    PROVE  /\ Observe(t, tag, at) =
                 [uid |-> tag, lastSeen |-> at, generation |-> t.generation + 1]
           /\ Removes(t, tag, at) <=> t.uid # None
           /\ Admits(t, tag, at)
BY PresenceAssumption DEF Trackers, Observe, Admits, Forget, Removes

\* Silence changes nothing, or gives the known card up.
LEMMA ObserveNone ==
    ASSUME NEW t \in Trackers, NEW at \in Int
    PROVE  /\ ~Admits(t, None, at)
           /\ ~Removes(t, None, at) => Observe(t, None, at) = t
           /\ Removes(t, None, at) =>
                 /\ t.uid # None
                 /\ Observe(t, None, at) = [t EXCEPT !.uid = None, !.lastSeen = None]
BY PresenceAssumption DEF Trackers, Observe, Admits, Forget, Removes

\* PresenceTracker.observe turns a tracker into a tracker.
LEMMA ObserveType ==
    ASSUME NEW t \in Trackers, NEW tag \in Uid \cup {None}, NEW at \in Int
    PROVE  Observe(t, tag, at) \in Trackers
<1> USE DEF Trackers
<1>1. Forget(t, tag, at) \in Trackers
  BY DEF Forget
<1>2. CASE tag = None
  BY <1>1, <1>2 DEF Observe
<1>3. CASE tag # None /\ Admits(t, tag, at)
  BY <1>3 DEF Observe
<1>4. CASE tag # None /\ ~Admits(t, tag, at)
  BY <1>1, <1>4 DEF Observe
<1> QED BY <1>2, <1>3, <1>4

-----------------------------------------------------------------------------

Removal(t) == [kind |-> "removed", uid |-> t.uid, generation |-> t.generation]

Admission(t, tag) == [kind |-> "scanned", uid |-> tag, generation |-> t.generation + 1]

\* Concatenations of at most one event with at most one other.
LEMMA Concatenations ==
    ASSUME NEW a, NEW b
    PROVE  /\ <<>> \o <<>> = <<>>
           /\ <<a>> \o <<>> = <<a>>
           /\ <<>> \o <<b>> = <<b>>
           /\ <<a>> \o <<b>> = <<a, b>>
<1> DEFINE S == {a, b}
<1>1. <<>> \in Seq(S) /\ <<a>> \in Seq(S) /\ <<b>> \in Seq(S) /\ <<a, b>> \in Seq(S)
  OBVIOUS
<1>2. /\ <<>> \o <<>> = <<>>
      /\ <<a>> \o <<>> = <<a>>
      /\ <<>> \o <<b>> = <<b>>
  BY <1>1, ConcatEmptySeq
<1>3. <<a>> \o <<b>> = <<a, b>>
  <2>1. /\ <<a>> \o <<b>> \in Seq(S)
        /\ Len(<<a>> \o <<b>>) = Len(<<a, b>>)
        /\ \A i \in 1..Len(<<a>> \o <<b>>) : (<<a>> \o <<b>>)[i] = <<a, b>>[i]
    BY <1>1, ConcatProperties
  <2> QED BY <1>1, <2>1, SeqEqual
<1> QED BY <1>2, <1>3

\* The four shapes of what observe() returns.
LEMMA EventShapes ==
    ASSUME NEW t, NEW tag, NEW at
    PROVE  LET R == Removes(t, tag, at)
               A == Admits(t, tag, at)
           IN  /\ ~R /\ ~A => Events(t, tag, at) = <<>>
               /\ R /\ ~A => Events(t, tag, at) = <<Removal(t)>>
               /\ ~R /\ A => Events(t, tag, at) = <<Admission(t, tag)>>
               /\ R /\ A => Events(t, tag, at) = <<Removal(t), Admission(t, tag)>>
<1> DEFINE R == Removes(t, tag, at)
           A == Admits(t, tag, at)
           r == IF R THEN <<Removal(t)>> ELSE <<>>
           a == IF A THEN <<Admission(t, tag)>> ELSE <<>>
<1>1. Events(t, tag, at) = r \o a
  BY DEF Events, Removal, Admission
<1>2. /\ <<>> \o <<>> = <<>>
      /\ <<Removal(t)>> \o <<>> = <<Removal(t)>>
      /\ <<>> \o <<Admission(t, tag)>> = <<Admission(t, tag)>>
      /\ <<Removal(t)>> \o <<Admission(t, tag)>> = <<Removal(t), Admission(t, tag)>>
  BY Concatenations
<1> QED BY <1>1, <1>2
=============================================================================
