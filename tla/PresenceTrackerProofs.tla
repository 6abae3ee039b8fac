----------------------- MODULE PresenceTrackerProofs -----------------------
(***************************************************************************)
(* Proofs about PresenceTracker for every set of cards, every removal      *)
(* delay and every clock.                                                  *)
(***************************************************************************)
EXTENDS PresenceTracker, PresenceProofs

-----------------------------------------------------------------------------
(* One scan per stay *)

TrackerTypes ==
    /\ card \in Uid \cup {None}
    /\ tracker \in Trackers
    /\ readAt \in Int \cup {None}
    /\ scans \in Nat

\* A card that has been read in this stay is the tracker's, seen at the same
\* time; before that nothing has been counted for it.
StayInv ==
    /\ TrackerTypes
    /\ readAt = None => scans = 0
    /\ readAt # None => /\ card # None
                        /\ tracker.uid = card
                        /\ tracker.lastSeen = readAt
                        /\ scans <= 1

LEMMA StayInit == Init => StayInv
BY DEF Init, StayInv, TrackerTypes, NewTracker, Trackers

LEMMA StayPoll ==
    ASSUME StayInv, NEW tag \in Uid \cup {None}, Poll(tag) PROVE StayInv'
<1> USE PresenceAssumption
<1>1. CASE tag = None
  <2>0. /\ card' = card
        /\ readAt' = readAt
        /\ tracker' = Observe(tracker, None, 0)
        /\ scans' = IF Admits(tracker, None, 0) THEN scans + 1 ELSE scans
    BY <1>1 DEF Poll
  <2>1. tracker \in Trackers /\ 0 \in Int
    BY DEF StayInv, TrackerTypes
  <2>2. ~Admits(tracker, None, 0)
    BY <2>1, ObserveNone
  <2>3. scans' = scans
    BY <2>0, <2>2
  <2>4. CASE Removes(tracker, None, 0)
    <3>1. tracker' = [tracker EXCEPT !.uid = None, !.lastSeen = None] /\ tracker.uid # None
      BY <2>0, <2>1, <2>4, ObserveNone
    <3>2. readAt = None
      <4>1. SUFFICES ASSUME readAt # None PROVE FALSE
        OBVIOUS
      <4>2. card # None /\ -readAt < RemovalTicks /\ tracker.lastSeen = readAt /\ readAt \in Int
        BY <1>1, <4>1 DEF Poll, MayMiss, StayInv, TrackerTypes
      <4> QED BY <2>4, <4>1, <4>2 DEF Removes
    <3> QED BY <2>0, <2>1, <2>3, <3>1, <3>2 DEF StayInv, TrackerTypes, Trackers
  <2>5. CASE ~Removes(tracker, None, 0)
    <3>1. tracker' = tracker
      BY <2>0, <2>1, <2>5, ObserveNone
    <3> QED BY <2>0, <2>3, <3>1 DEF StayInv, TrackerTypes
  <2> QED BY <2>4, <2>5
<1>2. CASE tag # None
  <2>1. tag \in Uid /\ tag = card /\ card' = card /\ readAt' = 0
    BY <1>2 DEF Poll
  <2>2. CASE tracker.uid = tag
    <3>1. tracker' = [tracker EXCEPT !.lastSeen = 0] /\ scans' = scans
      BY <2>1, <2>2, ObserveSame DEF Poll, StayInv, TrackerTypes
    <3> QED BY <2>1, <2>2, <3>1 DEF StayInv, TrackerTypes, Trackers
  <2>3. CASE tracker.uid # tag
    <3>1. /\ tracker' = [uid |-> tag, lastSeen |-> 0, generation |-> tracker.generation + 1]
          /\ scans' = scans + 1
      BY <2>1, <2>3, ObserveOther DEF Poll, StayInv, TrackerTypes
    <3>2. readAt = None
      BY <2>1, <2>3 DEF StayInv
    <3> QED BY <2>1, <3>1, <3>2 DEF StayInv, TrackerTypes, Trackers
  <2> QED BY <2>2, <2>3
<1> QED BY <1>1, <1>2

LEMMA StayOther ==
    ASSUME StayInv, MoveCard \/ Tick \/ StepBack \/ PollRejected \/ UNCHANGED vars
    PROVE  StayInv'
<1> USE PresenceAssumption DEF StayInv, TrackerTypes
<1>1. CASE MoveCard
  BY <1>1 DEF MoveCard
<1>2. CASE Tick
  BY <1>2 DEF Tick, Older, Trackers
<1>3. CASE StepBack
  BY <1>3 DEF StepBack, Trackers
<1>4. CASE PollRejected \/ UNCHANGED vars
  BY <1>4 DEF PollRejected, vars
<1> QED BY <1>1, <1>2, <1>3, <1>4

\* A card that stays on the reader is scanned at most once, however long the
\* removal delay, whichever polls miss it and wherever the clock steps.
THEOREM HeldCardScannedOnce == Spec => []OneScanPerStay
<1>1. StayInv /\ [Next]_vars => StayInv'
  BY StayPoll, StayOther DEF Next
<1>2. StayInv => OneScanPerStay
  BY DEF StayInv, TrackerTypes, OneScanPerStay
<1> QED BY StayInit, <1>1, <1>2, PTL DEF Spec

-----------------------------------------------------------------------------
(* The events tell one story *)

StoryInv ==
    /\ TrackerTypes
    /\ story \in Seq(Event)
    /\ Len(story) >= 1
    /\ EventsAlternate

removal == Removal(tracker)

admission(tag) == Admission(tracker, tag)

LEMMA EventTypes ==
    ASSUME StoryInv
    PROVE  /\ story[Len(story)] \in Event
           /\ removal \in Event
           /\ \A tag \in Uid : admission(tag) \in Event
<1>1. story[Len(story)] \in Event
  BY DEF StoryInv
<1>2. tracker.uid \in Uid \cup {None} /\ tracker.generation \in Nat
  BY DEF StoryInv, TrackerTypes, Trackers
<1>3. removal \in Event
  BY <1>2 DEF removal, Removal, Event
<1>4. \A tag \in Uid : admission(tag) \in Event
  BY <1>2 DEF admission, Admission, Event
<1> QED BY <1>1, <1>3, <1>4

\* Story and tracker after a poll with each of them.
LEMMA StoryQuiet ==
    ASSUME StoryInv, TrackerTypes', story' = <<story[Len(story)]>> \o <<>>,
           tracker'.uid = tracker.uid, tracker'.generation = tracker.generation
    PROVE  StoryInv'
<1>1. story[Len(story)] \in Event
  BY DEF StoryInv
<1>2. story' = <<story[Len(story)]>> /\ story' \in Seq(Event) /\ Len(story') = 1
      /\ story'[1] = story[Len(story)]
  BY <1>1
<1> QED BY <1>2 DEF StoryInv, EventsAlternate

LEMMA StoryRemoval ==
    ASSUME StoryInv, TrackerTypes', story' = <<story[Len(story)]>> \o <<removal>>,
           tracker.uid # None, tracker'.uid = None,
           tracker'.generation = tracker.generation
    PROVE  StoryInv'
<1> DEFINE last == story[Len(story)]
<1>1. last \in Event /\ removal \in Event
  BY EventTypes
<1>2. last = [removal EXCEPT !.kind = "scanned"]
  BY <1>1 DEF StoryInv, EventsAlternate, removal, Removal, Event
<1>3. Follows(last, removal)
  BY <1>2 DEF Follows, removal, Removal
<1>4. story' \in Seq(Event) /\ Len(story') = 2 /\ story'[1] = last /\ story'[2] = removal
  BY <1>1
<1>5. \A i \in 1..(Len(story') - 1) : Follows(story'[i], story'[i + 1])
  BY <1>3, <1>4
<1>6. story'[Len(story')].generation = tracker'.generation
      /\ story'[Len(story')].kind = "removed"
  BY <1>4 DEF removal, Removal
<1> QED BY <1>4, <1>5, <1>6 DEF StoryInv, EventsAlternate

LEMMA StoryAdmission ==
    ASSUME StoryInv, TrackerTypes', NEW tag \in Uid,
           story' = <<story[Len(story)]>> \o <<admission(tag)>>,
           tracker.uid = None, tracker'.uid = tag,
           tracker'.generation = tracker.generation + 1
    PROVE  StoryInv'
<1> DEFINE last == story[Len(story)]
<1>1. last \in Event /\ admission(tag) \in Event
  BY EventTypes
<1>2. Follows(last, admission(tag))
  BY DEF StoryInv, EventsAlternate, Follows, admission, Admission
<1>3. story' \in Seq(Event) /\ Len(story') = 2 /\ story'[1] = last
      /\ story'[2] = admission(tag)
  BY <1>1
<1>4. \A i \in 1..(Len(story') - 1) : Follows(story'[i], story'[i + 1])
  BY <1>2, <1>3
<1>5. /\ story'[Len(story')].generation = tracker'.generation
      /\ story'[Len(story')].kind = "scanned"
      /\ story'[Len(story')].uid = tracker'.uid
      /\ tracker'.uid # None
  BY <1>3, PresenceAssumption DEF admission, Admission
<1> QED BY <1>3, <1>4, <1>5 DEF StoryInv, EventsAlternate

LEMMA StoryExchange ==
    ASSUME StoryInv, TrackerTypes', NEW tag \in Uid,
           story' = <<story[Len(story)]>> \o <<removal, admission(tag)>>,
           tracker.uid # None, tracker'.uid = tag,
           tracker'.generation = tracker.generation + 1
    PROVE  StoryInv'
<1> DEFINE last == story[Len(story)]
<1>1. last \in Event /\ removal \in Event /\ admission(tag) \in Event
  BY EventTypes
<1>2. last = [removal EXCEPT !.kind = "scanned"]
  BY <1>1 DEF StoryInv, EventsAlternate, removal, Removal, Event
<1>3. Follows(last, removal) /\ Follows(removal, admission(tag))
  BY <1>2 DEF Follows, removal, Removal, admission, Admission
<1>4. story' \in Seq(Event) /\ Len(story') = 3 /\ story'[1] = last
      /\ story'[2] = removal /\ story'[3] = admission(tag)
  BY <1>1
<1>5. \A i \in 1..(Len(story') - 1) : Follows(story'[i], story'[i + 1])
  BY <1>3, <1>4
<1>6. /\ story'[Len(story')].generation = tracker'.generation
      /\ story'[Len(story')].kind = "scanned"
      /\ story'[Len(story')].uid = tracker'.uid
      /\ tracker'.uid # None
  BY <1>4, PresenceAssumption DEF admission, Admission
<1> QED BY <1>4, <1>5, <1>6 DEF StoryInv, EventsAlternate

LEMMA StoryPoll ==
    ASSUME StayInv, StoryInv, NEW tag \in Uid \cup {None}, Poll(tag) PROVE StoryInv'
<1> USE PresenceAssumption
<1>1. TrackerTypes'
  BY StayPoll DEF StayInv
<1>2. /\ tracker' = Observe(tracker, tag, 0)
      /\ story' = <<story[Len(story)]>> \o Events(tracker, tag, 0)
      /\ tracker \in Trackers /\ 0 \in Int
  BY DEF Poll, StayInv, TrackerTypes
<1>3. CASE tag = None
  <2>1. ~Admits(tracker, tag, 0)
    BY <1>2, <1>3, ObserveNone
  <2>2. CASE Removes(tracker, tag, 0)
    <3>1. tracker' = [tracker EXCEPT !.uid = None, !.lastSeen = None] /\ tracker.uid # None
      BY <1>2, <1>3, <2>2, ObserveNone
    <3>2. tracker'.uid = None /\ tracker'.generation = tracker.generation
      BY <1>2, <3>1 DEF Trackers
    <3>3. story' = <<story[Len(story)]>> \o <<removal>>
      BY <1>2, <2>1, <2>2, EventShapes DEF removal, admission
    <3> QED BY <1>1, <3>1, <3>2, <3>3, StoryRemoval
  <2>3. CASE ~Removes(tracker, tag, 0)
    <3>1. tracker' = tracker
      BY <1>2, <1>3, <2>3, ObserveNone
    <3>2. story' = <<story[Len(story)]>> \o <<>>
      BY <1>2, <2>1, <2>3, EventShapes DEF removal, admission
    <3> QED BY <1>1, <3>1, <3>2, StoryQuiet
  <2> QED BY <2>2, <2>3
<1>4. CASE tag # None /\ tracker.uid = tag
  <2>1. tag \in Uid
    BY <1>4
  <2>2. /\ tracker' = [tracker EXCEPT !.lastSeen = 0]
        /\ ~Removes(tracker, tag, 0) /\ ~Admits(tracker, tag, 0)
    BY <1>2, <1>4, <2>1, ObserveSame
  <2>3. tracker'.uid = tracker.uid /\ tracker'.generation = tracker.generation
    BY <1>2, <2>2 DEF Trackers
  <2>4. story' = <<story[Len(story)]>> \o <<>>
    BY <1>2, <2>2, EventShapes DEF removal, admission
  <2> QED BY <1>1, <2>3, <2>4, StoryQuiet
<1>5. CASE tag # None /\ tracker.uid # tag
  <2>1. tag \in Uid
    BY <1>5
  <2>2. /\ tracker' = [uid |-> tag, lastSeen |-> 0, generation |-> tracker.generation + 1]
        /\ Removes(tracker, tag, 0) <=> tracker.uid # None
        /\ Admits(tracker, tag, 0)
    BY <1>2, <1>5, <2>1, ObserveOther
  <2>3. tracker'.uid = tag /\ tracker'.generation = tracker.generation + 1
    BY <2>2
  <2>4. CASE tracker.uid = None
    <3>1. story' = <<story[Len(story)]>> \o <<admission(tag)>>
      BY <1>2, <2>2, <2>4, EventShapes DEF removal, admission
    <3> QED BY <1>1, <2>1, <2>3, <2>4, <3>1, StoryAdmission
  <2>5. CASE tracker.uid # None
    <3>1. story' = <<story[Len(story)]>> \o <<removal, admission(tag)>>
      BY <1>2, <2>2, <2>5, EventShapes DEF removal, admission
    <3> QED BY <1>1, <2>1, <2>3, <2>5, <3>1, StoryExchange
  <2> QED BY <2>4, <2>5
<1> QED BY <1>3, <1>4, <1>5

LEMMA StoryOther ==
    ASSUME StayInv, StoryInv, MoveCard \/ Tick \/ StepBack \/ PollRejected \/ UNCHANGED vars
    PROVE  StoryInv'
<1>1. TrackerTypes'
  BY StayOther DEF StayInv
<1>2. story' = story /\ tracker'.uid = tracker.uid /\ tracker'.generation = tracker.generation
  BY DEF StayInv, TrackerTypes, Trackers, MoveCard, Tick, StepBack, PollRejected, vars
<1> QED BY <1>1, <1>2 DEF StoryInv, EventsAlternate

LEMMA StoryInit == Init => StoryInv
<1> SUFFICES ASSUME Init PROVE StoryInv
  OBVIOUS
<1>1. TrackerTypes
  BY StayInit DEF StayInv
<1>2. story \in Seq(Event) /\ Len(story) = 1
      /\ story[1] = [kind |-> "removed", uid |-> None, generation |-> 0]
  BY DEF Init, Event
<1>3. tracker.uid = None /\ tracker.generation = 0
  BY DEF Init, NewTracker
<1> QED BY <1>1, <1>2, <1>3 DEF StoryInv, EventsAlternate

\* Removals and scans alternate, name the same presence in pairs and count the
\* generations without a gap, and the last event agrees with the tracker.
THEOREM EventsTellOneStory == Spec => []EventsAlternate
<1>1. StayInv /\ [Next]_vars => StayInv'
  BY StayPoll, StayOther DEF Next
<1>2. StayInv /\ StoryInv /\ [Next]_vars => StoryInv'
  BY StoryPoll, StoryOther DEF Next
<1>3. StoryInv => EventsAlternate
  BY DEF StoryInv
<1> QED BY StayInit, StoryInit, <1>1, <1>2, <1>3, PTL DEF Spec

-----------------------------------------------------------------------------
(* Types *)

AgesInv == readAt \in Ages \cup {None} /\ tracker.lastSeen \in Ages \cup {None}

LEMMA AgesInit == Init => AgesInv
BY DEF Init, AgesInv, NewTracker

LEMMA AgesKept ==
    ASSUME StayInv, AgesInv, [Next]_vars PROVE AgesInv'
<1> USE PresenceAssumption, PollingAssumption DEF AgesInv
<1>0. tracker \in Trackers /\ 0 \in Ages /\ 0 \in Int
  BY DEF StayInv, TrackerTypes, Ages
<1>1. ASSUME NEW tag \in Uid \cup {None}, Poll(tag) PROVE AgesInv'
  <2>1. /\ tracker' = Observe(tracker, tag, 0)
        /\ readAt' = IF tag = None THEN readAt ELSE 0
    BY <1>1 DEF Poll
  <2>2. tracker'.lastSeen \in {tracker.lastSeen, None, 0}
    <3>1. CASE tag = None
      BY <1>0, <2>1, <3>1, ObserveNone DEF Trackers
    <3>2. CASE tag \in Uid /\ tracker.uid = tag
      BY <1>0, <2>1, <3>2, ObserveSame DEF Trackers
    <3>3. CASE tag \in Uid /\ tracker.uid # tag
      BY <1>0, <2>1, <3>3, ObserveOther
    <3> QED BY <3>1, <3>2, <3>3
  <2> QED BY <1>0, <2>1, <2>2
<1>2. CASE Tick
  <2>1. \A age \in Ages \cup {None} : Older(age) \in Ages \cup {None}
    BY DEF Older, Ages
  <2>2. tracker'.lastSeen = Older(tracker.lastSeen) /\ readAt' = Older(readAt)
    BY <1>0, <1>2 DEF Tick, Trackers
  <2> QED BY <2>1, <2>2
<1>3. CASE StepBack
  <2>1. \A age \in Ages : age < MaxSkew => age + 1 \in Ages
    BY DEF Ages
  <2>2. tracker'.lastSeen = tracker.lastSeen + 1 /\ tracker.lastSeen < MaxSkew
    BY <1>0, <1>3 DEF StepBack, Trackers
  <2> QED BY <1>3, <2>1, <2>2 DEF StepBack
<1>4. CASE MoveCard
  BY <1>4 DEF MoveCard
<1>5. CASE PollRejected \/ UNCHANGED vars
  BY <1>5 DEF PollRejected, vars
<1> QED BY <1>1, <1>2, <1>3, <1>4, <1>5 DEF Next

\* Every variable keeps its type; in particular no time is ever further ahead
\* than the clock can have stepped back.
THEOREM TrackerTyped == Spec => []TypeOK
<1>1. StayInv /\ [Next]_vars => StayInv'
  BY StayPoll, StayOther DEF Next
<1>2. StayInv /\ StoryInv /\ [Next]_vars => StoryInv'
  BY StoryPoll, StoryOther DEF Next
<1>3. StayInv /\ AgesInv /\ [Next]_vars => AgesInv'
  BY AgesKept
<1>4. StayInv /\ StoryInv /\ AgesInv => TypeOK
  BY DEF StayInv, StoryInv, AgesInv, TrackerTypes, TypeOK
<1> QED BY StayInit, StoryInit, AgesInit, <1>1, <1>2, <1>3, <1>4, PTL DEF Spec
=============================================================================
