--------------------------- MODULE ScannerProofs ---------------------------
(***************************************************************************)
(* Proofs about Scanner for every set of threads and cards, every fault    *)
(* and every delay.                                                        *)
(***************************************************************************)
EXTENDS Scanner, PresenceProofs

-----------------------------------------------------------------------------
(* Types *)

LEMMA NewLocalsType == NewLocals \in Locals
BY ScannerAssumption DEF NewLocals, Locals

LEMMA EventsType ==
    ASSUME NEW t \in Trackers, NEW tag \in Uid \cup {None}
    PROVE  Events(t, tag, 0) \in Seq(Event)
<1>1. Removal(t) \in Event
  BY DEF Removal, Trackers, Event
<1>2. CASE tag \in Uid
  <2>1. Admission(t, tag) \in Event
    BY <1>2 DEF Admission, Trackers, Event
  <2>2. /\ <<>> \in Seq(Event) /\ <<Removal(t)>> \in Seq(Event)
        /\ <<Admission(t, tag)>> \in Seq(Event)
        /\ <<Removal(t), Admission(t, tag)>> \in Seq(Event)
    BY <1>1, <2>1
  <2> QED BY <2>2, EventShapes
<1>3. CASE tag = None
  <2>1. 0 \in Int
    OBVIOUS
  <2>2. ~Admits(t, tag, 0)
    BY <1>3, <2>1, ObserveNone
  <2>3. <<>> \in Seq(Event) /\ <<Removal(t)>> \in Seq(Event)
    BY <1>1
  <2> QED BY <2>2, <2>3, EventShapes
<1> QED BY <1>2, <1>3

LEMMA NextDelayType ==
    ASSUME NEW d \in RetryInitial..RetryMax
    PROVE  NextDelay(d) \in RetryInitial..RetryMax
BY ScannerAssumption DEF NextDelay

LEMMA OlderType ==
    ASSUME NEW n \in Nat, NEW age \in (-n)..0 \cup {None}
    PROVE  Older(age, -n) \in (-n)..0 \cup {None}
BY PresenceAssumption DEF Older

LEMMA GotoType ==
    ASSUME pc \in [Runner -> Pc], NEW r \in Runner, NEW label \in Pc, Goto(r, label)
    PROVE  pc' \in [Runner -> Pc]
BY DEF Goto

\* The typing of what run() writes.
RunTypes ==
    /\ pc \in [Runner -> Pc]
    /\ local \in [Runner -> Locals]
    /\ runLock \in Runner \cup {Nobody}
    /\ device \in {"closed", "open", "stuck"}
    /\ tracker \in Trackers
    /\ state \in {"stopped", "starting", "running", "recovering", "failed"}
    /\ lastPoll \in (-(Freshness + 1))..0 \cup {None}
    /\ card \in Uid \cup {None}
    /\ readAt \in (-RemovalTicks)..0 \cup {None}
    /\ scans \in Nat
    /\ told \in Event

LEMMA TypeInit == Init => TypeOK
<1> SUFFICES ASSUME Init PROVE TypeOK
  OBVIOUS
<1>1. NewTracker \in Trackers
  BY DEF NewTracker, Trackers
<1>2. told \in Event
  BY DEF Init, Event
<1>3. NewLocals.delay = RetryInitial
  BY DEF NewLocals
<1> QED BY <1>1, <1>2, <1>3, NewLocalsType DEF Init, TypeOK, Pc

LEMMA TypeBegin ==
    ASSUME RunTypes, NEW r \in Runner, Begin(r) \/ Enter(r) PROVE RunTypes'
<1> USE DEF RunTypes
<1>1. CASE Begin(r)
  <2>1. pc' \in [Runner -> Pc]
    BY <1>1, GotoType DEF Begin, Pc
  <2> QED BY <1>1, <2>1 DEF Begin, cardVars, healthVars
<1>2. CASE Enter(r)
  <2>1. pc' \in [Runner -> Pc]
    BY <1>2, GotoType DEF Enter, Pc
  <2>2. local' \in [Runner -> Locals]
    BY <1>2, NewLocalsType DEF Enter
  <2> QED BY <1>2, <2>1, <2>2 DEF Enter, cardVars
<1> QED BY <1>1, <1>2

LEMMA TypeOpening ==
    ASSUME RunTypes, NEW r \in Runner, Loop(r) \/ Open(r) \/ ReaderFails(r)
    PROVE  RunTypes'
<1> USE DEF RunTypes
<1>1. CASE Loop(r)
  <2>1. pc' \in [Runner -> Pc]
    BY <1>1, GotoType DEF Loop, Pc
  <2> QED BY <1>1, <2>1 DEF Loop, cardVars, healthVars
<1>2. CASE Open(r)
  <2>1. pc' \in [Runner -> Pc]
    BY <1>2, GotoType DEF Open, Pc
  <2>2. local' \in [Runner -> Locals]
    <3>1. Opened(local[r]) \in Locals
      BY DEF Opened, Locals
    <3> QED BY <1>2, <3>1 DEF Open
  <2> QED BY <1>2, <2>1, <2>2 DEF Open, cardVars, healthVars
<1>3. CASE ReaderFails(r)
  <2>1. pc' \in [Runner -> Pc]
    BY <1>3, GotoType DEF ReaderFails, Pc
  <2>2. local' \in [Runner -> Locals]
    <3>1. PICK error \in ReaderErrors :
             local' = [local EXCEPT ![r].error = error, ![r].polled = FALSE]
      BY <1>3 DEF ReaderFails
    <3>2. error \in {"none", "retry", "fatal", "interrupt"}
      BY DEF ReaderErrors
    <3>3. local[r] \in Locals
      OBVIOUS
    <3>4. [local[r] EXCEPT !.error = error, !.polled = FALSE] \in Locals
      BY <3>2, <3>3 DEF Locals
    <3>5. local' = [local EXCEPT ![r] = [local[r] EXCEPT !.error = error, !.polled = FALSE]]
      BY <3>1, <3>3 DEF Locals
    <3> QED BY <3>4, <3>5
  <2> QED BY <1>3, <2>1, <2>2 DEF ReaderFails, cardVars, healthVars
<1> QED BY <1>1, <1>2, <1>3

LEMMA TypeRecovery ==
    ASSUME RunTypes, NEW r \in Runner, Recover(r) \/ WakeUp(r)
    PROVE  RunTypes'
<1> USE DEF RunTypes
<1>1. CASE Recover(r)
  <2>1. pc' \in [Runner -> Pc]
    BY <1>1, GotoType DEF Recover, Pc
  <2>2. local' \in [Runner -> Locals]
    <3>1. local[r] \in Locals
      OBVIOUS
    <3>2. [local[r] EXCEPT !.opened = FALSE, !.needsClose = FALSE] \in Locals
      BY <3>1 DEF Locals
    <3>3. local' = [local EXCEPT ![r] = [local[r] EXCEPT !.opened = FALSE, !.needsClose = FALSE]]
      BY <1>1, <3>1 DEF Recover, Locals
    <3> QED BY <3>2, <3>3
  <2> QED BY <1>1, <2>1, <2>2 DEF Recover, cardVars
<1>2. CASE WakeUp(r)
  <2>1. pc' \in [Runner -> Pc]
    BY <1>2, GotoType DEF WakeUp, Pc
  <2>2. local' \in [Runner -> Locals]
    <3>1. local[r].delay \in RetryInitial..RetryMax
      BY DEF Locals
    <3>2. NextDelay(local[r].delay) \in RetryInitial..RetryMax
      BY <3>1, NextDelayType
    <3>3. local' = [local EXCEPT ![r] = [local[r] EXCEPT !.delay = NextDelay(local[r].delay),
                                                         !.backedOff = TRUE]]
      BY <1>2 DEF WakeUp, Locals
    <3>4. [local[r] EXCEPT !.delay = NextDelay(local[r].delay), !.backedOff = TRUE] \in Locals
      BY <3>2 DEF Locals
    <3> QED BY <3>3, <3>4
  <2> QED BY <1>2, <2>1, <2>2 DEF WakeUp, cardVars, healthVars
<1> QED BY <1>1, <1>2

LEMMA TypePolling ==
    ASSUME RunTypes, NEW r \in Runner, Scan(r) \/ ObservePoll(r)
    PROVE  RunTypes'
<1> USE DEF RunTypes
<1>1. CASE Scan(r)
  <2>1. pc' \in [Runner -> Pc]
    BY <1>1, GotoType DEF Scan, Pc
  <2>2. PICK tag \in {card, None} :
           local' = [local EXCEPT ![r].tag = tag, ![r].polled = TRUE]
    BY <1>1 DEF Scan
  <2>3. local' \in [Runner -> Locals]
    <3>1. local[r] \in Locals /\ tag \in Uid \cup {None}
      OBVIOUS
    <3>2. [local[r] EXCEPT !.tag = tag, !.polled = TRUE] \in Locals
      BY <3>1 DEF Locals
    <3>3. local' = [local EXCEPT ![r] = [local[r] EXCEPT !.tag = tag, !.polled = TRUE]]
      BY <2>2, <3>1 DEF Locals
    <3> QED BY <3>2, <3>3
  <2> QED BY <1>1, <2>1, <2>3 DEF Scan, cardVars
<1>2. CASE ObservePoll(r)
  <2>1. pc' \in [Runner -> Pc]
    BY <1>2, GotoType DEF ObservePoll, Pc
  <2>2. local[r] \in Locals /\ local[r].tag \in Uid \cup {None}
    BY DEF Locals
  <2>3. tracker' \in Trackers
    <3>1. tracker' = Observe(tracker, local[r].tag, 0)
      BY <1>2 DEF ObservePoll
    <3>2. tracker \in Trackers /\ 0 \in Int
      OBVIOUS
    <3> QED BY <2>2, <3>1, <3>2, ObserveType
  <2>4. local' \in [Runner -> Locals]
    <3>1. Events(tracker, local[r].tag, 0) \in Seq(Event)
      BY <2>2, EventsType
    <3>2. Polled(local[r], Events(tracker, local[r].tag, 0)) \in Locals
      <4>1. RetryInitial \in RetryInitial..RetryMax
        BY ScannerAssumption
      <4> QED BY <2>2, <3>1, <4>1 DEF Polled, Locals
    <3> QED BY <1>2, <3>2 DEF ObservePoll
  <2>5. lastPoll' \in (-(Freshness + 1))..0 \cup {None}
    BY <1>2, ScannerAssumption DEF ObservePoll
  <2>6. scans' \in Nat /\ readAt' \in (-RemovalTicks)..0 \cup {None}
    BY <1>2, PresenceAssumption DEF ObservePoll
  <2> QED BY <1>2, <2>1, <2>3, <2>4, <2>5, <2>6 DEF ObservePoll
<1> QED BY <1>1, <1>2

LEMMA TypeDelivery ==
    ASSUME RunTypes, NEW r \in Runner, Deliver(r) \/ NextPoll(r)
    PROVE  RunTypes'
<1> USE DEF RunTypes
<1>1. CASE Deliver(r)
  <2>1. pc' \in [Runner -> Pc]
    BY <1>1, GotoType DEF Deliver, Pc
  <2>2. local[r] \in Locals /\ local[r].events \in Seq(Event) /\ local[r].events # <<>>
    BY <1>1 DEF Deliver, Locals
  <2>3. /\ Head(local[r].events) \in Event
        /\ local[r].events[Len(local[r].events)] \in Event
        /\ Tail(local[r].events) \in Seq(Event)
        /\ <<>> \in Seq(Event)
    BY <2>2
  <2>4. \A s \in Seq(Event) : [local[r] EXCEPT !.events = s] \in Locals
    BY <2>2 DEF Locals
  <2>5. local' \in [Runner -> Locals]
    BY <1>1, <2>3, <2>4 DEF Deliver
  <2>6. told' \in Event
    BY <1>1, <2>3 DEF Deliver
  <2> QED BY <1>1, <2>1, <2>5, <2>6 DEF Deliver, cardVars, healthVars
<1>2. CASE NextPoll(r)
  <2>1. pc' \in [Runner -> Pc]
    BY <1>2, GotoType DEF NextPoll, Pc
  <2> QED BY <1>2, <2>1 DEF NextPoll, cardVars, healthVars
<1> QED BY <1>1, <1>2

LEMMA TypeEnd ==
    ASSUME RunTypes, NEW r \in Runner, Leave(r) \/ Release(r) \/ Interrupt(r)
    PROVE  RunTypes'
<1> USE DEF RunTypes
<1>1. CASE Leave(r)
  <2>1. pc' \in [Runner -> Pc]
    BY <1>1, GotoType DEF Leave, Pc
  <2> QED BY <1>1, <2>1 DEF Leave, cardVars, healthVars
<1>2. CASE Release(r)
  <2>1. pc' \in [Runner -> Pc]
    BY <1>2, GotoType DEF Release, Pc
  <2>2. local' \in [Runner -> Locals]
    BY <1>2, NewLocalsType DEF Release
  <2> QED BY <1>2, <2>1, <2>2 DEF Release, StateAtEnd, cardVars
<1>3. CASE Interrupt(r)
  <2>1. pc' \in [Runner -> Pc]
    BY <1>3, GotoType DEF Interrupt, Pc
  <2>2. local' \in [Runner -> Locals]
    <3>1. [local[r] EXCEPT !.error = "interrupt"] \in Locals
      BY DEF Locals
    <3>2. local' = [local EXCEPT ![r] = [local[r] EXCEPT !.error = "interrupt"]]
      BY <1>3 DEF Interrupt
    <3> QED BY <3>1, <3>2
  <2>3. lastPoll' \in (-(Freshness + 1))..0 \cup {None}
    BY <1>3, ScannerAssumption DEF Interrupt
  <2> QED BY <1>3, <2>1, <2>2, <2>3 DEF Interrupt, cardVars
<1> QED BY <1>1, <1>2, <1>3

LEMMA TypeRun ==
    ASSUME RunTypes, NEW r \in Runner, Begin(r) \/ Run(r) PROVE RunTypes'
BY TypeBegin, TypeOpening, TypeRecovery, TypePolling, TypeDelivery, TypeEnd DEF Run, Proceed

LEMMA TypeEnvironment ==
    ASSUME RunTypes, Stop \/ SnapshotAge \/ SnapshotState \/ MoveCard \/ Tick \/ UNCHANGED vars
    PROVE  RunTypes'
<1> USE DEF RunTypes
<1>1. CASE Stop \/ SnapshotAge \/ SnapshotState \/ UNCHANGED vars
  BY <1>1 DEF Stop, SnapshotAge, SnapshotState, vars, runVars, healthVars, cardVars, snapVars
<1>2. CASE MoveCard
  BY <1>2 DEF MoveCard, runVars, healthVars
<1>3. CASE Tick
  <2>1. tracker' \in Trackers
    <3>1. tracker.lastSeen \in Int \cup {None} /\ RemovalTicks \in Int
      BY PresenceAssumption DEF Trackers
    <3>2. Older(tracker.lastSeen, -RemovalTicks) \in Int \cup {None}
      BY <3>1 DEF Older
    <3> QED BY <1>3, <3>2 DEF Tick, Trackers
  <2>2. readAt' \in (-RemovalTicks)..0 \cup {None}
    BY <1>3, PresenceAssumption, OlderType DEF Tick
  <2>3. lastPoll' \in (-(Freshness + 1))..0 \cup {None}
    <3>1. Freshness + 1 \in Nat
      BY ScannerAssumption
    <3> QED BY <1>3, <3>1, OlderType DEF Tick
  <2> QED BY <1>3, <2>1, <2>2, <2>3 DEF Tick, runVars
<1> QED BY <1>1, <1>2, <1>3

\* stop() and snapshot().
SideTypes == stopSet \in BOOLEAN /\ fresh \in BOOLEAN \cup {None} /\ healthy \in BOOLEAN

LEMMA TypeSide ==
    ASSUME SideTypes, [Next]_vars PROVE SideTypes'
<1> USE DEF SideTypes
<1>1. CASE Stop
  BY <1>1 DEF Stop, snapVars
<1>2. CASE SnapshotAge
  <2>1. fresh' \in BOOLEAN
    BY <1>2 DEF SnapshotAge
  <2> QED BY <1>2, <2>1 DEF SnapshotAge
<1>3. CASE SnapshotState
  <2>1. healthy' \in BOOLEAN
    BY <1>3 DEF SnapshotState
  <2> QED BY <1>3, <2>1 DEF SnapshotState
<1>4. CASE UNCHANGED <<stopSet, fresh, healthy>>
  BY <1>4
<1>5. ASSUME NEW r \in Runner, (Begin(r) /\ UNCHANGED <<stopSet, snapVars>>) \/ Run(r)
      PROVE  UNCHANGED <<stopSet, fresh, healthy>>
  BY <1>5 DEF Run, Proceed, snapVars
<1>6. CASE MoveCard \/ Tick \/ UNCHANGED vars
  BY <1>6 DEF MoveCard, Tick, vars, snapVars
<1> QED BY <1>1, <1>2, <1>3, <1>4, <1>5, <1>6 DEF Next

\* What a thread's step makes of the others: nothing.
LEMMA OthersRest ==
    ASSUME RunTypes, NEW r \in Runner, Begin(r) \/ Run(r), NEW q \in Runner, q # r
    PROVE  pc'[q] = pc[q] /\ local'[q] = local[q]
<1> USE DEF RunTypes, Goto
<1>1. pc'[q] = pc[q]
  BY DEF Begin, Run, Proceed, Enter, Loop, Open, ReaderFails, Recover, WakeUp, Scan, ObservePoll,
     Deliver, NextPoll, Leave, Release, Interrupt, runVars
<1>2. local'[q] = local[q]
  BY DEF Begin, Run, Proceed, Enter, Loop, Open, ReaderFails, Recover, WakeUp, Scan, ObservePoll,
     Deliver, NextPoll, Leave, Release, Interrupt, runVars
<1> QED BY <1>1, <1>2

\* Everybody but the threads in run().
Around == Stop \/ SnapshotAge \/ SnapshotState \/ MoveCard \/ Tick \/ UNCHANGED vars

LEMMA AroundLeavesRuns ==
    ASSUME Around PROVE UNCHANGED <<pc, local, runLock, device, state, told>>
BY DEF Around, Stop, SnapshotAge, SnapshotState, MoveCard, Tick, vars, runVars, healthVars

\* The delay starts anew with every poll.
DelayInv == \A r \in Runner : ~local[r].backedOff => local[r].delay = RetryInitial

LEMMA DelayThread ==
    ASSUME RunTypes, DelayInv, NEW r \in Runner, Begin(r) \/ Run(r)
    PROVE  ~local'[r].backedOff => local'[r].delay = RetryInitial
<1> USE DEF RunTypes
<1>0. local[r] \in Locals /\ (~local[r].backedOff => local[r].delay = RetryInitial)
  BY DEF DelayInv
<1>1. CASE Begin(r) \/ Loop(r) \/ NextPoll(r) \/ Leave(r)
  BY <1>0, <1>1 DEF Begin, Loop, NextPoll, Leave
<1>2. CASE Enter(r) \/ Release(r)
  BY <1>0, <1>2 DEF Enter, Release, NewLocals
<1>3. CASE Open(r)
  BY <1>0, <1>3 DEF Open, Opened, Locals
<1>4. CASE ReaderFails(r)
  BY <1>0, <1>4 DEF ReaderFails, Locals
<1>5. CASE Recover(r)
  BY <1>0, <1>5 DEF Recover, Locals
<1>6. CASE WakeUp(r)
  BY <1>0, <1>6 DEF WakeUp, Locals
<1>7. CASE Scan(r)
  <2>1. PICK tag : local' = [local EXCEPT ![r].tag = tag, ![r].polled = TRUE]
    BY <1>7 DEF Scan
  <2> QED BY <1>0, <2>1 DEF Locals
<1>8. CASE ObservePoll(r)
  BY <1>0, <1>8 DEF ObservePoll, Polled, Locals
<1>9. CASE Deliver(r)
  <2>1. PICK events : local' = [local EXCEPT ![r].events = events]
    BY <1>9 DEF Deliver
  <2> QED BY <1>0, <2>1 DEF Locals
<1>10. CASE Interrupt(r)
  BY <1>0, <1>10 DEF Interrupt, Locals
<1> QED BY <1>1, <1>2, <1>3, <1>4, <1>5, <1>6, <1>7, <1>8, <1>9, <1>10 DEF Run, Proceed

LEMMA DelayStep ==
    ASSUME RunTypes, DelayInv, [Next]_vars PROVE DelayInv'
<1>1. CASE Around
  BY <1>1, AroundLeavesRuns DEF DelayInv
<1>2. ASSUME NEW r \in Runner, Begin(r) \/ Run(r) PROVE DelayInv'
  BY <1>2, OthersRest, DelayThread DEF DelayInv
<1> QED BY <1>1, <1>2 DEF Next, Around

LEMMA TypeStep ==
    ASSUME TypeOK, [Next]_vars PROVE TypeOK'
<1>1. TypeOK <=> RunTypes /\ SideTypes /\ DelayInv
  BY DEF TypeOK, RunTypes, SideTypes, DelayInv
<1>2. RunTypes'
  BY <1>1, TypeRun, TypeEnvironment DEF Next
<1>3. TypeOK' <=> RunTypes' /\ SideTypes' /\ DelayInv'
  BY DEF TypeOK, RunTypes, SideTypes, DelayInv
<1> QED BY <1>1, <1>2, <1>3, TypeSide, DelayStep

\* Every variable keeps its type; in particular the retry delay never leaves
\* the interval from retry_initial to retry_max, and starts anew with a poll.
THEOREM ScannerTyped == Spec => []TypeOK
BY TypeInit, TypeStep, PTL DEF Spec

-----------------------------------------------------------------------------
(* One run at a time *)

\* The lock is held by exactly the thread that is in run(), from the call that
\* acquires it to the end of the outer finally.
LockInv == \A r \in Runner : pc[r] # "idle" <=> runLock = r

\* Nobody else is in run() while one thread is.
LEMMA Alone ==
    ASSUME LockInv, NEW r \in Runner, pc[r] # "idle", NEW q \in Runner, q # r
    PROVE  pc[q] = "idle"
BY DEF LockInv

\* Between the call and the return the lock stays where it is.
Inside(r) ==
    \/ Loop(r) \/ Open(r) \/ ReaderFails(r) \/ Recover(r) \/ WakeUp(r) \/ Scan(r)
    \/ ObservePoll(r) \/ Deliver(r) \/ NextPoll(r) \/ Leave(r) \/ Interrupt(r)

LEMMA InsideKeepsLock ==
    ASSUME RunTypes, NEW r \in Runner, Inside(r)
    PROVE  runLock' = runLock /\ pc[r] # "idle" /\ pc'[r] # "idle"
<1> USE DEF RunTypes, Goto
<1>1. runLock' = runLock /\ pc[r] # "idle"
  BY DEF Inside, Loop, Open, ReaderFails, Recover, WakeUp, Scan, ObservePoll, Deliver, NextPoll,
         Leave, Interrupt
<1>2. pc'[r] # "idle"
  BY DEF Inside, Loop, Open, ReaderFails, Recover, WakeUp, Scan, ObservePoll, Deliver, NextPoll,
         Leave, Interrupt
<1> QED BY <1>1, <1>2

LEMMA LockThread ==
    ASSUME RunTypes, LockInv, NEW r \in Runner, Begin(r) \/ Run(r) PROVE LockInv'
<1>1. \A q \in Runner : q # r => pc'[q] = pc[q]
  BY OthersRest
<1>2. CASE Begin(r)
  <2>1. runLock = Nobody /\ runLock' = r /\ pc'[r] # "idle"
    BY <1>2 DEF Begin, MayBegin, Goto, RunTypes
  <2>2. \A q \in Runner : pc[q] = "idle"
    BY <2>1, ScannerAssumption DEF LockInv
  <2> QED BY <1>1, <2>1, <2>2 DEF LockInv
<1>3. CASE Inside(r)
  BY <1>1, <1>3, InsideKeepsLock DEF LockInv
<1>4. CASE (Enter(r) /\ stopSet) \/ Release(r)
  <2>1. pc[r] # "idle" /\ runLock' = Nobody /\ pc'[r] = "idle"
    BY <1>4 DEF Enter, Release, Goto, RunTypes
  <2>2. \A q \in Runner : pc'[q] = "idle"
    BY <1>1, <2>1, Alone
  <2> QED BY <2>1, <2>2, ScannerAssumption DEF LockInv
<1>5. CASE Enter(r) /\ ~stopSet
  <2>1. pc[r] # "idle" /\ runLock' = runLock /\ pc'[r] # "idle"
    BY <1>5 DEF Enter, Goto, RunTypes
  <2> QED BY <1>1, <2>1 DEF LockInv
<1> QED BY <1>2, <1>3, <1>4, <1>5 DEF Run, Proceed, Inside

LEMMA LockStep ==
    ASSUME RunTypes, LockInv, [Next]_vars PROVE LockInv'
<1>1. CASE Around
  BY <1>1, AroundLeavesRuns DEF LockInv
<1>2. ASSUME NEW r \in Runner, Begin(r) \/ Run(r) PROVE LockInv'
  BY <1>2, LockThread
<1> QED BY <1>1, <1>2 DEF Next, Around

LEMMA LockInit == Init => LockInv
BY ScannerAssumption DEF Init, LockInv

\* Two threads are never past the stop check of run() together, whatever calls
\* run(), and however the runs before ended.
THEOREM OneRunAtATime == Spec => []SoleRunner
<1>1. TypeOK => RunTypes
  BY DEF TypeOK, RunTypes
<1>2. TypeOK /\ LockInv /\ [Next]_vars => LockInv'
  BY <1>1, LockStep
<1>3. LockInv => SoleRunner
  BY DEF LockInv, SoleRunner, InRun
<1> QED BY LockInit, <1>2, <1>3, ScannerTyped, PTL DEF Spec

-----------------------------------------------------------------------------
(* The reader is closed on every way out *)

\* A run that will not close its reader has closed it, or is about to; it has
\* then waited for a retry, unless it is still in its first recovery.  Only an
\* interrupt takes an open reader past that.
RunInv(r) == InRun(r) =>
    /\ pc[r] \in {"scan", "polled", "deliver"} \/ local[r].opened => local[r].needsClose
    /\ ~local[r].needsClose /\ pc[r] \in {"loop", "open", "scan", "failing"} =>
          local[r].backedOff
    /\ device = "open" =>
          \/ local[r].needsClose /\ pc[r] # "left"
          \/ pc[r] = "failing"
          \/ pc[r] \in {"leaving", "left"} /\ local[r].error = "interrupt" /\ local[r].backedOff

DeviceInv == \A r \in Runner : RunInv(r)

LEMMA DeviceThread ==
    ASSUME RunTypes, LockInv, DeviceInv, NEW r \in Runner, Begin(r) \/ Run(r)
    PROVE  RunInv(r)'
<1> USE DEF RunTypes, Goto, RunInv, InRun
<1>0. local[r] \in Locals /\ RunInv(r)
  BY DEF DeviceInv
<1>1. CASE Begin(r) \/ Release(r)
  BY <1>1 DEF Begin, Release
<1>2. CASE Enter(r)
  BY <1>2 DEF Enter, NewLocals
<1>3. CASE Loop(r) \/ NextPoll(r)
  BY <1>0, <1>3 DEF Loop, NextPoll
<1>4. CASE Open(r)
  BY <1>0, <1>4 DEF Open, Opened, Locals
<1>5. CASE ReaderFails(r)
  BY <1>0, <1>5 DEF ReaderFails, Locals
<1>6. CASE Recover(r)
  BY <1>0, <1>6 DEF Recover, Locals
<1>7. CASE WakeUp(r)
  BY <1>0, <1>7 DEF WakeUp, Locals
<1>8. CASE Scan(r)
  <2>1. PICK tag : local' = [local EXCEPT ![r].tag = tag, ![r].polled = TRUE]
    BY <1>8 DEF Scan
  <2>2. local'[r].opened = local[r].opened /\ local'[r].needsClose = local[r].needsClose
    BY <1>0, <2>1 DEF Locals
  <2>3. pc[r] = "scan" /\ pc'[r] = "polled" /\ device' = device
    BY <1>8 DEF Scan
  <2> QED BY <1>0, <2>2, <2>3
<1>9. CASE ObservePoll(r)
  BY <1>0, <1>9 DEF ObservePoll, Polled, Locals
<1>10. CASE Deliver(r)
  <2>1. PICK events : local' = [local EXCEPT ![r].events = events]
    BY <1>10 DEF Deliver
  <2>2. local'[r].opened = local[r].opened /\ local'[r].needsClose = local[r].needsClose
    BY <1>0, <2>1 DEF Locals
  <2>3. pc[r] = "deliver" /\ pc'[r] \in {"deliver", "leaving"} /\ device' = device
    BY <1>10 DEF Deliver
  <2> QED BY <1>0, <2>2, <2>3
<1>11. CASE Leave(r)
  BY <1>0, <1>11 DEF Leave
<1>12. CASE Interrupt(r)
  BY <1>0, <1>12 DEF Interrupt, Locals
<1> QED
  BY <1>1, <1>2, <1>3, <1>4, <1>5, <1>6, <1>7, <1>8, <1>9, <1>10, <1>11, <1>12 DEF Run, Proceed

LEMMA DeviceStep ==
    ASSUME RunTypes, LockInv, DeviceInv, [Next]_vars PROVE DeviceInv'
<1>1. CASE Around
  BY <1>1, AroundLeavesRuns DEF DeviceInv, RunInv, InRun
<1>2. ASSUME NEW r \in Runner, Begin(r) \/ Run(r), NEW q \in Runner, q # r PROVE RunInv(q)'
  <2>1. pc[r] # "idle" \/ Begin(r)
    BY <1>2 DEF Run, Proceed, Enter, Loop, Open, ReaderFails, Recover, WakeUp, Scan, ObservePoll,
       Deliver, NextPoll, Leave, Release, Interrupt
  <2>2. pc[q] = "idle"
    BY <1>2, <2>1, Alone, ScannerAssumption DEF Begin, MayBegin, LockInv
  <2>3. pc'[q] = "idle"
    BY <1>2, <2>2, OthersRest
  <2> QED BY <2>3 DEF RunInv, InRun
<1>3. ASSUME NEW r \in Runner, Begin(r) \/ Run(r) PROVE DeviceInv'
  BY <1>2, <1>3, DeviceThread DEF DeviceInv
<1> QED BY <1>1, <1>3 DEF Next, Around

\* A run that ends has closed its reader, or its close() has raised, or an
\* interrupt came while it was opening the reader again after a failure: stop,
\* errors, recoveries and raising callbacks leave no reader open.
THEOREM NoReaderLeftOpen == Spec => []ReaderReleased
<1>1. TypeOK => RunTypes
  BY DEF TypeOK, RunTypes
<1>2. TypeOK /\ LockInv /\ [Next]_vars => LockInv'
  BY <1>1, LockStep
<1>3. TypeOK /\ LockInv /\ DeviceInv /\ [Next]_vars => DeviceInv'
  BY <1>1, DeviceStep
<1>4. Init => DeviceInv
  BY DEF Init, DeviceInv, RunInv, InRun
<1>5. DeviceInv => ReaderReleased
  BY DEF DeviceInv, RunInv, ReaderReleased, InRun
<1> QED BY LockInit, <1>2, <1>3, <1>4, <1>5, ScannerTyped, PTL DEF Spec

-----------------------------------------------------------------------------
(* Health *)

\* A reader that has been polled is open; one about to be opened or closed
\* again has not been polled since.
PollsInv(r) ==
    /\ pc[r] = "open" => ~local[r].opened
    /\ pc[r] = "scan" \/ local[r].polled => local[r].opened
    /\ pc[r] = "failing" => ~local[r].polled

\* The run that the state "running" speaks of.
Vouches(r) == InRun(r) /\ (local[r].polled \/ pc[r] \in {"failing", "leaving", "left"})

RunningInv ==
    /\ \A r \in Runner : PollsInv(r)
    /\ state = "running" => \E r \in Runner : Vouches(r)

LEMMA VouchesAlone ==
    ASSUME LockInv, RunningInv, NEW r \in Runner, pc[r] # "idle", state = "running"
    PROVE  Vouches(r)
<1>1. PICK q \in Runner : Vouches(q)
  BY DEF RunningInv
<1>2. pc[q] # "idle"
  BY <1>1 DEF Vouches, InRun
<1> QED BY <1>1, <1>2, Alone

LEMMA PollsThread ==
    ASSUME RunTypes, RunningInv, NEW r \in Runner, Begin(r) \/ Run(r)
    PROVE  PollsInv(r)'
<1> USE DEF RunTypes, Goto, PollsInv
<1>0. local[r] \in Locals /\ PollsInv(r)
  BY DEF RunningInv
<1>1. CASE Begin(r) \/ NextPoll(r) \/ Leave(r)
  BY <1>0, <1>1 DEF Begin, NextPoll, Leave
<1>11. CASE Interrupt(r)
  BY <1>0, <1>11 DEF Interrupt, Locals
<1>2. CASE Enter(r) \/ Release(r)
  BY <1>0, <1>2 DEF Enter, Release, NewLocals
<1>3. CASE Loop(r)
  BY <1>0, <1>3 DEF Loop
<1>4. CASE Open(r)
  BY <1>0, <1>4 DEF Open, Opened, Locals
<1>5. CASE ReaderFails(r)
  BY <1>0, <1>5 DEF ReaderFails, Locals
<1>6. CASE Recover(r)
  BY <1>0, <1>6 DEF Recover, Locals
<1>7. CASE WakeUp(r)
  BY <1>0, <1>7 DEF WakeUp, Locals
<1>8. CASE ObservePoll(r)
  BY <1>0, <1>8 DEF ObservePoll, Polled, Locals
<1>9. CASE Deliver(r)
  <2>1. PICK events : local' = [local EXCEPT ![r].events = events]
    BY <1>9 DEF Deliver
  <2>2. local'[r].opened = local[r].opened /\ local'[r].polled = local[r].polled
    BY <1>0, <2>1 DEF Locals
  <2>3. pc'[r] \in {"deliver", "leaving"}
    BY <1>9 DEF Deliver
  <2> QED BY <1>0, <2>2, <2>3
<1>10. CASE Scan(r)
  <2>1. PICK tag \in {card, None} :
           local' = [local EXCEPT ![r].tag = tag, ![r].polled = TRUE]
    BY <1>10 DEF Scan
  <2>2. local'[r].opened = local[r].opened
    BY <1>0, <2>1 DEF Locals
  <2>3. pc[r] = "scan" /\ pc'[r] = "polled"
    BY <1>10 DEF Scan
  <2> QED BY <1>0, <2>2, <2>3
<1> QED BY <1>1, <1>2, <1>3, <1>4, <1>5, <1>6, <1>7, <1>8, <1>9, <1>10, <1>11 DEF Run, Proceed

\* Whatever step of a thread ends in "running", some run vouches for that.
LEMMA RunningThread ==
    ASSUME RunTypes, LockInv, RunningInv, NEW r \in Runner, Begin(r) \/ Run(r),
           state' = "running"
    PROVE  \E q \in Runner : Vouches(q)'
<1> USE DEF RunTypes, Goto
<1>0. local[r] \in Locals /\ PollsInv(r)
  BY DEF RunningInv
<1>1. CASE Begin(r)
  <2>1. \A q \in Runner : pc[q] = "idle"
    BY <1>1, ScannerAssumption DEF Begin, MayBegin, LockInv
  <2>2. state # "running"
    BY <2>1 DEF RunningInv, Vouches, InRun
  <2> QED BY <1>1, <2>2 DEF Begin, healthVars
<1>2. CASE Enter(r) \/ Open(r)
  <2>1. pc[r] # "idle" /\ ~Vouches(r)
    BY <1>0, <1>2 DEF Enter, Open, Vouches, InRun, PollsInv
  <2>2. state # "running"
    BY <2>1, VouchesAlone
  <2> QED BY <1>2, <2>2 DEF Enter, Open, healthVars
<1>3. CASE Release(r)
  BY <1>3 DEF Release, StateAtEnd
<1>4. CASE Recover(r)
  <2>1. pc'[r] = "leaving"
    BY <1>4 DEF Recover
  <2> QED BY <2>1 DEF Vouches, InRun
<1>5. CASE ReaderFails(r)
  <2>1. pc'[r] = "failing"
    BY <1>5 DEF ReaderFails
  <2> QED BY <2>1 DEF Vouches, InRun
<1>6. CASE Leave(r) \/ Interrupt(r)
  <2>1. pc'[r] \in {"leaving", "left"}
    BY <1>6 DEF Leave, Interrupt
  <2> QED BY <2>1 DEF Vouches, InRun
<1>7. CASE Scan(r)
  <2>1. PICK tag \in {card, None} :
           local' = [local EXCEPT ![r].tag = tag, ![r].polled = TRUE]
    BY <1>7 DEF Scan
  <2>2. local'[r].polled
    BY <1>0, <2>1 DEF Locals
  <2>3. pc'[r] = "polled"
    BY <1>7 DEF Scan
  <2> QED BY <2>2, <2>3 DEF Vouches, InRun
<1>8. CASE Loop(r) \/ NextPoll(r)
  <2>1. /\ pc[r] \in {"loop", "deliver"} /\ state = "running" /\ local' = local
        /\ pc'[r] \in {"loop", "open", "scan", "leaving"}
    BY <1>8 DEF Loop, NextPoll, healthVars
  <2>2. Vouches(r)
    BY <2>1, VouchesAlone
  <2> QED BY <2>1, <2>2 DEF Vouches, InRun
<1>9. CASE WakeUp(r) \/ ObservePoll(r) \/ Deliver(r)
  <2>1. /\ pc[r] \in {"waiting", "polled", "deliver"} /\ state = "running"
        /\ pc'[r] \in {"loop", "deliver", "leaving"}
    BY <1>9 DEF WakeUp, ObservePoll, Deliver, healthVars
  <2>2. local'[r].polled = local[r].polled
    <3>1. CASE WakeUp(r)
      BY <1>0, <3>1 DEF WakeUp, Locals
    <3>2. CASE ObservePoll(r)
      BY <1>0, <3>2 DEF ObservePoll, Polled, Locals
    <3>3. CASE Deliver(r)
      <4>1. PICK events : local' = [local EXCEPT ![r].events = events]
        BY <3>3 DEF Deliver
      <4> QED BY <1>0, <4>1 DEF Locals
    <3> QED BY <1>9, <3>1, <3>2, <3>3
  <2>3. Vouches(r)
    BY <2>1, VouchesAlone
  <2> QED BY <2>1, <2>2, <2>3 DEF Vouches, InRun
<1> QED BY <1>1, <1>2, <1>3, <1>4, <1>5, <1>6, <1>7, <1>8, <1>9 DEF Run, Proceed

LEMMA RunningStep ==
    ASSUME RunTypes, LockInv, RunningInv, [Next]_vars PROVE RunningInv'
<1>1. CASE Around
  BY <1>1, AroundLeavesRuns DEF RunningInv, PollsInv, Vouches, InRun
<1>2. ASSUME NEW r \in Runner, Begin(r) \/ Run(r) PROVE RunningInv'
  <2>1. \A q \in Runner : q # r => PollsInv(q)'
    BY <1>2, OthersRest DEF RunningInv, PollsInv
  <2> QED BY <1>2, <2>1, PollsThread, RunningThread DEF RunningInv
<1> QED BY <1>1, <1>2 DEF Next, Around

\* A snapshot that ends in "healthy" speaks of a run that has polled since it
\* last opened its reader, or whose first failure after that is being handled.
THEOREM HealthyRunsPoll == Spec => HealthyIsTrue
<1>1. TypeOK => RunTypes
  BY DEF TypeOK, RunTypes
<1>2. TypeOK /\ LockInv /\ [Next]_vars => LockInv'
  BY <1>1, LockStep
<1>3. TypeOK /\ LockInv /\ RunningInv /\ [Next]_vars => RunningInv'
  BY <1>1, RunningStep
<1>4. Init => RunningInv
  BY DEF Init, RunningInv, PollsInv, NewLocals
<1>5. RunningInv /\ [Next]_vars =>
         [SnapshotState /\ healthy' =>
             \E r \in Runner :
                InRun(r) /\ (local[r].polled \/ pc[r] \in {"failing", "leaving", "left"})]_vars
  BY DEF RunningInv, Vouches, SnapshotState
<1> QED BY LockInit, <1>2, <1>3, <1>4, <1>5, ScannerTyped, PTL DEF Spec, HealthyIsTrue

-----------------------------------------------------------------------------
(* One scan per stay *)

\* A card that the tracker has been given in this stay is its own, seen when it
\* was; a poll under way has read the card that lies there, or may miss it.
StayInv ==
    /\ readAt = None => scans = 0
    /\ readAt # None =>
          card # None /\ tracker.uid = card /\ scans <= 1 /\ tracker.lastSeen = readAt
    /\ \A r \in Runner : pc[r] = "polled" => local[r].tag = card \/ (local[r].tag = None /\ MayMiss)

LEMMA StayScan ==
    ASSUME RunTypes, LockInv, StayInv, NEW r \in Runner, Scan(r) PROVE StayInv'
<1> USE DEF RunTypes, Goto
<1>1. PICK tag \in {card} \cup (IF MayMiss THEN {None} ELSE {}) :
         local' = [local EXCEPT ![r].tag = tag, ![r].polled = TRUE]
  BY DEF Scan
<1>2. local'[r].tag = tag /\ pc[r] = "scan" /\ UNCHANGED <<card, scans, readAt, tracker>>
  BY <1>1 DEF Scan, Locals, cardVars
<1>3. \A q \in Runner : q # r => pc'[q] # "polled"
  BY <1>2, Alone DEF Scan
<1>4. tag = card \/ (tag = None /\ MayMiss)
  BY <1>1
<1> QED BY <1>2, <1>3, <1>4 DEF StayInv, MayMiss

LEMMA StayObserve ==
    ASSUME RunTypes, LockInv, StayInv, NEW r \in Runner, ObservePoll(r) PROVE StayInv'
<1> USE PresenceAssumption DEF RunTypes, Goto
<1> DEFINE tag == local[r].tag
<1>1. /\ pc[r] = "polled" /\ pc'[r] = "deliver" /\ card' = card
      /\ tracker' = Observe(tracker, tag, 0)
      /\ scans' = IF Admits(tracker, tag, 0) THEN scans + 1 ELSE scans
      /\ readAt' = IF tag = None THEN readAt ELSE 0
  BY DEF ObservePoll
<1>2. \A q \in Runner : pc'[q] # "polled"
  BY <1>1, Alone DEF ObservePoll
<1>3. tracker \in Trackers /\ 0 \in Int /\ tag \in Uid \cup {None} /\ scans \in Nat
  BY DEF Locals
<1>4. CASE tag = None
  <2>1. readAt' = readAt /\ scans' = scans
    BY <1>1, <1>3, <1>4, ObserveNone
  <2>2. readAt # None => MayMiss /\ tracker.lastSeen = readAt
    BY <1>1, <1>4 DEF StayInv
  <2>3. readAt # None => ~Removes(tracker, None, 0)
    BY <2>2 DEF Removes, MayMiss
  <2>4. readAt # None => tracker' = tracker
    BY <1>1, <1>3, <1>4, <2>3, ObserveNone
  <2> QED BY <1>1, <1>2, <2>1, <2>4 DEF StayInv
<1>5. CASE tag # None
  <2>1. tag \in Uid /\ tag = card /\ readAt' = 0
    BY <1>1, <1>3, <1>5 DEF StayInv
  <2>2. scans = 0 \/ (tracker.uid = card /\ scans <= 1)
    BY DEF StayInv
  <2>3. CASE tracker.uid = tag
    <3>1. tracker' = [tracker EXCEPT !.lastSeen = 0] /\ scans' = scans
      BY <1>1, <1>3, <2>1, <2>3, ObserveSame
    <3>2. tracker'.uid = card /\ tracker'.lastSeen = 0
      BY <1>3, <2>1, <2>3, <3>1 DEF Trackers
    <3> QED BY <1>1, <1>2, <2>1, <2>2, <3>1, <3>2 DEF StayInv
  <2>4. CASE tracker.uid # tag
    <3>1. tracker'.uid = card /\ tracker'.lastSeen = 0 /\ scans' = scans + 1
      BY <1>1, <1>3, <2>1, <2>4, ObserveOther
    <3>2. scans = 0
      BY <2>1, <2>2, <2>4
    <3> QED BY <1>1, <1>2, <2>1, <3>1, <3>2 DEF StayInv
  <2> QED BY <2>3, <2>4
<1> QED BY <1>4, <1>5

\* The steps of run() in which neither a card is read nor the tracker told.
OffPoll(r) ==
    \/ Begin(r) \/ Enter(r) \/ Loop(r) \/ Open(r) \/ ReaderFails(r) \/ Recover(r)
    \/ WakeUp(r) \/ Deliver(r) \/ NextPoll(r) \/ Leave(r) \/ Release(r) \/ Interrupt(r)

LEMMA OffPollRests ==
    ASSUME RunTypes, NEW r \in Runner, OffPoll(r)
    PROVE  UNCHANGED <<card, readAt, scans, tracker>> /\ pc'[r] # "polled"
<1> USE DEF RunTypes, Goto
<1>1. UNCHANGED <<card, readAt, scans, tracker>>
  BY DEF OffPoll, Begin, Enter, Loop, Open, ReaderFails, Recover, WakeUp, Deliver, NextPoll, Leave,
         Release, Interrupt, cardVars
<1>2. pc'[r] # "polled"
  BY DEF OffPoll, Begin, Enter, Loop, Open, ReaderFails, Recover, WakeUp, Deliver, NextPoll, Leave,
         Release, Interrupt
<1> QED BY <1>1, <1>2

LEMMA StayOffPoll ==
    ASSUME RunTypes, StayInv, NEW r \in Runner, Begin(r) \/ Run(r), OffPoll(r) PROVE StayInv'
<1>1. \A q \in Runner : q # r => pc'[q] = pc[q] /\ local'[q] = local[q]
  BY OthersRest
<1>2. UNCHANGED <<card, readAt, scans, tracker>> /\ pc'[r] # "polled"
  BY OffPollRests
<1> QED BY <1>1, <1>2 DEF StayInv, MayMiss

LEMMA StayAround ==
    ASSUME RunTypes, StayInv, Around PROVE StayInv'
<1>1. \A q \in Runner : pc'[q] = pc[q] /\ local'[q] = local[q]
  BY AroundLeavesRuns
<1>2. CASE Stop \/ SnapshotAge \/ SnapshotState \/ UNCHANGED vars
  <2>1. UNCHANGED <<card, readAt, scans, tracker>>
    BY <1>2 DEF Stop, SnapshotAge, SnapshotState, vars, cardVars
  <2> QED BY <1>1, <2>1 DEF StayInv, MayMiss
<1>3. CASE MoveCard
  <2>1. readAt' = None /\ scans' = 0 /\ \A q \in Runner : pc'[q] # "polled"
    BY <1>1, <1>3 DEF MoveCard, Settled
  <2> QED BY <2>1 DEF StayInv
<1>4. CASE Tick
  <2>1. UNCHANGED <<card, scans>> /\ readAt' = Older(readAt, -RemovalTicks)
        /\ tracker' = [tracker EXCEPT !.lastSeen = Older(@, -RemovalTicks)]
        /\ \A q \in Runner : pc'[q] # "polled"
    BY <1>1, <1>4 DEF Tick, Settled
  <2>2. /\ tracker'.uid = tracker.uid
        /\ tracker'.lastSeen = Older(tracker.lastSeen, -RemovalTicks)
    BY <2>1 DEF RunTypes, Trackers
  <2>3. readAt' = None <=> readAt = None
    BY <2>1, PresenceAssumption DEF RunTypes, Older
  <2> QED BY <2>1, <2>2, <2>3 DEF StayInv
<1> QED BY <1>2, <1>3, <1>4 DEF Around

LEMMA StayStep ==
    ASSUME RunTypes, LockInv, StayInv, [Next]_vars PROVE StayInv'
<1>1. ASSUME NEW r \in Runner, Begin(r) \/ Run(r) PROVE StayInv'
  <2>1. Scan(r) \/ ObservePoll(r) \/ OffPoll(r)
    BY <1>1 DEF Run, Proceed, OffPoll
  <2> QED BY <1>1, <2>1, StayScan, StayObserve, StayOffPoll
<1> QED BY <1>1, StayAround DEF Next, Around

\* A card that stays is scanned at most once, whatever errors, recoveries and
\* runs come between its polls and however long the removal delay is.
THEOREM RestingCardScannedOnce == Spec => []OneScanPerStay
<1>1. TypeOK => RunTypes
  BY DEF TypeOK, RunTypes
<1>2. TypeOK /\ LockInv /\ [Next]_vars => LockInv'
  BY <1>1, LockStep
<1>3. TypeOK /\ LockInv /\ StayInv /\ [Next]_vars => StayInv'
  BY <1>1, StayStep
<1>4. Init => StayInv
  BY DEF Init, StayInv
<1>5. StayInv => OneScanPerStay
  BY DEF StayInv, OneScanPerStay
<1> QED BY LockInit, <1>2, <1>3, <1>4, <1>5, ScannerTyped, PTL DEF Spec

-----------------------------------------------------------------------------
(* on_event is told one story *)

\* The tracker's state is what the event e says.
Ends(e, t) ==
    /\ e.generation = t.generation
    /\ IF t.uid = None THEN e.kind = "removed" ELSE e.kind = "scanned" /\ e.uid = t.uid

\* One event or two that carry the story on from e to the tracker t.
Chain(e, events, t) ==
    \/ \E f \in Event : events = <<f>> /\ Follows(e, f) /\ Ends(f, t)
    \/ \E f, g \in Event : events = <<f, g>> /\ Follows(e, f) /\ Follows(f, g) /\ Ends(g, t)

\* What has not been told yet leads from the last event told to the tracker.
StoryInv ==
    /\ \A r \in Runner : local[r].events # <<>> =>
          pc[r] = "deliver" /\ Chain(told, local[r].events, tracker)
    /\ (\A r \in Runner : local[r].events = <<>>) => Ends(told, tracker)

LEMMA ObservedChain ==
    ASSUME NEW t \in Trackers, NEW tag \in Uid \cup {None}, NEW e \in Event, Ends(e, t)
    PROVE  LET events == Events(t, tag, 0)
           IN  IF events = <<>> THEN Ends(e, Observe(t, tag, 0))
               ELSE Chain(e, events, Observe(t, tag, 0))
<1> USE PresenceAssumption
<1> DEFINE r == Removal(t)
           a == Admission(t, tag)
           n == Observe(t, tag, 0)
<1>0. /\ 0 \in Int /\ t.uid \in Uid \cup {None} /\ t.generation \in Nat
      /\ r \in Event
      /\ <<r>> # <<>> /\ <<a>> # <<>> /\ <<r, a>> # <<>>
  BY DEF Trackers, Removal, Event
<1>1. t.uid # None => Follows(e, r)
  BY DEF Ends, Follows, Removal, Event
<1>2. t.uid = None => Follows(e, a)
  BY DEF Ends, Follows, Admission
<1>3. Follows(r, a)
  BY DEF Follows, Removal, Admission
<1>4. CASE tag = None
  <2>1. ~Admits(t, tag, 0)
    BY <1>0, <1>4, ObserveNone
  <2>2. CASE Removes(t, tag, 0)
    <3>1. t.uid # None /\ n = [t EXCEPT !.uid = None, !.lastSeen = None]
      BY <1>0, <1>4, <2>2, ObserveNone
    <3>2. Ends(r, n)
      BY <3>1 DEF Ends, Removal, Trackers
    <3>3. Events(t, tag, 0) = <<r>>
      BY <2>1, <2>2, EventShapes
    <3> QED BY <1>0, <1>1, <3>1, <3>2, <3>3 DEF Chain
  <2>3. CASE ~Removes(t, tag, 0)
    <3>1. n = t
      BY <1>0, <1>4, <2>3, ObserveNone
    <3>2. Events(t, tag, 0) = <<>>
      BY <2>1, <2>3, EventShapes
    <3> QED BY <3>1, <3>2
  <2> QED BY <2>2, <2>3
<1>5. CASE tag \in Uid /\ t.uid = tag
  <2>1. n = [t EXCEPT !.lastSeen = 0] /\ ~Removes(t, tag, 0) /\ ~Admits(t, tag, 0)
    BY <1>0, <1>5, ObserveSame
  <2>2. Events(t, tag, 0) = <<>>
    BY <2>1, EventShapes
  <2>3. Ends(e, n)
    BY <2>1 DEF Ends, Trackers
  <2> QED BY <2>2, <2>3
<1>6. CASE tag \in Uid /\ t.uid # tag
  <2>1. /\ n = [uid |-> tag, lastSeen |-> 0, generation |-> t.generation + 1]
        /\ Removes(t, tag, 0) <=> t.uid # None
        /\ Admits(t, tag, 0)
    BY <1>0, <1>6, ObserveOther
  <2>2. a \in Event
    BY <1>0, <1>6 DEF Admission, Event
  <2>3. Ends(a, n)
    BY <1>6, <2>1 DEF Ends, Admission
  <2>4. CASE t.uid = None
    <3>1. Events(t, tag, 0) = <<a>>
      BY <2>1, <2>4, EventShapes
    <3> QED BY <1>0, <1>2, <2>2, <2>3, <2>4, <3>1 DEF Chain
  <2>5. CASE t.uid # None
    <3>1. Events(t, tag, 0) = <<r, a>>
      BY <2>1, <2>5, EventShapes
    <3> QED BY <1>0, <1>1, <1>3, <2>2, <2>3, <2>5, <3>1 DEF Chain
  <2> QED BY <2>4, <2>5
<1> QED BY <1>4, <1>5, <1>6

\* Only the thread in run() can have events to tell.
LEMMA StoryAlone ==
    ASSUME LockInv, StoryInv, NEW r \in Runner, pc[r] # "idle", NEW q \in Runner, q # r
    PROVE  local[q].events = <<>>
BY Alone DEF StoryInv

LEMMA StoryObserve ==
    ASSUME RunTypes, LockInv, StoryInv, NEW r \in Runner, Begin(r) \/ Run(r), ObservePoll(r)
    PROVE  StoryInv'
<1> USE DEF RunTypes, Goto
<1> DEFINE tag == local[r].tag
<1>1. /\ pc[r] = "polled" /\ pc'[r] = "deliver" /\ told' = told
      /\ tracker' = Observe(tracker, tag, 0)
      /\ local'[r].events = Events(tracker, tag, 0)
  BY DEF ObservePoll, Polled, Locals
<1>2. \A q \in Runner : q # r => local[q].events = <<>> /\ local'[q].events = <<>>
  BY <1>1, StoryAlone, OthersRest
<1>3. local[r].events = <<>>
  BY <1>1 DEF StoryInv
<1>4. Ends(told, tracker)
  BY <1>2, <1>3 DEF StoryInv
<1>5. tag \in Uid \cup {None}
  BY DEF Locals
<1>6. IF local'[r].events = <<>> THEN Ends(told', tracker')
      ELSE Chain(told', local'[r].events, tracker')
  BY <1>1, <1>4, <1>5, ObservedChain
<1> QED BY <1>1, <1>2, <1>6 DEF StoryInv

LEMMA StoryDeliver ==
    ASSUME RunTypes, LockInv, StoryInv, NEW r \in Runner, Begin(r) \/ Run(r), Deliver(r)
    PROVE  StoryInv'
<1> USE DEF RunTypes, Goto
<1> DEFINE events == local[r].events
<1>1. pc[r] = "deliver" /\ events # <<>> /\ tracker' = tracker
  BY DEF Deliver
<1>2. \A q \in Runner : q # r => local'[q].events = <<>>
  BY <1>1, StoryAlone, OthersRest
<1>3. Chain(told, events, tracker)
  BY <1>1 DEF StoryInv
<1>4. CASE told' = Head(events) /\ local' = [local EXCEPT ![r].events = Tail(events)]
           /\ UNCHANGED pc
  <2>1. local'[r].events = Tail(events) /\ pc'[r] = "deliver"
    BY <1>1, <1>4 DEF Locals
  <2>2. CASE \E f \in Event : events = <<f>> /\ Follows(told, f) /\ Ends(f, tracker)
    <3>1. local'[r].events = <<>> /\ Ends(told', tracker')
      BY <1>1, <1>4, <2>1, <2>2
    <3> QED BY <1>2, <3>1 DEF StoryInv
  <2>3. CASE \E f, g \in Event : /\ events = <<f, g>>
                                /\ Follows(told, f) /\ Follows(f, g) /\ Ends(g, tracker)
    <3>1. PICK f \in Event, g \in Event :
             events = <<f, g>> /\ Follows(f, g) /\ Ends(g, tracker)
      BY <2>3
    <3>2. told' = f /\ local'[r].events = <<g>>
      BY <1>4, <2>1, <3>1
    <3>3. Chain(told', local'[r].events, tracker') /\ local'[r].events # <<>>
      BY <1>1, <3>1, <3>2 DEF Chain
    <3> QED BY <1>2, <2>1, <3>3 DEF StoryInv
  <2> QED BY <1>3, <2>2, <2>3 DEF Chain
<1>5. CASE told' = events[Len(events)] /\ local' = [local EXCEPT ![r].events = <<>>]
  <2>1. local'[r].events = <<>>
    BY <1>5 DEF Locals
  <2>2. CASE \E f \in Event : events = <<f>> /\ Follows(told, f) /\ Ends(f, tracker)
    <3>1. PICK f \in Event : events = <<f>> /\ Ends(f, tracker)
      BY <2>2
    <3>2. told' = f
      BY <1>5, <3>1
    <3> QED BY <1>1, <1>2, <2>1, <3>1, <3>2 DEF StoryInv
  <2>3. CASE \E f, g \in Event : /\ events = <<f, g>>
                                /\ Follows(told, f) /\ Follows(f, g) /\ Ends(g, tracker)
    <3>1. PICK f \in Event, g \in Event : events = <<f, g>> /\ Ends(g, tracker)
      BY <2>3
    <3>2. told' = g
      BY <1>5, <3>1
    <3> QED BY <1>1, <1>2, <2>1, <3>1, <3>2 DEF StoryInv
  <2> QED BY <1>3, <2>2, <2>3 DEF Chain
<1> QED BY <1>4, <1>5 DEF Deliver

\* A step that tells nothing and changes no presence.
LEMMA StoryRests ==
    ASSUME RunTypes, StoryInv, NEW r \in Runner, Begin(r) \/ Run(r),
           OffPoll(r) \/ Scan(r), ~Deliver(r)
    PROVE  StoryInv'
<1> USE DEF RunTypes, Goto
<1>1. told' = told /\ tracker' = tracker
  BY DEF OffPoll, Scan, Begin, Enter, Loop, Open, ReaderFails, Recover, WakeUp, NextPoll, Leave,
         Release, Interrupt
<1>2. \A q \in Runner : q # r => pc'[q] = pc[q] /\ local'[q] = local[q]
  BY OthersRest
<1>3. local[r] \in Locals
  OBVIOUS
<1>4. local[r].events = <<>>
  <2>1. pc[r] # "deliver" \/ NextPoll(r) \/ Interrupt(r)
    BY DEF OffPoll, Scan, Begin, Enter, Loop, Open, ReaderFails, Recover, WakeUp, Leave, Release
  <2> QED BY <2>1 DEF StoryInv, NextPoll, Interrupt
<1>5. local'[r].events = <<>>
  <2>1. CASE Begin(r) \/ Loop(r) \/ NextPoll(r) \/ Leave(r)
    BY <1>4, <2>1 DEF Begin, Loop, NextPoll, Leave
  <2>2. CASE Enter(r) \/ Release(r)
    BY <1>4, <2>2 DEF Enter, Release, NewLocals
  <2>3. CASE Open(r) \/ Recover(r) \/ WakeUp(r)
    <3>1. CASE Open(r)
      BY <1>3, <1>4, <3>1 DEF Open, Opened, Locals
    <3>2. CASE Recover(r)
      BY <1>3, <1>4, <3>2 DEF Recover, Locals
    <3>3. CASE WakeUp(r)
      BY <1>3, <1>4, <3>3 DEF WakeUp, Locals
    <3> QED BY <2>3, <3>1, <3>2, <3>3
  <2>4. CASE ReaderFails(r)
    <3>1. PICK error \in ReaderErrors :
             local' = [local EXCEPT ![r].error = error, ![r].polled = FALSE]
      BY <2>4 DEF ReaderFails
    <3> QED BY <1>3, <1>4, <3>1 DEF Locals
  <2>5. CASE Scan(r)
    <3>1. PICK tag : local' = [local EXCEPT ![r].tag = tag, ![r].polled = TRUE]
      BY <2>5 DEF Scan
    <3> QED BY <1>3, <1>4, <3>1 DEF Locals
  <2>6. CASE Interrupt(r)
    BY <1>3, <1>4, <2>6 DEF Interrupt, Locals
  <2> QED BY <2>1, <2>2, <2>3, <2>4, <2>5, <2>6 DEF OffPoll
<1>6. \A q \in Runner : local'[q].events = local[q].events
  BY <1>2, <1>4, <1>5
<1>7. \A q \in Runner : local[q].events # <<>> => q # r /\ pc'[q] = pc[q]
  BY <1>2, <1>4
<1> QED BY <1>1, <1>6, <1>7 DEF StoryInv

LEMMA StoryAround ==
    ASSUME RunTypes, StoryInv, Around PROVE StoryInv'
<1>1. UNCHANGED <<pc, local, told>>
  BY AroundLeavesRuns
<1>2. tracker'.uid = tracker.uid /\ tracker'.generation = tracker.generation
  BY DEF Around, Stop, SnapshotAge, SnapshotState, MoveCard, Tick, vars, RunTypes, Trackers
<1>3. \A e : Ends(e, tracker') <=> Ends(e, tracker)
  BY <1>2 DEF Ends
<1>4. \A e, s : Chain(e, s, tracker') <=> Chain(e, s, tracker)
  BY <1>3 DEF Chain
<1> QED BY <1>1, <1>3, <1>4 DEF StoryInv

LEMMA StoryStep ==
    ASSUME RunTypes, LockInv, StoryInv, [Next]_vars PROVE StoryInv'
<1>1. ASSUME NEW r \in Runner, Begin(r) \/ Run(r) PROVE StoryInv'
  <2>1. Scan(r) \/ ObservePoll(r) \/ OffPoll(r)
    BY <1>1 DEF Run, Proceed, OffPoll
  <2> QED BY <1>1, <2>1, StoryObserve, StoryDeliver, StoryRests
<1> QED BY <1>1, StoryAround DEF Next, Around

LEMMA StoryInit == Init => StoryInv
BY DEF Init, NewLocals, NewTracker, StoryInv, Ends

\* Only Deliver takes an event off, and the head of what is left to tell follows
\* what was told last.
LEMMA CallsFollow ==
    ASSUME StoryInv, NEW r \in Runner, Calls(r)
    PROVE  Follows(told, Head(local[r].events))
<1>1. Chain(told, local[r].events, tracker)
  BY DEF StoryInv, Calls
<1> QED BY <1>1 DEF Chain

\* However runs end and begin, the events that on_event is called with continue
\* one another: no presence twice, none left out but what a raising call loses.
THEOREM EventsToldInOrder == Spec => TransitionsOnce
<1>1. TypeOK => RunTypes
  BY DEF TypeOK, RunTypes
<1>2. TypeOK /\ LockInv /\ [Next]_vars => LockInv'
  BY <1>1, LockStep
<1>3. TypeOK /\ LockInv /\ StoryInv /\ [Next]_vars => StoryInv'
  BY <1>1, StoryStep
<1>4. StoryInv /\ [Next]_vars =>
         [\A r \in Runner : Calls(r) => Follows(told, Head(local[r].events))]_vars
  BY CallsFollow
<1> QED BY LockInit, StoryInit, <1>2, <1>3, <1>4, ScannerTyped, PTL DEF Spec, TransitionsOnce
=============================================================================
