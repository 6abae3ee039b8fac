------------------------------ MODULE Scanner ------------------------------
(***************************************************************************)
(* Scanner (scanner.py) in a program with threads: some call run(), one    *)
(* calls stop(), another takes health snapshots.  Between a run's steps    *)
(* cards move, time passes, the reader or the callback may raise, and an   *)
(* interrupt (KeyboardInterrupt, SystemExit) may end the run.              *)
(*                                                                         *)
(* Times are relative to the present, as in PresenceTracker.               *)
(***************************************************************************)
EXTENDS Presence

CONSTANTS
    Runner,        \* the threads that call run()
    Nobody,        \* no thread
    Fault,         \* "retry" and "fatal" errors of the reader, "close", "callback",
                   \* and "interrupt", which is no Exception
    RetryInitial,  \* retry_initial
    RetryMax,      \* retry_max
    Freshness,     \* freshness_seconds
    MaxGeneration  \* bound: cards are moved until so many presences

ASSUME ScannerAssumption ==
    /\ Nobody \notin Runner
    /\ RetryInitial \in Nat \ {0}
    /\ RetryMax \in Nat /\ RetryMax >= RetryInitial
    /\ Freshness \in Nat \ {0}
    /\ MaxGeneration \in Nat

VARIABLES
    pc,       \* where a thread is in run()
    local,    \* the local variables of its run
    runLock,  \* _run_lock: the thread that acquired it
    stopSet,  \* the stop event
    device,   \* the reader: "closed", "open", or "stuck" where its close() raised
    tracker,
    state,    \* health.state
    lastPoll, \* health.last_poll_monotonic
    fresh,    \* what a snapshot under way has made of lastPoll; None between snapshots
    healthy,  \* "healthy" of the last snapshot
    card,     \* the card lying on the reader, or None
    readAt,   \* when observe() was last given it since it was put there, or None
    scans,    \* auxiliary: "scanned" events since the card was put there
    told      \* auxiliary: the last event on_event was called with, or lost

runVars == <<pc, local, runLock>>
cardVars == <<card, readAt, scans>>
healthVars == <<state, lastPoll>>
snapVars == <<fresh, healthy>>
vars == <<runVars, stopSet, device, tracker, healthVars, snapVars, cardVars, told>>

Pc == {"idle", "began", "loop", "open", "scan", "failing", "waiting", "polled",
       "deliver", "leaving", "left"}

Event == [kind : {"removed", "scanned"}, uid : Uid \cup {None}, generation : Nat]

\* "polled" and "backedOff" are auxiliary: has this run had a scan() succeed since
\* it last opened the reader, and has it waited for a retry since its last poll?
Locals == [opened : BOOLEAN, needsClose : BOOLEAN, delay : RetryInitial..RetryMax,
           tag : Uid \cup {None}, events : Seq(Event),
           error : {"none", "retry", "fatal", "interrupt"}, polled : BOOLEAN, backedOff : BOOLEAN]

NewLocals == [opened |-> FALSE, needsClose |-> TRUE, delay |-> RetryInitial,
              tag |-> None, events |-> <<>>, error |-> "none",
              polled |-> FALSE, backedOff |-> FALSE]

TypeOK ==
    /\ pc \in [Runner -> Pc]
    /\ local \in [Runner -> Locals]
    /\ \A r \in Runner : ~local[r].backedOff => local[r].delay = RetryInitial
    /\ runLock \in Runner \cup {Nobody}
    /\ stopSet \in BOOLEAN
    /\ device \in {"closed", "open", "stuck"}
    /\ tracker \in Trackers
    /\ state \in {"stopped", "starting", "running", "recovering", "failed"}
    /\ lastPoll \in (-(Freshness + 1))..0 \cup {None}
    /\ fresh \in BOOLEAN \cup {None}
    /\ healthy \in BOOLEAN
    /\ card \in Uid \cup {None}
    /\ readAt \in (-RemovalTicks)..0 \cup {None}
    /\ scans \in Nat
    /\ told \in Event

Init ==
    /\ pc = [r \in Runner |-> "idle"]
    /\ local = [r \in Runner |-> NewLocals]
    /\ runLock = Nobody
    /\ stopSet \in BOOLEAN
    /\ device = "closed"
    /\ tracker = NewTracker
    /\ state = "stopped"
    /\ lastPoll = None
    /\ fresh = None
    /\ healthy = FALSE
    /\ card \in Uid \cup {None}
    /\ readAt = None
    /\ scans = 0
    /\ told = [kind |-> "removed", uid |-> None, generation |-> 0]

-----------------------------------------------------------------------------
(* run() *)

Goto(r, label) == pc' = [pc EXCEPT ![r] = label]

InRun(r) == pc[r] \notin {"idle", "began"}

\* Mutant: the flag _running instead of the lock.
MayBeginUnlocked == \A q \in Runner : ~InRun(q)

MayBegin == runLock = Nobody

\* "scanner already running" is raised while another thread has the lock.
Begin(r) ==
    /\ pc[r] = "idle"
    /\ MayBegin
    /\ runLock' = r
    /\ Goto(r, "began")
    /\ UNCHANGED <<local, device, tracker, healthVars, cardVars, told>>

\* A scanner that has been stopped does not start again.
Enter(r) ==
    /\ pc[r] = "began"
    /\ IF stopSet
       THEN /\ runLock' = Nobody
            /\ Goto(r, "idle")
            /\ UNCHANGED <<local, state>>
       ELSE /\ local' = [local EXCEPT ![r] = NewLocals]
            /\ state' = "starting"
            /\ Goto(r, "loop")
            /\ UNCHANGED runLock
    /\ UNCHANGED <<device, tracker, lastPoll, cardVars, told>>

\* Mutant: the stop event ends waits only.
LoopsOn == TRUE

GoesOn == ~stopSet

Loop(r) ==
    /\ pc[r] = "loop"
    /\ Goto(r, IF ~GoesOn THEN "leaving" ELSE IF local[r].opened THEN "scan" ELSE "open")
    /\ UNCHANGED <<local, runLock, device, tracker, healthVars, cardVars, told>>

\* Mutant: needs_close is not set again.
OpenedUnmarked(l) == [l EXCEPT !.opened = TRUE, !.polled = FALSE]

Opened(l) == [l EXCEPT !.opened = TRUE, !.needsClose = TRUE, !.polled = FALSE]

\* Mutant: a new tracker for every opening.
OpenAfresh(r) ==
    /\ pc[r] = "open"
    /\ device' = "open"
    /\ tracker' = NewTracker
    /\ local' = [local EXCEPT ![r] = Opened(@)]
    /\ Goto(r, "scan")
    /\ UNCHANGED <<runLock, healthVars, cardVars, told>>

Open(r) ==
    /\ pc[r] = "open"
    /\ device' = "open"
    /\ local' = [local EXCEPT ![r] = Opened(@)]
    /\ Goto(r, "scan")
    /\ UNCHANGED <<runLock, tracker, healthVars, cardVars, told>>

\* How recoverable() judges what open() and scan() raise.
ReaderErrors == Fault \cap {"retry", "fatal"}

\* open() or scan() raises; an open() that does may leave anything behind.
ReaderFails(r) ==
    /\ pc[r] \in {"open", "scan"}
    /\ \E error \in ReaderErrors :
          local' = [local EXCEPT ![r].error = error, ![r].polled = FALSE]
    /\ device' \in (IF pc[r] = "open" THEN {device, "open"} ELSE {device})
    /\ Goto(r, "failing")
    /\ UNCHANGED <<runLock, tracker, healthVars, cardVars, told>>

\* A close() raises, or an interrupt comes into it or just before it.
CloseFails == Fault \cap {"close", "interrupt"} # {}

\* A close() that raises ends the run whatever the first error was.
Recover(r) ==
    /\ pc[r] = "failing"
    /\ local' = [local EXCEPT ![r].opened = FALSE, ![r].needsClose = FALSE]
    /\ \/ /\ device' = "closed"
          /\ IF local[r].error = "fatal"
             THEN state' = "failed" /\ Goto(r, "leaving")
             ELSE state' = "recovering" /\ Goto(r, "waiting")
       \/ /\ CloseFails
          /\ device' = "stuck"
          /\ Goto(r, "leaving")
          /\ UNCHANGED state
    /\ UNCHANGED <<runLock, tracker, lastPoll, cardVars, told>>

\* Mutant: no retry_max.
Doubled(delay) == 2 * delay

NextDelay(delay) == IF 2 * delay < RetryMax THEN 2 * delay ELSE RetryMax

\* Mutant: wait() without a timeout.
WakeUpStopped(r) ==
    /\ pc[r] = "waiting" /\ stopSet
    /\ Goto(r, "loop")
    /\ UNCHANGED <<local, runLock, device, tracker, healthVars, cardVars, told>>

\* The wait ends with the delay or with the stop event.
WakeUp(r) ==
    /\ pc[r] = "waiting"
    /\ local' = [local EXCEPT ![r].delay = NextDelay(@), ![r].backedOff = TRUE]
    /\ Goto(r, "loop")
    /\ UNCHANGED <<runLock, device, tracker, healthVars, cardVars, told>>

-----------------------------------------------------------------------------

\* As in PresenceTracker, a lying card is missed for less than RemovalTicks only.
MayMiss == readAt # None => -readAt < RemovalTicks

Scan(r) ==
    /\ pc[r] = "scan"
    /\ \E tag \in {card} \cup (IF MayMiss THEN {None} ELSE {}) :
          local' = [local EXCEPT ![r].tag = tag, ![r].polled = TRUE]
    /\ state' = "running"
    /\ Goto(r, "polled")
    /\ UNCHANGED <<runLock, device, tracker, lastPoll, cardVars, told>>

\* Mutant: the delay does not start anew.
PolledOn(l, events) == [l EXCEPT !.events = events, !.backedOff = FALSE]

Polled(l, events) ==
    [l EXCEPT !.delay = RetryInitial, !.events = events, !.backedOff = FALSE]

ObservePoll(r) ==
    /\ pc[r] = "polled"
    /\ LET tag == local[r].tag IN
          /\ tracker' = Observe(tracker, tag, 0)
          /\ local' = [local EXCEPT ![r] = Polled(@, Events(tracker, tag, 0))]
          /\ scans' = IF Admits(tracker, tag, 0) THEN scans + 1 ELSE scans
          /\ readAt' = IF tag = None THEN readAt ELSE 0
    /\ lastPoll' = 0
    /\ Goto(r, "deliver")
    /\ UNCHANGED <<runLock, device, state, card, told>>

\* A callback that raises, or an interrupt, ends the run and loses events.
Deliver(r) ==
    LET events == local[r].events IN
    /\ pc[r] = "deliver"
    /\ events # <<>>
    /\ \/ /\ told' = Head(events)
          /\ local' = [local EXCEPT ![r].events = Tail(events)]
          /\ UNCHANGED pc
       \/ /\ Fault \cap {"callback", "interrupt"} # {}
          /\ told' = events[Len(events)]
          /\ local' = [local EXCEPT ![r].events = <<>>]
          /\ Goto(r, "leaving")
    /\ UNCHANGED <<runLock, device, tracker, healthVars, cardVars>>

\* The wait between polls.
NextPoll(r) ==
    /\ pc[r] = "deliver"
    /\ local[r].events = <<>>
    /\ Goto(r, "loop")
    /\ UNCHANGED <<local, runLock, device, tracker, healthVars, cardVars, told>>

Leave(r) ==
    /\ pc[r] = "leaving"
    /\ IF local[r].needsClose
       THEN device' \in {"closed"} \cup (IF CloseFails THEN {"stuck"} ELSE {})
       ELSE UNCHANGED device
    /\ Goto(r, "left")
    /\ UNCHANGED <<local, runLock, tracker, healthVars, cardVars, told>>

\* Line 118 catches Exception only: an interrupt goes straight to the outer
\* finally, with needs_close as it stands.  Its poll may count already.
Interrupt(r) ==
    /\ "interrupt" \in Fault
    /\ pc[r] \in {"loop", "open", "scan", "failing", "waiting", "polled", "deliver"}
    /\ local[r].events = <<>>
    /\ local' = [local EXCEPT ![r].error = "interrupt"]
    /\ device' \in (IF pc[r] = "open" THEN {device, "open"} ELSE {device})
    /\ lastPoll' \in (IF pc[r] = "polled" THEN {lastPoll, 0} ELSE {lastPoll})
    /\ Goto(r, "leaving")
    /\ UNCHANGED <<runLock, tracker, state, cardVars, told>>

\* Mutant: the state is left as it is.
LastState == state

StateAtEnd == IF state = "failed" THEN "failed" ELSE "stopped"

Release(r) ==
    /\ pc[r] = "left"
    /\ state' = StateAtEnd
    /\ runLock' = Nobody
    /\ Goto(r, "idle")
    /\ local' = [local EXCEPT ![r] = NewLocals]
    /\ UNCHANGED <<device, tracker, lastPoll, cardVars, told>>

\* run() as long as it is let.
Proceed(r) ==
    /\ \/ Enter(r) \/ Loop(r) \/ Open(r) \/ ReaderFails(r) \/ Recover(r) \/ WakeUp(r)
       \/ Scan(r) \/ ObservePoll(r) \/ Deliver(r) \/ NextPoll(r) \/ Leave(r) \/ Release(r)
    /\ UNCHANGED <<stopSet, snapVars>>

Run(r) == Proceed(r) \/ (Interrupt(r) /\ UNCHANGED <<stopSet, snapVars>>)

-----------------------------------------------------------------------------
(* Other threads, cards and time *)

Stop ==
    /\ ~stopSet
    /\ stopSet' = TRUE
    /\ UNCHANGED <<runVars, device, tracker, healthVars, snapVars, cardVars, told>>

\* snapshot() looks at last_poll_monotonic first and at the state at the end.
SnapshotAge ==
    /\ fresh = None
    /\ fresh' = (lastPoll # None /\ -lastPoll <= Freshness)
    /\ UNCHANGED <<runVars, stopSet, device, tracker, healthVars, healthy, cardVars, told>>

SnapshotState ==
    /\ fresh # None
    /\ healthy' = (state = "running" /\ fresh)
    /\ fresh' = None
    /\ UNCHANGED <<runVars, stopSet, device, tracker, healthVars, cardVars, told>>

\* For cards and time a poll is the instant of its scan().
Settled == \A r \in Runner : pc[r] # "polled"

MoveCard ==
    /\ Settled
    /\ tracker.generation < MaxGeneration
    /\ card' \in (Uid \cup {None}) \ {card}
    /\ readAt' = None
    /\ scans' = 0
    /\ UNCHANGED <<runVars, stopSet, device, tracker, healthVars, snapVars, told>>

Older(age, oldest) == IF age = None \/ age = oldest THEN age ELSE age - 1

Tick ==
    /\ Settled
    /\ tracker' = [tracker EXCEPT !.lastSeen = Older(@, -RemovalTicks)]
    /\ readAt' = Older(readAt, -RemovalTicks)
    /\ lastPoll' = Older(lastPoll, -(Freshness + 1))
    /\ UNCHANGED <<runVars, stopSet, device, state, snapVars, card, scans, told>>

Next ==
    \/ \E r \in Runner : (Begin(r) /\ UNCHANGED <<stopSet, snapVars>>) \/ Run(r)
    \/ Stop
    \/ SnapshotAge \/ SnapshotState
    \/ MoveCard
    \/ Tick

Spec == Init /\ [][Next]_vars

\* A thread in run() goes on: the reader and the callback return or raise, and
\* each wait has its timeout.
FairSpec == Spec /\ \A r \in Runner : WF_vars(Proceed(r))
-----------------------------------------------------------------------------

\* "Single-owner": one run at a time, whatever threads call it and however
\* their predecessors ended.
SoleRunner == \A r, q \in Runner : InRun(r) /\ InRun(q) => r = q

\* A run leaves its reader open only if an interrupt comes between a failure and
\* the next opening, where needs_close is FALSE (scanner.py:116-126), or if its
\* close() raises; no stop, error, recovery or raising callback does.
ReaderReleased ==
    \A r \in Runner : pc[r] = "left" /\ device = "open" =>
        local[r].error = "interrupt" /\ local[r].backedOff

\* A card that stays is scanned at most once, through errors, recoveries and
\* runs that end and begin again.
OneScanPerStay == scans <= 1

\* on_event is told one story, without gaps or repetitions but for the events
\* that a raising callback loses.
Follows(before, after) ==
    IF after.kind = "removed"
    THEN before = [after EXCEPT !.kind = "scanned"]
    ELSE before.kind = "removed" /\ after.generation = before.generation + 1

Calls(r) == pc[r] = "deliver" /\ local[r].events # <<>> /\ local'[r].events # local[r].events

TransitionsOnce == [][\A r \in Runner : Calls(r) => Follows(told, Head(local[r].events))]_vars

\* A snapshot calls the scanner healthy only in a run that has polled since it
\* last opened its reader, or whose first failure after that is being handled.
HealthyIsTrue ==
    [][SnapshotState /\ healthy' =>
          \E r \in Runner : InRun(r) /\ (local[r].polled \/ pc[r] \in {"failing", "leaving", "left"})]_vars

\* stop() ends the run under way, and no run gets past it any more.
StopIsHonoured == stopSet ~> [](\A r \in Runner : ~InRun(r))

\* Once the reader has stopped failing, a recovering run polls again, unless it
\* is stopped or ends with an exception of the reader before.
ReaderSettles == <>[][\A r \in Runner : ~ReaderFails(r)]_vars

Recovers ==
    ReaderSettles =>
        \A r \in Runner : pc[r] = "waiting" ~> (pc[r] \in {"polled", "idle"} \/ stopSet)
=============================================================================
