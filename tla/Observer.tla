----------------------------- MODULE Observer -----------------------------
(***************************************************************************)
(* The observation service: service.py run() and its main loop, cut at     *)
(* every point where another process or a signal can be seen to come       *)
(* between.  CPython runs the handlers of delivered signals before the     *)
(* next step of the interpreted program, so every step of the process      *)
(* waits for pending = {}.                                                 *)
(*                                                                         *)
(* Times are kept relative to the present: pauseLeft is pause_until - now, *)
(* and the tracker's last_seen is a negative number of ticks.              *)
(***************************************************************************)
EXTENDS SharedReader, Presence

CONSTANTS PauseTicks,     \* the 45 s of a pause request
          MaxGeneration,  \* bound: presences one tracker may count
          MaxScans        \* bound: log lines counted per physical stay

ASSUME ObserverAssumption ==
    /\ PauseTicks \in Nat \ {0}
    /\ MaxGeneration \in Nat
    /\ MaxScans \in Nat \ {0}

VARIABLES
    opc,           \* where run() stands
    paused, pauseLeft, writerActive, stopping, tracker,   \* its variables
    failed,        \* an exception is on its way out of run()
    unit,          \* the systemd unit's state
    card,          \* the card lying on the reader
    scans          \* "rfid.scanned" lines logged since the card was put there

obsVars == <<opc, paused, pauseLeft, writerActive, stopping, tracker, failed,
             unit, card, scans>>

ObserverPc == {"off", "boot", "open", "open_chip", "loop", "probe", "probed",
               "decide", "pause_chip", "pause_lock", "reopen", "reopen_chip",
               "scan", "closing", "release", "exit"}

ObserverTypeOK ==
    /\ opc \in ObserverPc
    /\ paused \in BOOLEAN
    /\ pauseLeft \in 0..PauseTicks
    /\ writerActive \in BOOLEAN
    /\ stopping \in BOOLEAN
    /\ tracker \in Trackers
    /\ failed \in BOOLEAN
    /\ unit \in {"active", "stopping", "auto_restart", "inactive"}
    /\ card \in Uid \cup {None}
    /\ scans \in 0..MaxScans

ObserverInit ==
    /\ opc = "boot"
    /\ paused = FALSE
    /\ pauseLeft = 0
    /\ writerActive = FALSE
    /\ stopping = FALSE
    /\ tracker = NewTracker
    /\ failed = FALSE
    /\ unit = "active"
    /\ card \in Uid \cup {None}
    /\ scans = 0

-----------------------------------------------------------------------------
(* Signals *)

\* Before line 37 a signal has its default action: the process dies, and
\* systemd counts SIGTERM, but not SIGUSR1 or SIGUSR2, as a clean end.
BootKilled ==
    /\ opc = "boot"
    /\ pending # {}
    /\ opc' = "exit"
    /\ failed' = ("TERM" \notin pending)
    /\ pending' = {}
    /\ UNCHANGED <<spi, excl, chip, mainPid, paused, pauseLeft, writerActive,
                   stopping, tracker, unit, card, scans>>

\* Mutant: pause_until += 45.0.
RunHandlersAdding ==
    /\ opc \notin {"off", "boot", "exit"}
    /\ pending # {}
    /\ pauseLeft' = IF "USR2" \in pending THEN 0
                    ELSE IF "USR1" \in pending THEN pauseLeft + PauseTicks
                    ELSE pauseLeft
    /\ stopping' = (stopping \/ "TERM" \in pending)
    /\ pending' = {}
    /\ UNCHANGED <<spi, excl, chip, mainPid, opc, paused, writerActive,
                   tracker, failed, unit, card, scans>>

\* All tripped handlers run in the order of the signal numbers: pause
\* (SIGUSR1, 10), resume (SIGUSR2, 12), stop (SIGTERM, 15).
RunHandlers ==
    /\ opc \notin {"off", "boot", "exit"}
    /\ pending # {}
    /\ pauseLeft' = IF "USR2" \in pending THEN 0
                    ELSE IF "USR1" \in pending THEN PauseTicks
                    ELSE pauseLeft
    /\ stopping' = (stopping \/ "TERM" \in pending)
    /\ pending' = {}
    /\ UNCHANGED <<spi, excl, chip, mainPid, opc, paused, writerActive,
                   tracker, failed, unit, card, scans>>

-----------------------------------------------------------------------------
(* The interpreted program *)

\* One step of run() from one program point to another.
At(from) == opc = from /\ pending = {}

Goto(to) ==
    /\ opc' = to
    /\ UNCHANGED <<pending, mainPid, pauseLeft, stopping, unit, card>>

Locals == <<paused, writerActive, tracker, failed, scans>>

InstallHandlers ==
    /\ At("boot")
    /\ Goto("open")
    /\ UNCHANGED <<spi, excl, chip, Locals>>

\* device.open() at line 44 and line 65: the lock, then the chip.
TakeLock(from, to) ==
    /\ At(from)
    /\ AcquireSpi(Observer)
    /\ Goto(to)
    /\ UNCHANGED <<excl, chip, Locals>>

LockRefused(from) ==
    /\ At(from)
    /\ SpiIsHeld
    /\ failed' = TRUE
    /\ Goto("closing")
    /\ UNCHANGED <<spi, excl, chip, paused, writerActive, tracker, scans>>

OpenFails(from) ==
    /\ "hardware" \in Env
    /\ At(from)
    /\ failed' = TRUE
    /\ Goto("closing")
    /\ UNCHANGED <<spi, excl, chip, paused, writerActive, tracker, scans>>

FirstOpen ==
    /\ At("open_chip")
    /\ chip' = chip \cup {Observer}
    /\ Goto("loop")
    /\ UNCHANGED <<spi, excl, Locals>>

\* Lines 65-68: a pause ends with a new tracker.
Reopen ==
    /\ At("reopen_chip")
    /\ chip' = chip \cup {Observer}
    /\ tracker' = NewTracker
    /\ paused' = FALSE
    /\ Goto("scan")
    /\ UNCHANGED <<spi, excl, writerActive, failed, scans>>

LeaveLoop ==
    /\ At("loop")
    /\ stopping
    /\ Goto("closing")
    /\ UNCHANGED <<spi, excl, chip, Locals>>

\* Lines 46-48: the first look at the clock.
BeginPass ==
    /\ At("loop")
    /\ ~stopping
    /\ writerActive' = FALSE
    /\ Goto(IF paused /\ pauseLeft = 0 THEN "probe" ELSE "decide")
    /\ UNCHANGED <<spi, excl, chip, paused, tracker, failed, scans>>

\* Lines 49-56: is a command inside its exclusive window?
ProbeFree ==
    /\ At("probe")
    /\ AcquireExcl(Observer)
    /\ Goto("probed")
    /\ UNCHANGED <<spi, chip, Locals>>

ProbeBusy ==
    /\ At("probe")
    /\ excl # Nobody
    /\ writerActive' = TRUE
    /\ Goto("decide")
    /\ UNCHANGED <<spi, excl, chip, paused, tracker, failed, scans>>

\* Mutant: the probe's descriptor is not closed.
EndProbeLeaking ==
    /\ At("probed")
    /\ Goto("decide")
    /\ UNCHANGED <<spi, excl, chip, Locals>>

EndProbe ==
    /\ At("probed")
    /\ ReleaseExcl(Observer)
    /\ Goto("decide")
    /\ UNCHANGED <<spi, chip, Locals>>

\* Lines 57-65: the second look at the clock decides the pass.
MustPause == pauseLeft > 0 \/ writerActive

Decide ==
    /\ At("decide")
    /\ \/ MustPause /\ paused /\ Goto("loop")
       \/ MustPause /\ ~paused /\ Goto("pause_chip")
       \/ ~MustPause /\ paused /\ Goto("reopen")
       \/ ~MustPause /\ ~paused /\ Goto("scan")
    /\ UNCHANGED <<spi, excl, chip, Locals>>

\* Line 59, device.close(); an exception of its chip part still frees the lock.
PauseChip ==
    /\ At("pause_chip")
    /\ CloseSpiDevice(Observer)
    /\ failed' \in IF "hardware" \in Env THEN BOOLEAN ELSE {FALSE}
    /\ Goto("pause_lock")
    /\ UNCHANGED <<spi, excl, paused, writerActive, tracker, scans>>

PauseLock ==
    /\ At("pause_lock")
    /\ ReleaseSpi(Observer)
    /\ paused' = ~failed
    /\ Goto(IF failed THEN "closing" ELSE "loop")
    /\ UNCHANGED <<excl, chip, writerActive, tracker, failed, scans>>

\* Lines 69-71.  A poll may miss a card that lies on the reader.
Scan(tag) ==
    /\ At("scan")
    /\ tag \in {card, None}
    /\ tracker.generation < MaxGeneration \/ ~Admits(tracker, tag, 0)
    /\ tracker' = Observe(tracker, tag, 0)
    /\ scans' = IF Admits(tracker, tag, 0) /\ scans < MaxScans
                THEN scans + 1 ELSE scans
    /\ Goto("loop")
    /\ UNCHANGED <<spi, excl, chip, paused, writerActive, failed>>

ScanFails ==
    /\ "hardware" \in Env
    /\ At("scan")
    /\ failed' = TRUE
    /\ Goto("closing")
    /\ UNCHANGED <<spi, excl, chip, paused, writerActive, tracker, scans>>

\* Lines 73-74, the finally of run(): device.close().
CloseDevice ==
    /\ At("closing")
    /\ CloseSpiDevice(Observer)
    /\ Goto("release")
    /\ UNCHANGED <<spi, excl, Locals>>

ReleaseDevice ==
    /\ At("release")
    /\ ReleaseSpi(Observer)
    /\ Goto("exit")
    /\ UNCHANGED <<excl, chip, Locals>>

ObserverProgram ==
    \/ InstallHandlers
    \/ TakeLock("open", "open_chip") \/ TakeLock("reopen", "reopen_chip")
    \/ \E from \in {"open", "reopen"} : LockRefused(from)
    \/ \E from \in {"open_chip", "reopen_chip"} : OpenFails(from)
    \/ FirstOpen \/ Reopen
    \/ LeaveLoop \/ BeginPass
    \/ ProbeFree \/ ProbeBusy \/ EndProbe
    \/ Decide
    \/ PauseChip \/ PauseLock
    \/ (\E tag \in Uid \cup {None} : Scan(tag)) \/ ScanFails
    \/ CloseDevice \/ ReleaseDevice

-----------------------------------------------------------------------------
(* The unit file: Type=simple, Restart=on-failure, RestartSec=3 *)

\* The process is reaped; until then its pid still accepts signals.
Reap ==
    /\ opc = "exit"
    /\ opc' = "off"
    /\ unit' = IF unit = "stopping" \/ ~failed THEN "inactive" ELSE "auto_restart"
    /\ mainPid' = NoPid
    /\ pending' = {}
    /\ UNCHANGED <<spi, excl, chip, paused, pauseLeft, writerActive, stopping,
                   tracker, failed, card, scans>>

Crash ==
    /\ "crash" \in Env
    /\ opc \notin {"off", "exit"}
    /\ opc' = "exit"
    /\ failed' = TRUE
    /\ DropAll(Observer)
    /\ UNCHANGED <<pending, mainPid, paused, pauseLeft, writerActive, stopping,
                   tracker, unit, card, scans>>

\* A restart or a start by the operator forks a process with pid p.
StartProcess(p) ==
    /\ opc = "off"
    /\ unit = "auto_restart" \/ (unit = "inactive" /\ "operator" \in Env)
    /\ opc' = "boot"
    /\ mainPid' = p
    /\ unit' = "active"
    /\ paused' = FALSE
    /\ pauseLeft' = 0
    /\ writerActive' = FALSE
    /\ stopping' = FALSE
    /\ tracker' = NewTracker
    /\ failed' = FALSE
    /\ UNCHANGED <<spi, excl, chip, pending, card, scans>>

\* systemctl stop: SIGTERM to a live process, or no further restart.
StopUnit ==
    /\ "operator" \in Env
    /\ unit \in {"active", "auto_restart"}
    /\ unit' = IF unit = "active" THEN "stopping" ELSE "inactive"
    /\ pending' = IF unit = "active" THEN pending \cup {"TERM"} ELSE pending
    /\ UNCHANGED <<spi, excl, chip, mainPid, opc, paused, pauseLeft,
                   writerActive, stopping, tracker, failed, card, scans>>

-----------------------------------------------------------------------------
(* The world around the process *)

MoveCard ==
    /\ card' \in (Uid \cup {None}) \ {card}
    /\ scans' = 0
    /\ UNCHANGED <<sharedVars, opc, paused, pauseLeft, writerActive, stopping,
                   tracker, failed, unit>>

\* One tick later last_seen is one tick older; beyond RemovalTicks it makes
\* no difference how much.
AgeTracker ==
    IF tracker.lastSeen = None THEN tracker
    ELSE [tracker EXCEPT !.lastSeen =
              IF @ > -RemovalTicks THEN @ - 1 ELSE @]

ObserverTick ==
    /\ pauseLeft' = Countdown(pauseLeft)
    /\ tracker' = AgeTracker
    /\ UNCHANGED <<opc, paused, writerActive, stopping, failed, unit, card,
                   scans>>
=============================================================================
