--------------------- MODULE ReaderCoordinationProofs ---------------------
(***************************************************************************)
(* Proofs about ReaderCoordination for every set of commands, every bound  *)
(* and every choice of environment events.                                 *)
(***************************************************************************)
EXTENDS ReaderCoordination, PresenceProofs

-----------------------------------------------------------------------------
(* Helpers *)

LEMMA NewTrackerType == NewTracker \in Trackers
BY DEF NewTracker, Trackers

LEMMA AgeTrackerType == ASSUME tracker \in Trackers PROVE AgeTracker \in Trackers
<1>1. CASE tracker.lastSeen = None
  BY <1>1 DEF AgeTracker
<1>2. CASE tracker.lastSeen # None
  <2>1. tracker.lastSeen \in Int
    BY <1>2 DEF Trackers
  <2> QED BY <1>2, <2>1, PresenceAssumption DEF AgeTracker, Trackers
<1> QED BY <1>1, <1>2

LEMMA CountdownType ==
    ASSUME NEW n \in Nat, NEW m \in 0..n PROVE Countdown(m) \in 0..n
BY DEF Countdown

-----------------------------------------------------------------------------
(* Type correctness *)

LEMMA TypeInit == Init => TypeOK
<1> SUFFICES ASSUME Init PROVE TypeOK
  OBVIOUS
<1>1. SharedTypeOK
  BY DEF Init, SharedInit, SharedTypeOK
<1>2. ObserverTypeOK
  <2>1. 0 \in 0..PauseTicks /\ 0 \in 0..MaxScans
    BY ObserverAssumption
  <2> QED BY <2>1, NewTrackerType DEF Init, ObserverInit, ObserverTypeOK, ObserverPc
<1>3. CliTypeOK
  BY DeadlineAssumption DEF Init, CliInit, CliTypeOK, CliPc
<1>4. waited \in [Cli -> 0..PauseTicks]
  BY ObserverAssumption DEF Init
<1> QED BY <1>1, <1>2, <1>3, <1>4 DEF TypeOK

LEMMA TypeCommandSteps ==
    ASSUME TypeOK, NEW c \in Cli, StartCommand(c) \/ RunCommand(c) \/ HurtCommand(c)
    PROVE  TypeOK'
<1> USE DeadlineAssumption DEF TypeOK, SharedTypeOK, CliTypeOK, Actor, CliPc
<1>0. UNCHANGED obsVars /\ Waits(c)
  BY DEF StartCommand, RunCommand, HurtCommand
<1>1. ObserverTypeOK' /\ waited' \in [Cli -> 0..PauseTicks]
  <2>1. 0 \in 0..PauseTicks
    BY ObserverAssumption
  <2> QED BY <1>0, <2>1 DEF ObserverTypeOK, obsVars, Waits
<1>2. CASE StartCommand(c)
  BY <1>1, <1>2 DEF StartCommand, CliStart, AcquireWindow, RefuseWindow, CliGoto,
     AcquireExcl, sharedVars
<1>3. CASE RunCommand(c)
  <2>1. cpc' \in [Cli -> CliPc]
    BY <1>3 DEF RunCommand, CliProgram, CliGoto, QueryObserver, RequestPause,
       ObserverGone, SetDeadline, ProbeLock, ProbeTimeout, ProbeClose, OpenReader, OpenRefused,
       OpenChip, FinishCard, CloseChip, ReleaseReader, RequestResume, ReleaseWindow
  <2>2. target' \in [Cli -> Pid \cup {NoPid}] /\ deadline' \in [Cli -> 0..DeadlineTicks]
    BY <1>3 DEF RunCommand, CliProgram, QueryObserver, RequestPause,
       ObserverGone, SetDeadline, ProbeLock, ProbeTimeout, ProbeClose, OpenReader, OpenRefused,
       OpenChip, FinishCard, CloseChip, ReleaseReader, RequestResume, ReleaseWindow
  <2>3. SharedTypeOK'
    BY <1>3 DEF RunCommand, CliProgram, QueryObserver, RequestPause,
       ObserverGone, SetDeadline, ProbeLock, ProbeTimeout, ProbeClose, OpenReader, OpenRefused,
       OpenChip, FinishCard, CloseChip, ReleaseReader, RequestResume, ReleaseWindow,
       AcquireSpi, ReleaseSpi, ReleaseExcl, CloseSpiDevice, Kill, sharedVars
  <2> QED BY <1>1, <2>1, <2>2, <2>3
<1>4. CASE QueryFails(c) \/ ChipFails(c)
  BY <1>1, <1>4 DEF QueryFails, ChipFails, CliGoto, sharedVars
<1>5. CASE Interrupt(c)
  <2>1. cpc' \in [Cli -> CliPc]
    BY <1>5 DEF Interrupt, Unwind
  <2> QED BY <1>1, <1>5, <2>1 DEF Interrupt, sharedVars
<1>6. CASE KillCli(c)
  BY <1>1, <1>6 DEF KillCli, InWindow, DropAll, ReleaseSpi, ReleaseExcl, CloseSpiDevice
<1> QED BY <1>2, <1>3, <1>4, <1>5, <1>6 DEF HurtCommand, CliMishap

\* What the tail of an observer step, Goto and the locals left alone, keeps.
LEMMA GotoType ==
    ASSUME TypeOK, UNCHANGED <<cliVars, waited>>, NEW to \in ObserverPc, Goto(to),
           spi' \in Actor \cup {Nobody}, excl' \in Actor \cup {Nobody},
           chip' \subseteq Actor, paused' \in BOOLEAN, writerActive' \in BOOLEAN,
           tracker' \in Trackers, failed' \in BOOLEAN, scans' \in 0..MaxScans
    PROVE  TypeOK'
<1>1. SharedTypeOK'
  BY DEF Goto, TypeOK, SharedTypeOK, Actor
<1>2. ObserverTypeOK'
  BY DEF Goto, TypeOK, ObserverTypeOK
<1>3. CliTypeOK'
  BY DEF TypeOK, CliTypeOK, cliVars
<1> QED BY <1>1, <1>2, <1>3 DEF TypeOK

LEMMA TypeObserverSteps == ASSUME TypeOK, RunObserver PROVE TypeOK'
<1>0. UNCHANGED <<cliVars, waited>>
  BY DEF RunObserver
<1>t. /\ spi \in Actor \cup {Nobody} /\ excl \in Actor \cup {Nobody}
      /\ chip \subseteq Actor /\ paused \in BOOLEAN /\ writerActive \in BOOLEAN
      /\ tracker \in Trackers /\ failed \in BOOLEAN /\ scans \in 0..MaxScans
      /\ Observer \in Actor
  BY DEF TypeOK, SharedTypeOK, ObserverTypeOK, Actor
<1> USE DEF Locals
<1>1. CASE InstallHandlers
  BY <1>0, <1>t, <1>1, GotoType DEF InstallHandlers, ObserverPc
<1>2. CASE TakeLock("open", "open_chip") \/ TakeLock("reopen", "reopen_chip")
  BY <1>0, <1>t, <1>2, GotoType DEF TakeLock, AcquireSpi, ObserverPc
<1>3. CASE \E from \in {"open", "reopen"} : LockRefused(from)
  BY <1>0, <1>t, <1>3, GotoType DEF LockRefused, ObserverPc
<1>4. CASE \E from \in {"open_chip", "reopen_chip"} : OpenFails(from)
  BY <1>0, <1>t, <1>4, GotoType DEF OpenFails, ObserverPc
<1>5. CASE FirstOpen
  BY <1>0, <1>t, <1>5, GotoType DEF FirstOpen, ObserverPc
<1>6. CASE Reopen
  BY <1>0, <1>t, <1>6, GotoType, NewTrackerType DEF Reopen, ObserverPc
<1>7. CASE LeaveLoop
  BY <1>0, <1>t, <1>7, GotoType DEF LeaveLoop, ObserverPc
<1>8. CASE BeginPass
  BY <1>0, <1>t, <1>8, GotoType DEF BeginPass, ObserverPc
<1>9. CASE ProbeFree \/ EndProbe
  BY <1>0, <1>t, <1>9, GotoType DEF ProbeFree, EndProbe, AcquireExcl, ReleaseExcl, ObserverPc
<1>10. CASE ProbeBusy
  BY <1>0, <1>t, <1>10, GotoType DEF ProbeBusy, ObserverPc
<1>11. CASE Decide
  BY <1>0, <1>t, <1>11, GotoType DEF Decide, ObserverPc
<1>12. CASE PauseChip
  BY <1>0, <1>t, <1>12, GotoType DEF PauseChip, CloseSpiDevice, ObserverPc
<1>13. CASE PauseLock
  BY <1>0, <1>t, <1>13, GotoType DEF PauseLock, ReleaseSpi, ObserverPc
<1>14. CASE \E tag \in Uid \cup {None} : Scan(tag)
  <2> PICK tag \in Uid \cup {None} : Scan(tag)
    BY <1>14
  <2>1. tracker' \in Trackers
    BY <1>t, ObserveType DEF Scan
  <2>2. scans' \in 0..MaxScans
    BY <1>t, ObserverAssumption DEF Scan
  <2> QED BY <1>0, <1>t, <2>1, <2>2, GotoType DEF Scan, ObserverPc
<1>15. CASE ScanFails
  BY <1>0, <1>t, <1>15, GotoType DEF ScanFails, ObserverPc
<1>16. CASE CloseDevice
  BY <1>0, <1>t, <1>16, GotoType DEF CloseDevice, CloseSpiDevice, ObserverPc
<1>17. CASE ReleaseDevice
  BY <1>0, <1>t, <1>17, GotoType DEF ReleaseDevice, ReleaseSpi, ObserverPc
<1>18. CASE RunHandlers
  <2>1. pauseLeft' \in 0..PauseTicks
    BY <1>18, ObserverAssumption DEF RunHandlers, TypeOK, ObserverTypeOK
  <2>2. stopping' \in BOOLEAN
    BY <1>18, Zenon DEF RunHandlers, TypeOK, ObserverTypeOK
  <2> QED BY <1>0, <1>18, <2>1, <2>2
      DEF RunHandlers, TypeOK, SharedTypeOK, ObserverTypeOK, CliTypeOK, cliVars, Actor
<1>19. CASE BootKilled
  BY <1>0, <1>19
  DEF BootKilled, TypeOK, SharedTypeOK, ObserverTypeOK, CliTypeOK, cliVars, Actor, ObserverPc
<1> QED
  BY <1>1, <1>2, <1>3, <1>4, <1>5, <1>6, <1>7, <1>8, <1>9, <1>10, <1>11, <1>12,
     <1>13, <1>14, <1>15, <1>16, <1>17, <1>18, <1>19
  DEF RunObserver, ObserverProgram

LEMMA TypeSystemSteps == ASSUME TypeOK, Supervise \/ Disturb PROVE TypeOK'
<1> USE DEF TypeOK, SharedTypeOK, ObserverTypeOK, CliTypeOK, cliVars, Actor, ObserverPc
<1>0. UNCHANGED <<cliVars, waited>>
  BY DEF Supervise, Disturb
<1>1. CASE Reap
  BY <1>0, <1>1 DEF Reap
<1>2. CASE Fork
  <2>1. 0 \in 0..PauseTicks
    BY ObserverAssumption
  <2> QED BY <1>0, <1>2, <2>1, NewTrackerType DEF Fork, StartProcess
<1>3. CASE Crash
  BY <1>0, <1>3 DEF Crash, DropAll, ReleaseSpi, ReleaseExcl, CloseSpiDevice
<1>4. CASE StopUnit
  BY <1>0, <1>4 DEF StopUnit
<1>5. CASE MoveCard
  <2>1. 0 \in 0..MaxScans
    BY ObserverAssumption
  <2> QED BY <1>0, <1>5, <2>1 DEF MoveCard, sharedVars
<1> QED BY <1>1, <1>2, <1>3, <1>4, <1>5 DEF Supervise, Disturb

LEMMA TypeTick == ASSUME TypeOK, Tick PROVE TypeOK'
<1>1. pauseLeft' \in 0..PauseTicks
  BY CountdownType, ObserverAssumption DEF Tick, ObserverTick, TypeOK, ObserverTypeOK
<1>2. deadline' \in [Cli -> 0..DeadlineTicks]
  BY CountdownType, DeadlineAssumption DEF Tick, CliTick, TypeOK, CliTypeOK
<1>3. tracker' \in Trackers
  BY AgeTrackerType DEF Tick, ObserverTick, TypeOK, ObserverTypeOK
<1>4. waited' \in [Cli -> 0..PauseTicks]
  BY ObserverAssumption DEF Tick, TypeOK
<1> QED
  BY <1>1, <1>2, <1>3, <1>4
  DEF Tick, ObserverTick, TypeOK, SharedTypeOK, ObserverTypeOK, CliTypeOK, sharedVars, Actor

LEMMA TypeStutter == ASSUME TypeOK, UNCHANGED vars PROVE TypeOK'
BY DEF vars, sharedVars, obsVars, cliVars, TypeOK, SharedTypeOK, ObserverTypeOK,
       CliTypeOK, Actor

\* Every variable keeps its type, whatever the numbers of commands, pids and
\* ticks and whatever happens around them.
THEOREM TypeCorrect == Spec => []TypeOK
<1>1. TypeOK /\ [Next]_vars => TypeOK'
  BY TypeCommandSteps, TypeObserverSteps, TypeSystemSteps, TypeTick, TypeStutter DEF Next
<1> QED BY TypeInit, <1>1, PTL DEF Spec

-----------------------------------------------------------------------------
(* The lock discipline is inductive on its own, given the types. *)

LEMMA LockInit == Init => LockDiscipline
BY ActorsDistinct
DEF Init, SharedInit, ObserverInit, CliInit, LockDiscipline, CommandLocks,
    ObserverLocks, PauseFlag, BetweenPolls, Operating, OnChip, InWindow, CliPc

\* A step of a command leaves the observer where it is.
LEMMA LockCommandSteps ==
    ASSUME TypeOK, LockDiscipline, NEW c \in Cli,
           StartCommand(c) \/ RunCommand(c) \/ HurtCommand(c)
    PROVE  LockDiscipline'
<1> USE ActorsDistinct
<1>0. UNCHANGED obsVars
  BY DEF StartCommand, RunCommand, HurtCommand
<1>1. CommandLocks'
  <2> USE DEF LockDiscipline, CommandLocks, TypeOK, CliTypeOK, CliPc,
              Operating, OnChip, InWindow, CliGoto, sharedVars
  <2>1. CASE StartCommand(c)
    BY <2>1 DEF StartCommand, CliStart, AcquireWindow, RefuseWindow, AcquireExcl
  <2>2. CASE QueryObserver(c) \/ RequestPause(c) \/ ObserverGone(c) \/ SetDeadline(c)
    BY <2>2 DEF QueryObserver, RequestPause, ObserverGone, SetDeadline
  <2>3. CASE ProbeLock(c) \/ ProbeTimeout(c)
    BY <2>3 DEF ProbeLock, ProbeTimeout, AcquireSpi
  <2>4. CASE ProbeClose(c)
    BY <2>4 DEF ProbeClose, ReleaseSpi
  <2>5. CASE OpenReader(c) \/ OpenRefused(c)
    BY <2>5 DEF OpenReader, OpenRefused, AcquireSpi
  <2>6. CASE OpenChip(c) \/ FinishCard(c)
    BY <2>6 DEF OpenChip, FinishCard
  <2>7. CASE CloseChip(c)
    BY <2>7 DEF CloseChip, CloseSpiDevice
  <2>8. CASE ReleaseReader(c)
    BY <2>8 DEF ReleaseReader, ReleaseSpi
  <2>9. CASE RequestResume(c)
    BY <2>9 DEF RequestResume
  <2>10. CASE ReleaseWindow(c)
    BY <2>10 DEF ReleaseWindow, ReleaseExcl
  <2>11. CASE QueryFails(c) \/ ChipFails(c)
    BY <2>11 DEF QueryFails, ChipFails
  <2>12. CASE Interrupt(c)
    BY <2>12 DEF Interrupt, Unwind
  <2>13. CASE KillCli(c)
    BY <2>13 DEF KillCli, DropAll, ReleaseSpi, ReleaseExcl, CloseSpiDevice
  <2> QED
    BY <2>1, <2>2, <2>3, <2>4, <2>5, <2>6, <2>7, <2>8, <2>9, <2>10, <2>11, <2>12, <2>13
    DEF RunCommand, CliProgram, HurtCommand, CliMishap
<1>2. /\ spi' = Observer <=> spi = Observer
      /\ excl' = Observer <=> excl = Observer
      /\ Observer \in chip' <=> Observer \in chip
  BY DEF StartCommand, CliStart, AcquireWindow, RefuseWindow, RunCommand,
         CliProgram, HurtCommand, CliMishap, QueryObserver, RequestPause, ObserverGone,
         SetDeadline, ProbeLock, ProbeTimeout, ProbeClose, OpenReader, OpenRefused, OpenChip,
         FinishCard, CloseChip, ReleaseReader, RequestResume, ReleaseWindow,
         QueryFails, ChipFails, Interrupt, KillCli, DropAll, AcquireSpi, AcquireExcl,
         ReleaseSpi, ReleaseExcl, CloseSpiDevice, sharedVars
<1>3. ObserverLocks' /\ PauseFlag'
  BY <1>0, <1>2 DEF LockDiscipline, ObserverLocks, PauseFlag, BetweenPolls, obsVars
<1> QED BY <1>1, <1>3 DEF LockDiscipline

\* What a step of the observer, or of systemd, has to keep of the commands'
\* part: it takes a lock only when it is free and drops only its own.
LEMMA LockFrame ==
    ASSUME LockDiscipline, UNCHANGED cliVars,
           spi' = spi \/ (spi = Nobody /\ spi' = Observer) \/ (spi = Observer /\ spi' = Nobody),
           excl' = excl \/ (excl = Nobody /\ excl' = Observer) \/ (excl = Observer /\ excl' = Nobody),
           chip' = chip \/ chip' = chip \cup {Observer} \/ chip' = chip \ {Observer}
    PROVE  CommandLocks'
BY ActorsDistinct DEF LockDiscipline, CommandLocks, cliVars

LEMMA LockObserverSteps ==
    ASSUME TypeOK, LockDiscipline, RunObserver \/ Supervise \/ Disturb
    PROVE  LockDiscipline'
<1> USE ActorsDistinct
<1>0. UNCHANGED cliVars
  BY DEF RunObserver, Supervise, Disturb
<1>1. ObserverLocks' /\ PauseFlag'
  <2> USE DEF LockDiscipline, ObserverLocks, PauseFlag, BetweenPolls, At, Goto, Locals
  <2>1. CASE InstallHandlers
    BY <2>1 DEF InstallHandlers
  <2>2. CASE TakeLock("open", "open_chip") \/ TakeLock("reopen", "reopen_chip")
    BY <2>2 DEF TakeLock, AcquireSpi
  <2>3. CASE \E from \in {"open", "reopen"} : LockRefused(from)
    BY <2>3 DEF LockRefused
  <2>4. CASE \E from \in {"open_chip", "reopen_chip"} : OpenFails(from)
    BY <2>4 DEF OpenFails
  <2>5. CASE FirstOpen \/ Reopen
    BY <2>5 DEF FirstOpen, Reopen
  <2>6. CASE LeaveLoop
    BY <2>6 DEF LeaveLoop
  <2>7. CASE BeginPass
    BY <2>7 DEF BeginPass
  <2>8. CASE ProbeFree \/ ProbeBusy
    BY <2>8 DEF ProbeFree, ProbeBusy, AcquireExcl
  <2>9. CASE EndProbe
    BY <2>9 DEF EndProbe, ReleaseExcl
  <2>10. CASE Decide
    BY <2>10 DEF Decide
  <2>11. CASE PauseChip
    BY <2>11 DEF PauseChip, CloseSpiDevice
  <2>12. CASE PauseLock
    BY <2>12 DEF PauseLock, ReleaseSpi, TypeOK, ObserverTypeOK
  <2>13. CASE \E tag \in Uid \cup {None} : Scan(tag)
    BY <2>13 DEF Scan
  <2>14. CASE ScanFails
    BY <2>14 DEF ScanFails
  <2>15. CASE CloseDevice
    BY <2>15 DEF CloseDevice, CloseSpiDevice
  <2>16. CASE ReleaseDevice
    BY <2>16 DEF ReleaseDevice, ReleaseSpi
  <2>17. CASE RunHandlers \/ BootKilled
    BY <2>17 DEF RunHandlers, BootKilled
  <2>18. CASE Reap \/ Fork
    BY <2>18 DEF Reap, Fork, StartProcess
  <2>19. CASE Crash
    BY <2>19 DEF Crash, DropAll, ReleaseSpi, ReleaseExcl, CloseSpiDevice
  <2>20. CASE StopUnit \/ MoveCard
    BY <2>20 DEF StopUnit, MoveCard, sharedVars
  <2> QED
    BY <2>1, <2>2, <2>3, <2>4, <2>5, <2>6, <2>7, <2>8, <2>9, <2>10, <2>11, <2>12,
       <2>13, <2>14, <2>15, <2>16, <2>17, <2>18, <2>19, <2>20
    DEF RunObserver, ObserverProgram, Supervise, Disturb
<1>2. /\ spi' = spi \/ (spi = Nobody /\ spi' = Observer) \/ (spi = Observer /\ spi' = Nobody)
      /\ excl' = excl \/ (excl = Nobody /\ excl' = Observer) \/ (excl = Observer /\ excl' = Nobody)
      /\ chip' = chip \/ chip' = chip \cup {Observer} \/ chip' = chip \ {Observer}
  BY DEF RunObserver, ObserverProgram, RunHandlers, BootKilled, Supervise, Disturb,
         InstallHandlers, TakeLock, LockRefused, OpenFails, FirstOpen, Reopen,
         LeaveLoop, BeginPass, ProbeFree, ProbeBusy, EndProbe, Decide, PauseChip,
         PauseLock, Scan, ScanFails, CloseDevice, ReleaseDevice, Reap, Fork,
         StartProcess, Crash, StopUnit, MoveCard, DropAll, AcquireSpi, AcquireExcl,
         ReleaseSpi, ReleaseExcl, CloseSpiDevice, sharedVars
<1>3. CommandLocks'
  BY <1>0, <1>2, LockFrame
<1> QED BY <1>1, <1>3 DEF LockDiscipline

LEMMA LockQuietSteps ==
    ASSUME LockDiscipline, Tick \/ UNCHANGED vars
    PROVE  LockDiscipline'
<1>1. UNCHANGED <<sharedVars, cpc, opc, paused>>
  BY DEF Tick, ObserverTick, vars, obsVars, cliVars
<1> QED
  BY <1>1 DEF LockDiscipline, CommandLocks, ObserverLocks, PauseFlag, BetweenPolls, sharedVars

\* No process ever holds, or leaks, a lock its program point does not call for.
THEOREM LocksFollowProgram == Spec => []LockDiscipline
<1>1. TypeOK /\ LockDiscipline /\ [Next]_vars => LockDiscipline'
  BY LockCommandSteps, LockObserverSteps, LockQuietSteps DEF Next
<1> QED BY LockInit, <1>1, TypeCorrect, PTL DEF Spec

\* At most one process has the chip open, under the SPI lock.
THEOREM OneReaderOwner == Spec => []SingleReaderOwner
<1>1. TypeOK /\ LockDiscipline => SingleReaderOwner
  BY DEF TypeOK, SharedTypeOK, Actor, LockDiscipline, CommandLocks, ObserverLocks,
         SingleReaderOwner, Operating, OnChip
<1> QED BY <1>1, TypeCorrect, LocksFollowProgram, PTL

\* What CardStorage takes for granted: while a command works on a card, no other
\* command is inside its window and the observer does not scan.
CardWorkUndisturbed ==
    \A c \in Cli : cpc[c] = "device" =>
        /\ chip = {c}
        /\ opc # "scan"
        /\ \A d \in Cli \ {c} : cpc[d] \notin InWindow

\* A card operation has the reader for itself, however many commands wait.
THEOREM CardWorkAlone == Spec => []CardWorkUndisturbed
<1>1. TypeOK /\ LockDiscipline => CardWorkUndisturbed
  <2> SUFFICES ASSUME TypeOK, LockDiscipline, NEW c \in Cli, cpc[c] = "device"
               PROVE  /\ chip = {c}
                      /\ opc # "scan"
                      /\ \A d \in Cli \ {c} : cpc[d] \notin InWindow
    BY DEF CardWorkUndisturbed
  <2>1. spi = c /\ c \in chip /\ excl = c
    BY DEF LockDiscipline, CommandLocks, Operating, OnChip, InWindow, CliPc
  <2>2. chip \subseteq {c}
    BY <2>1, ActorsDistinct DEF TypeOK, SharedTypeOK, Actor, LockDiscipline, CommandLocks,
       ObserverLocks, Operating, OnChip
  <2>3. opc # "scan"
    BY <2>1, ActorsDistinct DEF LockDiscipline, ObserverLocks
  <2>4. \A d \in Cli \ {c} : cpc[d] \notin InWindow
    BY <2>1 DEF LockDiscipline, CommandLocks
  <2> QED BY <2>1, <2>2, <2>3, <2>4
<1> QED BY <1>1, TypeCorrect, LocksFollowProgram, PTL

-----------------------------------------------------------------------------
(* Every pause has its end on the way. *)

\* A process without a pid has nothing pending, and no command signals it.
PauseInv ==
    /\ PauseHasAnEnd
    /\ mainPid = NoPid <=> opc = "off"
    /\ opc = "off" => pending = {} /\ unit \in {"auto_restart", "inactive"}
    /\ \A c \in Cli : cpc[c] = "signal" => target[c] # NoPid

LEMMA PauseInit == Init => PauseInv
BY ActorsDistinct
DEF Init, SharedInit, ObserverInit, CliInit, PauseInv, PauseHasAnEnd

\* A step of a command that neither signals nor dies goes on towards its resume.
LEMMA PauseCarried ==
    ASSUME PauseInv, NEW c \in Cli, UNCHANGED <<obsVars, pending, mainPid>>,
           \A d \in Cli : d # c => cpc'[d] = cpc[d] /\ target'[d] = target[d],
           cpc[c] \in Answering => cpc'[c] \in Answering /\ target'[c] = target[c],
           cpc[c] # "killed",
           cpc'[c] = "signal" => target'[c] # NoPid
    PROVE  PauseInv'
<1>1. /\ opc' = opc /\ unit' = unit /\ pauseLeft' = pauseLeft
      /\ pending' = pending /\ mainPid' = mainPid
  BY DEF obsVars
<1>2. /\ mainPid' = NoPid <=> opc' = "off"
      /\ opc' = "off" => pending' = {} /\ unit' \in {"auto_restart", "inactive"}
      /\ \A d \in Cli : cpc'[d] = "signal" => target'[d] # NoPid
  BY <1>1 DEF PauseInv
<1>3. ASSUME pauseLeft' > 0 \/ "USR1" \in pending', "USR2" \notin pending',
             opc' \notin {"exit", "off"}
      PROVE  \/ \E d \in Cli : cpc'[d] \in Answering /\ target'[d] = mainPid'
             \/ \E d \in Cli : cpc'[d] = "killed"
  <2>1. CASE \E d \in Cli : cpc[d] = "killed"
    BY <2>1
  <2>2. CASE \E d \in Cli : cpc[d] \in Answering /\ target[d] = mainPid
    BY <1>1, <2>2
  <2> QED BY <1>1, <1>3, <2>1, <2>2 DEF PauseInv, PauseHasAnEnd
<1> QED BY <1>2, <1>3 DEF PauseInv, PauseHasAnEnd

LEMMA PauseCommandSteps ==
    ASSUME TypeOK, PauseInv, NEW c \in Cli,
           StartCommand(c) \/ RunCommand(c) \/ HurtCommand(c)
    PROVE  PauseInv'
<1>0. UNCHANGED obsVars
  BY DEF StartCommand, RunCommand, HurtCommand
<1>t. cpc \in [Cli -> CliPc] /\ target \in [Cli -> Pid \cup {NoPid}]
  BY DEF TypeOK, CliTypeOK
<1> USE DEF CliGoto
<1>1. CASE AcquireWindow(c) \/ RefuseWindow(c)
  BY <1>0, <1>t, <1>1, PauseCarried
  DEF AcquireWindow, RefuseWindow, AcquireExcl, Answering, sharedVars
<1>2. CASE QueryObserver(c)
  BY <1>0, <1>t, <1>2, PauseCarried DEF QueryObserver, Answering, sharedVars
<1>3. CASE RequestPause(c)
  <2>1. /\ cpc'[c] = "signalled" /\ target' = target /\ mainPid' = mainPid
        /\ target[c] = mainPid /\ cpc[c] = "signal"
        /\ \A d \in Cli : d # c => cpc'[d] = cpc[d]
    BY <1>t, <1>3 DEF RequestPause
  <2>2. PauseHasAnEnd'
    BY <2>1 DEF PauseHasAnEnd, Answering
  <2>3. opc # "off"
    BY <2>1 DEF PauseInv
  <2> QED BY <1>0, <2>1, <2>2, <2>3 DEF PauseInv, obsVars
<1>4. CASE ObserverGone(c) \/ SetDeadline(c)
  BY <1>0, <1>t, <1>4, PauseCarried DEF ObserverGone, SetDeadline, Answering, sharedVars
<1>5. CASE ProbeLock(c) \/ ProbeTimeout(c) \/ ProbeClose(c)
  BY <1>0, <1>t, <1>5, PauseCarried
  DEF ProbeLock, ProbeTimeout, ProbeClose, Answering, sharedVars
<1>6. CASE OpenReader(c) \/ OpenRefused(c) \/ OpenChip(c)
  BY <1>0, <1>t, <1>6, PauseCarried
  DEF OpenReader, OpenRefused, OpenChip, Answering, sharedVars
<1>7. CASE FinishCard(c) \/ CloseChip(c) \/ ReleaseReader(c)
  BY <1>0, <1>t, <1>7, PauseCarried
  DEF FinishCard, CloseChip, ReleaseReader, Answering, sharedVars
<1>8. CASE RequestResume(c)
  <2>1. /\ cpc'[c] = "unlock" /\ cpc[c] = "resume" /\ target' = target /\ mainPid' = mainPid
        /\ \A d \in Cli : d # c => cpc'[d] = cpc[d]
        /\ opc' = opc /\ unit' = unit /\ pauseLeft' = pauseLeft
    BY <1>0, <1>t, <1>8 DEF RequestResume, obsVars
  <2>2. CASE target[c] = NoPid \/ target[c] # mainPid
    <3>1. pending' = pending
      BY <1>8, <2>2 DEF RequestResume, Kill
    <3>2. target[c] = mainPid => opc' = "off"
      BY <2>1, <2>2 DEF PauseInv
    <3>3. PauseHasAnEnd'
      BY <2>1, <3>1, <3>2 DEF PauseInv, PauseHasAnEnd, Answering
    <3> QED BY <2>1, <3>1, <3>3 DEF PauseInv
  <2>3. CASE target[c] # NoPid /\ target[c] = mainPid
    <3>1. pending' = pending \cup {"USR2"}
      BY <1>8, <2>3 DEF RequestResume, Kill
    <3>2. PauseHasAnEnd'
      BY <3>1 DEF PauseHasAnEnd
    <3> QED BY <2>1, <2>3, <3>2 DEF PauseInv
  <2> QED BY <2>2, <2>3
<1>9. CASE ReleaseWindow(c)
  BY <1>0, <1>t, <1>9, PauseCarried DEF ReleaseWindow, Answering, sharedVars
<1>10. CASE QueryFails(c) \/ ChipFails(c)
  BY <1>0, <1>t, <1>10, PauseCarried DEF QueryFails, ChipFails, Answering, sharedVars
<1>11. CASE Interrupt(c)
  BY <1>0, <1>t, <1>11, PauseCarried DEF Interrupt, Unwind, Answering, sharedVars
<1>12. CASE KillCli(c)
  <2>1. cpc'[c] = "killed" /\ pending' = pending /\ mainPid' = mainPid
    BY <1>t, <1>12 DEF KillCli
  <2>2. \A d \in Cli : d # c => cpc'[d] = cpc[d] /\ target'[d] = target[d]
    BY <1>t, <1>12 DEF KillCli
  <2>3. PauseHasAnEnd'
    BY <2>1 DEF PauseHasAnEnd
  <2> QED BY <1>0, <2>1, <2>2, <2>3 DEF PauseInv, obsVars
<1> QED
  BY <1>1, <1>2, <1>3, <1>4, <1>5, <1>6, <1>7, <1>8, <1>9, <1>10, <1>11, <1>12
  DEF StartCommand, CliStart, RunCommand, CliProgram, HurtCommand, CliMishap

LEMMA PauseObserverSteps ==
    ASSUME TypeOK, PauseInv, RunObserver \/ Supervise \/ Disturb \/ Tick \/ UNCHANGED vars
    PROVE  PauseInv'
<1>0. target' = target /\ cpc' = cpc
  BY DEF RunObserver, Supervise, Disturb, Tick, vars, cliVars
<1> USE DEF PauseInv, PauseHasAnEnd
<1>1. CASE ObserverProgram
  <2>1. /\ pending' = pending /\ mainPid' = mainPid /\ pauseLeft' = pauseLeft /\ unit' = unit
        /\ opc # "off" /\ opc' # "off" /\ opc # "exit"
    BY <1>1 DEF ObserverProgram, InstallHandlers, TakeLock, LockRefused, OpenFails,
       FirstOpen, Reopen, LeaveLoop, BeginPass, ProbeFree, ProbeBusy, EndProbe, Decide,
       PauseChip, PauseLock, Scan, ScanFails, CloseDevice, ReleaseDevice, At, Goto
  <2> QED BY <1>0, <2>1
<1>2. CASE RunHandlers
  BY <1>0, <1>2 DEF RunHandlers
<1>3. CASE BootKilled
  BY <1>0, <1>3 DEF BootKilled
<1>4. CASE Reap
  BY <1>0, <1>4 DEF Reap
<1>5. CASE Fork
  <2>1. PICK p \in Pid : StartProcess(p)
    BY <1>5 DEF Fork
  <2> QED BY <1>0, <2>1, ActorsDistinct DEF StartProcess
<1>6. CASE Crash
  BY <1>0, <1>6 DEF Crash
<1>7. CASE StopUnit
  BY <1>0, <1>7 DEF StopUnit
<1>8. CASE MoveCard
  BY <1>0, <1>8 DEF MoveCard, sharedVars
<1>9. CASE Tick
  <2>1. pauseLeft' > 0 => pauseLeft > 0
    BY <1>9 DEF Tick, ObserverTick, Countdown
  <2> QED BY <1>0, <1>9, <2>1 DEF Tick, ObserverTick, sharedVars
<1>10. CASE UNCHANGED vars
  BY <1>10 DEF vars, sharedVars, obsVars, cliVars
<1> QED
  BY <1>1, <1>2, <1>3, <1>4, <1>5, <1>6, <1>7, <1>8, <1>9, <1>10
  DEF RunObserver, Supervise, Disturb

\* No way out of a command's window forgets its SIGUSR2, however many commands,
\* pids and restarts there are; only SIGKILL does.
THEOREM PausesEnd == Spec => []PauseHasAnEnd
<1>1. TypeOK /\ PauseInv /\ [Next]_vars => PauseInv'
  BY PauseCommandSteps, PauseObserverSteps DEF Next
<1>2. PauseInv => PauseHasAnEnd
  BY DEF PauseInv
<1> QED BY PauseInit, <1>1, <1>2, TypeCorrect, PTL DEF Spec

-----------------------------------------------------------------------------
(* A command that no other came before is left alone by the observer. *)

Asking   == {"start", "query", "signal"}
Answered == {"unlock", "done", "killed"}

\* Nobody has asked this observer for a pause yet, or it has not heard of it.
Untouched ==
    /\ pauseLeft = 0
    /\ ~paused
    /\ ~writerActive
    /\ opc \notin {"probe", "pause_chip", "pause_lock"}

\* The first command: until its request is handled the observer is untouched,
\* so that it cannot be about to reopen the reader when the request comes; from
\* then on the pause ends no sooner than PauseTicks after the request was sent.
AloneInv(c) ==
    /\ cpc[c] \in Asking => "USR1" \notin pending
    /\ cpc[c] \in Asking \/ "USR1" \in pending => Untouched
    /\ opc \in {"reopen", "reopen_chip"} => pauseLeft = 0
    /\ cpc[c] \in Waiting /\ target[c] = mainPid /\ opc \notin {"exit", "off"} =>
          "USR1" \in pending \/ pauseLeft + waited[c] >= PauseTicks

LoneInv ==
    /\ \A c \in Cli : cpc[c] \in Waiting \cup {"signal"} => target[c] # NoPid
    /\ "USR2" \in pending => \E c \in Cli : cpc[c] \in Answered
    /\ opc = "boot" => pauseLeft = 0
    /\ \A c \in Cli : Alone(c) => AloneInv(c)

LEMMA LoneInit == Init => LoneInv
BY DEF Init, SharedInit, ObserverInit, CliInit, LoneInv, AloneInv, Untouched, Waiting

\* What a step of a command may do to the program points and the signals.
LEMMA CommandMoves ==
    ASSUME TypeOK, NEW c \in Cli, StartCommand(c) \/ RunCommand(c) \/ HurtCommand(c)
    PROVE  /\ mainPid' = mainPid
           /\ \A d \in Cli : d # c => cpc'[d] = cpc[d] /\ target'[d] = target[d]
           /\ cpc'[c] # "start"
           /\ cpc'[c] \in Asking => cpc[c] \in Asking
           /\ cpc'[c] = "signal" => target'[c] # NoPid
           /\ cpc'[c] \in Waiting => RequestPause(c) \/ SetDeadline(c)
           /\ "USR1" \in pending' => "USR1" \in pending \/ RequestPause(c)
           /\ "USR2" \in pending' => "USR2" \in pending \/ cpc'[c] = "unlock"
           /\ cpc[c] \in Answered => cpc'[c] \in Answered
<1> USE DEF CliGoto, Asking, Answered, Waiting
<1>t. cpc \in [Cli -> CliPc] /\ target \in [Cli -> Pid \cup {NoPid}]
  BY DEF TypeOK, CliTypeOK
<1>1. CASE AcquireWindow(c) \/ RefuseWindow(c)
  BY <1>t, <1>1 DEF AcquireWindow, RefuseWindow, sharedVars
<1>2. CASE QueryObserver(c)
  BY <1>t, <1>2 DEF QueryObserver, sharedVars
<1>3. CASE RequestPause(c)
  BY <1>t, <1>3 DEF RequestPause, Kill
<1>4. CASE ObserverGone(c) \/ SetDeadline(c) \/ ProbeLock(c) \/ ProbeTimeout(c) \/ ProbeClose(c)
  BY <1>t, <1>4 DEF ObserverGone, SetDeadline, ProbeLock, ProbeTimeout, ProbeClose, sharedVars
<1>5. CASE OpenReader(c) \/ OpenRefused(c) \/ OpenChip(c)
  BY <1>t, <1>5 DEF OpenReader, OpenRefused, OpenChip, sharedVars
<1>6. CASE FinishCard(c) \/ CloseChip(c) \/ ReleaseReader(c)
  BY <1>t, <1>6 DEF FinishCard, CloseChip, ReleaseReader, sharedVars
<1>7. CASE RequestResume(c)
  BY <1>t, <1>7 DEF RequestResume, Kill
<1>8. CASE ReleaseWindow(c)
  BY <1>t, <1>8 DEF ReleaseWindow
<1>9. CASE QueryFails(c) \/ ChipFails(c)
  BY <1>t, <1>9 DEF QueryFails, ChipFails, sharedVars
<1>10. CASE Interrupt(c)
  BY <1>t, <1>10 DEF Interrupt, Unwind, sharedVars
<1>11. CASE KillCli(c)
  BY <1>t, <1>11 DEF KillCli
<1> QED
  BY <1>1, <1>2, <1>3, <1>4, <1>5, <1>6, <1>7, <1>8, <1>9, <1>10, <1>11
  DEF StartCommand, CliStart, RunCommand, CliProgram, HurtCommand, CliMishap

LEMMA LoneCommandSteps ==
    ASSUME TypeOK, LoneInv, NEW c \in Cli,
           StartCommand(c) \/ RunCommand(c) \/ HurtCommand(c)
    PROVE  LoneInv'
<1>0. UNCHANGED obsVars /\ Waits(c)
  BY DEF StartCommand, RunCommand, HurtCommand
<1>t. cpc \in [Cli -> CliPc] /\ target \in [Cli -> Pid \cup {NoPid}]
  BY DEF TypeOK, CliTypeOK
<1>r. RequestPause(c) =>
         /\ cpc[c] = "signal" /\ target' = target /\ pending' = pending \cup {"USR1"}
  BY DEF RequestPause, CliGoto, Kill
<1>s. SetDeadline(c) => cpc[c] = "signalled" /\ target' = target
  BY DEF SetDeadline, CliGoto
<1>1. \A d \in Cli : cpc'[d] \in Waiting \cup {"signal"} => target'[d] # NoPid
  BY <1>r, <1>s, CommandMoves DEF LoneInv, Waiting
<1>2. "USR2" \in pending' => \E d \in Cli : cpc'[d] \in Answered
  BY CommandMoves DEF LoneInv, Answered
<1>3. opc' = "boot" => pauseLeft' = 0
  BY <1>0 DEF LoneInv, obsVars
<1>4. ASSUME NEW d \in Cli, Alone(d)' PROVE AloneInv(d)'
  <2>1. d = c
    BY <1>4, CommandMoves DEF Alone
  <2>2. Alone(c)
    BY <1>4, <2>1, CommandMoves DEF Alone
  <2>3. AloneInv(c)
    BY <2>2 DEF LoneInv
  <2>4. Untouched => Untouched'
    BY <1>0 DEF Untouched, obsVars
  <2>5. CASE RequestPause(c)
    <3>1. cpc'[c] = "signalled"
      BY <1>t, <2>5 DEF RequestPause, CliGoto
    <3> QED BY <1>0, <1>r, <2>1, <2>3, <2>4, <2>5, <3>1 DEF AloneInv, Asking, obsVars
  <2>6. CASE SetDeadline(c)
    <3>1. cpc[c] = "signalled" /\ cpc'[c] = "probe" /\ UNCHANGED <<sharedVars, target>>
      BY <1>t, <2>6 DEF SetDeadline, CliGoto
    <3>2. waited'[c] = waited[c]
      BY <1>0, <3>1 DEF Waits, Waiting, TypeOK
    <3> QED BY <1>0, <2>1, <2>3, <2>4, <3>1, <3>2
            DEF AloneInv, Asking, Waiting, obsVars, sharedVars
  <2>7. CASE ~RequestPause(c) /\ ~SetDeadline(c)
    <3>1. /\ cpc'[c] \in Asking => cpc[c] \in Asking
          /\ "USR1" \in pending' => "USR1" \in pending
          /\ cpc'[c] \notin Waiting
      BY <2>7, CommandMoves
    <3> QED BY <1>0, <2>1, <2>3, <2>4, <3>1 DEF AloneInv, obsVars
  <2> QED BY <2>5, <2>6, <2>7
<1> QED BY <1>1, <1>2, <1>3, <1>4 DEF LoneInv

\* A step of the interpreted program of the observer.
LEMMA LoneProgramSteps ==
    ASSUME TypeOK, LockDiscipline, LoneInv, ObserverProgram,
           UNCHANGED <<cliVars, waited>>
    PROVE  LoneInv'
<1>0. /\ UNCHANGED <<pending, mainPid, pauseLeft>>
      /\ opc \notin {"exit", "off"} /\ opc' # "boot" /\ pending = {}
  BY DEF ObserverProgram, InstallHandlers, TakeLock, LockRefused, OpenFails,
       FirstOpen, Reopen, LeaveLoop, BeginPass, ProbeFree, ProbeBusy, EndProbe, Decide,
       PauseChip, PauseLock, Scan, ScanFails, CloseDevice, ReleaseDevice, At, Goto
<1>1. Untouched => Untouched'
  <2> USE DEF Untouched, At, Goto, Locals
  <2>1. CASE InstallHandlers \/ FirstOpen \/ Reopen \/ LeaveLoop
    BY <2>1 DEF InstallHandlers, FirstOpen, Reopen, LeaveLoop
  <2>2. CASE TakeLock("open", "open_chip") \/ TakeLock("reopen", "reopen_chip")
    BY <2>2 DEF TakeLock
  <2>3. CASE \E from \in {"open", "reopen"} : LockRefused(from)
    BY <2>3 DEF LockRefused
  <2>4. CASE \E from \in {"open_chip", "reopen_chip"} : OpenFails(from)
    BY <2>4 DEF OpenFails
  <2>5. CASE BeginPass
    BY <2>5 DEF BeginPass
  <2>6. CASE ProbeFree \/ ProbeBusy \/ EndProbe
    BY <2>6 DEF ProbeFree, ProbeBusy, EndProbe
  <2>7. CASE Decide
    BY <2>7 DEF Decide, MustPause
  <2>8. CASE PauseChip \/ PauseLock
    BY <2>8 DEF PauseChip, PauseLock
  <2>9. CASE (\E tag \in Uid \cup {None} : Scan(tag)) \/ ScanFails
    BY <2>9 DEF Scan, ScanFails
  <2>10. CASE CloseDevice \/ ReleaseDevice
    BY <2>10 DEF CloseDevice, ReleaseDevice
  <2> QED
    BY <2>1, <2>2, <2>3, <2>4, <2>5, <2>6, <2>7, <2>8, <2>9, <2>10 DEF ObserverProgram
<1>2. opc' \in {"reopen", "reopen_chip"} =>
         opc \in {"reopen", "reopen_chip"} \/ ~MustPause
  BY DEF ObserverProgram, InstallHandlers, TakeLock, LockRefused, OpenFails,
       FirstOpen, Reopen, LeaveLoop, BeginPass, ProbeFree, ProbeBusy, EndProbe, Decide,
       PauseChip, PauseLock, Scan, ScanFails, CloseDevice, ReleaseDevice, At, Goto
<1>3. opc' \in {"reopen", "reopen_chip"} /\ opc \notin {"reopen", "reopen_chip"} =>
         pauseLeft = 0
  BY <1>2 DEF MustPause, TypeOK, ObserverTypeOK
<1>4. ASSUME NEW c \in Cli, Alone(c)' PROVE AloneInv(c)'
  <2>1. AloneInv(c)
    BY <1>4 DEF LoneInv, Alone, cliVars
  <2> QED BY <1>0, <1>1, <1>3, <2>1 DEF AloneInv, cliVars
<1> QED BY <1>0, <1>4 DEF LoneInv, cliVars

LEMMA LoneObserverSteps ==
    ASSUME TypeOK, LockDiscipline, PauseInv, LoneInv,
           RunObserver \/ Supervise \/ Disturb \/ Tick \/ UNCHANGED vars
    PROVE  LoneInv'
<1>0. target' = target /\ cpc' = cpc
  BY DEF RunObserver, Supervise, Disturb, Tick, vars, cliVars
<1>a. \A c \in Cli : Alone(c)' => Alone(c) /\ AloneInv(c)
  BY <1>0 DEF Alone, LoneInv
<1>u. ASSUME "USR2" \in pending' => "USR2" \in pending,
             opc' = "boot" => pauseLeft' = 0,
             \A c \in Cli : Alone(c) /\ AloneInv(c) => AloneInv(c)'
      PROVE  LoneInv'
  BY <1>0, <1>a, <1>u DEF LoneInv
<1>1. CASE ObserverProgram /\ UNCHANGED <<cliVars, waited>>
  BY <1>1, LoneProgramSteps
<1>2. CASE RunHandlers /\ UNCHANGED <<cliVars, waited>>
  <2>1. ASSUME NEW c \in Cli, Alone(c), AloneInv(c) PROVE AloneInv(c)'
    <3>1. "USR1" \notin pending'
      BY <1>2 DEF RunHandlers
    <3>2. cpc[c] \in Asking => Untouched'
      <4>1. cpc[c] \in Asking => "USR1" \notin pending /\ Untouched
        BY <2>1 DEF AloneInv
      <4> QED BY <1>2, <4>1 DEF RunHandlers, Untouched
    <3>3. opc' \in {"reopen", "reopen_chip"} => pauseLeft' = 0
      <4>1. opc' = opc
        BY <1>2 DEF RunHandlers
      <4>2. opc \in {"reopen", "reopen_chip"} => pauseLeft = 0 /\ "USR1" \notin pending
        BY <2>1 DEF AloneInv, Untouched, LockDiscipline, PauseFlag
      <4> QED BY <1>2, <4>1, <4>2 DEF RunHandlers
    <3>4. ASSUME cpc[c] \in Waiting, target[c] = mainPid, opc \notin {"exit", "off"}
          PROVE  pauseLeft' + waited[c] >= PauseTicks
      <4>1. "USR2" \notin pending
        BY <2>1, <3>4 DEF Alone, LoneInv, Answered, Waiting
      <4>2. "USR1" \in pending \/ pauseLeft + waited[c] >= PauseTicks
        BY <2>1, <3>4 DEF AloneInv
      <4>3. CASE "USR1" \in pending
        <5>1. pauseLeft' = PauseTicks
          BY <1>2, <4>1, <4>3 DEF RunHandlers
        <5>2. waited[c] \in 0..PauseTicks
          BY DEF TypeOK
        <5> QED BY <5>1, <5>2, ObserverAssumption
      <4>4. CASE "USR1" \notin pending
        BY <1>2, <4>1, <4>2, <4>4 DEF RunHandlers
      <4> QED BY <4>3, <4>4
    <3> QED BY <1>2, <3>1, <3>2, <3>3, <3>4 DEF AloneInv, RunHandlers, cliVars
  <2>2. opc' # "boot" /\ "USR2" \notin pending'
    BY <1>2 DEF RunHandlers
  <2> QED BY <1>u, <2>1, <2>2
<1>3. CASE BootKilled /\ UNCHANGED <<cliVars, waited>>
  BY <1>3, <1>u DEF BootKilled, cliVars, AloneInv, Untouched
<1>4. CASE Reap /\ UNCHANGED <<cliVars, waited>>
  BY <1>4, <1>u DEF Reap, cliVars, AloneInv, Untouched
<1>5. CASE Fork /\ UNCHANGED <<cliVars, waited>>
  <2>1. PICK p \in Pid \ {target[c] : c \in Cli} : StartProcess(p)
    BY <1>5 DEF Fork
  <2>2. \A c \in Cli : target[c] # mainPid'
    BY <2>1 DEF StartProcess
  <2>3. pending' = {}
    BY <2>1 DEF StartProcess, PauseInv
  <2>4. \A c \in Cli : AloneInv(c)'
    BY <1>0, <2>1, <2>2, <2>3 DEF StartProcess, AloneInv, Untouched
  <2> QED BY <1>5, <1>u, <2>1, <2>3, <2>4 DEF StartProcess, cliVars
<1>6. CASE Crash /\ UNCHANGED <<cliVars, waited>>
  BY <1>6, <1>u DEF Crash, cliVars, AloneInv, Untouched
<1>7. CASE StopUnit /\ UNCHANGED <<cliVars, waited>>
  <2>1. \A sig \in {"USR1", "USR2"} : sig \in pending' => sig \in pending
    BY <1>7 DEF StopUnit
  <2> QED BY <1>7, <1>u, <2>1 DEF StopUnit, cliVars, AloneInv, Untouched, LoneInv
<1>8. CASE MoveCard /\ UNCHANGED <<cliVars, waited>>
  BY <1>8, <1>u DEF MoveCard, sharedVars, cliVars, AloneInv, Untouched, LoneInv
<1>9. CASE Tick
  <2>1. /\ pauseLeft' = Countdown(pauseLeft)
        /\ UNCHANGED <<pending, mainPid, opc, paused, writerActive>>
        /\ \A c \in Cli : cpc[c] \in Waiting =>
              waited'[c] = IF waited[c] < PauseTicks THEN waited[c] + 1 ELSE waited[c]
    BY <1>9 DEF Tick, ObserverTick, sharedVars
  <2>2. pauseLeft = 0 => pauseLeft' = 0
    BY <2>1 DEF Countdown
  <2>3. ASSUME NEW c \in Cli, cpc[c] \in Waiting, pauseLeft + waited[c] >= PauseTicks
        PROVE  pauseLeft' + waited'[c] >= PauseTicks
    <3>1. waited[c] \in 0..PauseTicks /\ pauseLeft \in Nat /\ PauseTicks \in Nat
      BY ObserverAssumption DEF TypeOK, ObserverTypeOK
    <3> QED BY <2>1, <2>3, <3>1 DEF Countdown
  <2>4. ASSUME NEW c \in Cli, AloneInv(c) PROVE AloneInv(c)'
    BY <1>0, <2>1, <2>2, <2>3, <2>4 DEF AloneInv, Untouched
  <2> QED BY <1>0, <1>a, <2>1, <2>2, <2>4 DEF LoneInv
<1>10. CASE UNCHANGED vars
  BY <1>10, <1>u DEF vars, sharedVars, obsVars, cliVars, AloneInv, Untouched, LoneInv
<1> QED
  BY <1>1, <1>2, <1>3, <1>4, <1>5, <1>6, <1>7, <1>8, <1>9, <1>10
  DEF RunObserver, Supervise, Disturb

\* A pause that is in force keeps the observer out of the way of the command
\* that has the SPI lock; only a new observer may just try it once.
LEMMA LoneWindow ==
    ASSUME TypeOK, LockDiscipline, PauseInv, LoneInv, NEW c \in Cli, Alone(c)
    PROVE  /\ RequestInForce(c)
           /\ cpc[c] \in Operating /\ pauseLeft > 0 => OutOfTheWay \/ opc = "open"
<1>1. AloneInv(c)
  BY DEF LoneInv
<1>2. RequestInForce(c)
  <2> SUFFICES ASSUME cpc[c] \in Waiting, waited[c] < PauseTicks, target[c] = mainPid,
                      opc # "exit", pending = {}
               PROVE  pauseLeft > 0
    BY DEF RequestInForce
  <2>1. opc # "off"
    BY DEF LoneInv, PauseInv
  <2>2. waited[c] \in Nat /\ pauseLeft \in Nat /\ PauseTicks \in Nat
    BY ObserverAssumption DEF TypeOK, ObserverTypeOK
  <2> QED BY <1>1, <2>1, <2>2 DEF AloneInv
<1>3. ASSUME cpc[c] \in Operating, pauseLeft > 0 PROVE OutOfTheWay \/ opc = "open"
  <2>1. spi = c /\ spi # Observer
    BY <1>3, ActorsDistinct DEF LockDiscipline, CommandLocks
  <2>2. opc \notin {"boot", "reopen"}
    BY <1>1, <1>3 DEF LoneInv, AloneInv
  <2>3. opc \in ObserverPc
    BY DEF TypeOK, ObserverTypeOK
  <2> QED
    BY <2>1, <2>2, <2>3
    DEF LockDiscipline, ObserverLocks, OutOfTheWay, ObserverPc, BetweenPolls
<1> QED BY <1>2, <1>3

\* To a command that no other came before, both promises of the pause request
\* hold, whatever the length of the pause and of the command's deadline,
\* however long the command is held up between its signal and its deadline, and
\* whatever becomes of the observer, its process and its unit meanwhile.
THEOREM LoneWindowsUndisturbed == Spec => []LoneWindowUndisturbed
<1>1. TypeOK /\ LockDiscipline /\ PauseInv /\ LoneInv /\ [Next]_vars => LoneInv'
  BY LoneCommandSteps, LoneObserverSteps DEF Next
<1>2. TypeOK /\ PauseInv /\ [Next]_vars => PauseInv'
  BY PauseCommandSteps, PauseObserverSteps DEF Next
<1>3. TypeOK /\ LockDiscipline /\ PauseInv /\ LoneInv => LoneWindowUndisturbed
  BY LoneWindow DEF LoneWindowUndisturbed
<1> QED
  BY LoneInit, PauseInit, <1>1, <1>2, <1>3, TypeCorrect, LocksFollowProgram, PTL DEF Spec

-----------------------------------------------------------------------------
(* Refinement: every step is a step of the lease or leaves it alone. *)

window == IF excl = Observer THEN Nobody ELSE excl

\* Whoever holds the SPI lock is the only possible user of the chip.
LEMMA ChipBehindLock ==
    ASSUME TypeOK, LockDiscipline, NEW p \in Actor, spi = p
    PROVE  chip = IF p \in chip THEN {p} ELSE {}
BY ActorsDistinct
DEF TypeOK, SharedTypeOK, Actor, LockDiscipline, CommandLocks, ObserverLocks,
    Operating, OnChip

LEMMA LeaseCommandSteps ==
    ASSUME TypeOK, LockDiscipline, NEW c \in Cli,
           StartCommand(c) \/ RunCommand(c) \/ HurtCommand(c)
    PROVE  Lease!LeaseNext \/ (chip' = chip /\ window' = window)
<1> USE ActorsDistinct DEF window
<1> DEFINE Quiet == chip' = chip /\ window' = window
<1>1. CASE AcquireWindow(c)
  <2>1. Lease!OpenWindow(c)
    BY <1>1 DEF AcquireWindow, AcquireExcl, Lease!OpenWindow
  <2> QED BY <2>1 DEF Lease!LeaseNext
<1>2. CASE OpenChip(c)
  <2>1. spi = c /\ c \notin chip /\ excl = c
    BY <1>2 DEF OpenChip, CliGoto, LockDiscipline, CommandLocks, Operating, OnChip,
                InWindow, CliPc
  <2>2. chip = {}
    BY <2>1, ChipBehindLock DEF Actor
  <2>3. Lease!Take(c)
    BY <1>2, <2>1, <2>2 DEF OpenChip, Lease!Take
  <2> QED BY <2>3 DEF Lease!LeaseNext
<1>3. CASE CloseChip(c)
  <2>1. spi = c /\ c \in chip
    BY <1>3 DEF CloseChip, CliGoto, LockDiscipline, CommandLocks, Operating, OnChip
  <2>2. chip = {c}
    BY <2>1, ChipBehindLock DEF Actor
  <2>3. Lease!PutBack(c)
    BY <1>3, <2>2 DEF CloseChip, CloseSpiDevice, Lease!PutBack
  <2> QED BY <2>3 DEF Lease!LeaseNext
<1>4. CASE ReleaseWindow(c)
  <2>1. excl = c /\ c \notin chip
    BY <1>4 DEF ReleaseWindow, CliGoto, LockDiscipline, CommandLocks, InWindow, OnChip, CliPc
  <2>2. Lease!EndWindow(c)
    BY <1>4, <2>1 DEF ReleaseWindow, ReleaseExcl, Lease!EndWindow
  <2> QED BY <2>2 DEF Lease!LeaseNext
<1>5. CASE KillCli(c)
  <2>1. excl = c
    BY <1>5 DEF KillCli, LockDiscipline, CommandLocks
  <2>2. Lease!EndWindow(c)
    BY <1>5, <2>1 DEF KillCli, DropAll, ReleaseExcl, CloseSpiDevice, Lease!EndWindow
  <2> QED BY <2>2 DEF Lease!LeaseNext
<1>6. CASE ~( \/ AcquireWindow(c) \/ OpenChip(c) \/ CloseChip(c)
              \/ ReleaseWindow(c) \/ KillCli(c) )
  <2>1. Quiet
    BY <1>6 DEF StartCommand, CliStart, RefuseWindow, RunCommand, CliProgram,
         HurtCommand, CliMishap, QueryObserver, RequestPause, ObserverGone,
         SetDeadline, ProbeLock, ProbeTimeout, ProbeClose, OpenReader, OpenRefused, FinishCard,
         ReleaseReader, RequestResume, QueryFails, ChipFails, Interrupt, sharedVars
  <2> QED BY <2>1
<1> QED BY <1>1, <1>2, <1>3, <1>4, <1>5, <1>6

LEMMA LeaseObserverSteps ==
    ASSUME TypeOK, LockDiscipline, RunObserver \/ Supervise \/ Disturb
    PROVE  Lease!LeaseNext \/ (chip' = chip /\ window' = window)
<1> USE ActorsDistinct DEF window
<1>1. CASE FirstOpen \/ Reopen
  <2>1. spi = Observer /\ Observer \notin chip
    BY <1>1 DEF FirstOpen, Reopen, At, LockDiscipline, ObserverLocks
  <2>2. chip = {}
    BY <2>1, ChipBehindLock DEF Actor
  <2>3. Lease!Take(Observer)
    BY <1>1, <2>2 DEF FirstOpen, Reopen, Locals, Lease!Take
  <2> QED BY <2>3 DEF Lease!LeaseNext
<1>2. CASE PauseChip \/ CloseDevice \/ Crash
  <2>1. chip' = chip \ {Observer} /\ window' = window
    BY <1>2 DEF PauseChip, CloseDevice, Crash, DropAll, ReleaseExcl, CloseSpiDevice
  <2>2. CASE Observer \in chip
    <3>1. chip = {Observer}
      BY <2>2, ChipBehindLock DEF LockDiscipline, ObserverLocks, Actor
    <3>2. Lease!PutBack(Observer)
      BY <2>1, <3>1 DEF Lease!PutBack
    <3> QED BY <3>2 DEF Lease!LeaseNext
  <2>3. CASE Observer \notin chip
    BY <2>1, <2>3 DEF TypeOK, SharedTypeOK
  <2> QED BY <2>2, <2>3
<1>3. CASE ~(FirstOpen \/ Reopen \/ PauseChip \/ CloseDevice \/ Crash)
  <2>1. chip' = chip /\ window' = window
    BY <1>3 DEF RunObserver, ObserverProgram, RunHandlers, BootKilled, Supervise,
         Disturb, InstallHandlers, TakeLock, LockRefused, OpenFails, LeaveLoop,
         BeginPass, ProbeFree, ProbeBusy, EndProbe, Decide, PauseLock, Scan,
         ScanFails, ReleaseDevice, Reap, Fork, StartProcess, StopUnit, MoveCard,
         AcquireExcl, ReleaseExcl, Locals, sharedVars
  <2> QED BY <2>1
<1> QED BY <1>1, <1>2, <1>3

\* The observer and the commands, with all their locks, signals and mishaps,
\* are one implementation of the lease.
THEOREM CoordinationIsALease == Spec => LeaseImplemented
<1>1. Init => Lease!LeaseInit
  BY ActorsDistinct DEF Init, SharedInit, Lease!LeaseInit
<1>2. TypeOK /\ LockDiscipline /\ [Next]_vars => [Lease!LeaseNext]_(Lease!leaseVars)
  <2> SUFFICES ASSUME TypeOK, LockDiscipline, [Next]_vars
               PROVE  Lease!LeaseNext \/ (chip' = chip /\ window' = window)
    BY DEF Lease!leaseVars, window
  <2>1. CASE \E c \in Cli : StartCommand(c) \/ RunCommand(c) \/ HurtCommand(c)
    BY <2>1, LeaseCommandSteps
  <2>2. CASE RunObserver \/ Supervise \/ Disturb
    BY <2>2, LeaseObserverSteps
  <2>3. CASE Tick \/ UNCHANGED vars
    BY <2>3 DEF Tick, vars, sharedVars, window
  <2> QED BY <2>1, <2>2, <2>3 DEF Next
<1> QED
  BY <1>1, <1>2, TypeCorrect, LocksFollowProgram, PTL
  DEF Spec, LeaseImplemented, Lease!LeaseSpec
=============================================================================
