------------------------ MODULE ReaderCoordination ------------------------
(***************************************************************************)
(* The observer, its systemd unit and a set of commands around one reader. *)
(***************************************************************************)
EXTENDS Observer, ExclusiveWindow

\* History: for how long each command has waited since it sent SIGUSR1.
VARIABLE waited

vars == <<sharedVars, obsVars, cliVars, waited>>

Waiting == {"signalled", "probe"}

TypeOK ==
    /\ SharedTypeOK /\ ObserverTypeOK /\ CliTypeOK
    /\ waited \in [Cli -> 0..PauseTicks]

Init == SharedInit /\ ObserverInit /\ CliInit /\ waited = [c \in Cli |-> 0]

Waits(c) == waited' = [waited EXCEPT ![c] = IF cpc'[c] \in Waiting THEN @ ELSE 0]

-----------------------------------------------------------------------------

\* A command starts at any time, or, in a model without cold starts, once the
\* observer has opened the reader.
StartCommand(c) ==
    /\ "cold" \in Env \/ opc \notin {"off", "boot", "open", "open_chip"}
    /\ CliStart(c)
    /\ Waits(c)
    /\ UNCHANGED obsVars

RunCommand(c) == CliProgram(c) /\ Waits(c) /\ UNCHANGED obsVars

HurtCommand(c) == CliMishap(c) /\ Waits(c) /\ UNCHANGED obsVars

RunObserver ==
    /\ ObserverProgram \/ RunHandlers \/ BootKilled
    /\ UNCHANGED <<cliVars, waited>>

\* A new process gets a pid that no command remembers.
Fork == \E p \in Pid \ {target[c] : c \in Cli} : StartProcess(p)

Supervise == (Reap \/ Fork) /\ UNCHANGED <<cliVars, waited>>

Disturb == (Crash \/ StopUnit \/ MoveCard) /\ UNCHANGED <<cliVars, waited>>

\* One tick passes for everybody; nothing bounds what fits into a tick.
Tick ==
    /\ "clock" \in Env
    /\ ObserverTick
    /\ CliTick
    /\ waited' = [c \in Cli |-> IF cpc[c] \in Waiting /\ waited[c] < PauseTicks
                               THEN waited[c] + 1 ELSE waited[c]]
    /\ <<pauseLeft, tracker, deadline, waited>>' # <<pauseLeft, tracker, deadline, waited>>
    /\ UNCHANGED <<sharedVars, cpc, target>>

Next ==
    \/ \E c \in Cli : StartCommand(c) \/ RunCommand(c) \/ HurtCommand(c)
    \/ RunObserver
    \/ Supervise
    \/ Disturb
    \/ Tick

Spec == Init /\ [][Next]_vars

\* The scheduler runs every process that can run, systemd reaps and restarts,
\* and the clock goes on; nobody has to start a command or move a card.
Fairness ==
    /\ WF_vars(RunObserver)
    /\ WF_vars(Supervise)
    /\ WF_vars(Tick)
    /\ \A c \in Cli : WF_vars(RunCommand(c))

FairSpec == Spec /\ Fairness
-----------------------------------------------------------------------------
(* Safety *)

\* At most one process has the SPI device open, and it holds the SPI lock
\* ("one process owns the reader", MFRC522Reader.open and close); the observer
\* scans only while it is the one, since scan() would open the reader by itself,
\* behind the pause logic of run().
SingleReaderOwner ==
    /\ \A p \in chip : spi = p
    /\ opc = "scan" => Observer \in chip

\* Who holds what at which point of its program: a command between its flock
\* and its os.close, the observer from its open to its close unless paused.
BetweenPolls == {"loop", "probe", "probed", "decide"}

CommandLocks ==
    \A c \in Cli :
        /\ spi = c <=> cpc[c] \in Operating
        /\ c \in chip <=> cpc[c] \in OnChip
        /\ excl = c <=> cpc[c] \in InWindow

ObserverLocks ==
    /\ excl = Observer <=> opc = "probed"
    /\ opc \in BetweenPolls =>
          (spi = Observer <=> ~paused) /\ (Observer \in chip <=> ~paused)
    /\ opc \in {"scan", "pause_chip"} => Observer \in chip
    /\ opc \in {"off", "boot", "open", "open_chip", "pause_lock", "reopen",
                "reopen_chip", "release", "exit"} => Observer \notin chip
    /\ opc \in {"open_chip", "pause_chip", "pause_lock", "reopen_chip", "scan"} =>
          spi = Observer
    /\ opc \in {"off", "boot", "open", "reopen", "exit"} => spi # Observer
    /\ Observer \in chip => spi = Observer

PauseFlag ==
    /\ opc \in {"boot", "open", "open_chip", "scan", "pause_chip", "pause_lock"} => ~paused
    /\ opc \in {"reopen", "reopen_chip"} => paused

\* Every process holds exactly the locks that its program point calls for, so
\* none is leaked on any way out (MFRC522Reader.open, close and the finally
\* clauses of exclusive_reader_window and run).
LockDiscipline == CommandLocks /\ ObserverLocks /\ PauseFlag

\* While a command works on the reader the observer waits, paused, or is on its
\* way out: it neither scans nor tries to reopen (run(), lines 46-68, against
\* exclusive_reader_window's "never silently compete for the SPI device").
OutOfTheWay ==
    \/ paused /\ opc \in BetweenPolls
    \/ opc \in {"closing", "release", "exit", "off"}

ObserverYields == \A c \in Cli : cpc[c] \in Operating => OutOfTheWay

\* A pause request that the observer has handled is in force while the command
\* that made it waits for the reader, for PauseTicks from when it was sent: the
\* command's deadline does not count from there (command_cli.py:90-91), so one
\* held up in between may wait for longer than its pause lasts.
RequestInForce(c) ==
    ( /\ cpc[c] \in Waiting
      /\ waited[c] < PauseTicks
      /\ target[c] = mainPid
      /\ opc # "exit"
      /\ pending = {} )  => pauseLeft > 0

PauseRequestHonoured == \A c \in Cli : RequestInForce(c)

\* Both promises as they do hold: to a command that no other came before, the
\* first as long as its pause has not run out (line 57).  A starting observer
\* tries the reader once, whatever it has been asked (line 44).
Alone(c) == \A d \in Cli \ {c} : cpc[d] = "start"

LoneWindowUndisturbed ==
    \A c \in Cli : Alone(c) =>
        /\ RequestInForce(c)
        /\ cpc[c] \in Operating /\ pauseLeft > 0 => OutOfTheWay \/ opc = "open"

\* No way out of the window forgets SIGUSR2: a pause, accepted or on its way,
\* has its end on the way too, or a command that will still send it, unless a
\* command was killed (transport's and exclusive_reader_window's finally).
Answering == {"signalled", "probe", "probed", "granted", "opening", "device",
              "closing", "releasing", "resume"}

PauseHasAnEnd ==
    pauseLeft > 0 \/ "USR1" \in pending =>
        \/ "USR2" \in pending
        \/ \E c \in Cli : cpc[c] \in Answering /\ target[c] = mainPid
        \/ \E c \in Cli : cpc[c] = "killed"
        \/ opc \in {"exit", "off"}

\* A card that stays on the reader is logged once (presence.py:19).
OneScanPerStay == scans <= 1

\* The coordination implements the lease; the observer's own short hold on the
\* exclusive lock is not a window.
Lease == INSTANCE ReaderLease WITH
    inUse <- chip,
    window <- IF excl = Observer THEN Nobody ELSE excl

LeaseImplemented == Lease!LeaseSpec
-----------------------------------------------------------------------------
(* Liveness *)

\* Whatever happens to the commands, the observer comes back to scanning
\* unless the operator stopped it.
ObserverAlwaysReturns == []<>(opc = "scan" \/ unit = "inactive")

\* A command that has the window ends.
CommandEnds == \A c \in Cli : cpc[c] = "query" ~> cpc[c] \in {"done", "killed"}
=============================================================================
