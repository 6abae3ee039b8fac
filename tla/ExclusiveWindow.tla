-------------------------- MODULE ExclusiveWindow --------------------------
(***************************************************************************)
(* A physical `gway-rfid command`: exclusive_reader_window and the reader  *)
(* it opens inside the window (command_cli.py), one process per element of *)
(* Cli, each run once.  Image-only commands touch nothing shared.          *)
(***************************************************************************)
EXTENDS SharedReader

CONSTANT DeadlineTicks   \* the 10 s a command waits for the SPI lock

ASSUME DeadlineAssumption == DeadlineTicks \in Nat \ {0}

VARIABLES
    cpc,       \* where each command stands
    target,    \* its variable pid, NoPid while None or 0
    deadline   \* its deadline - now, while it probes

cliVars == <<cpc, target, deadline>>

CliPc == {"start", "query", "signal", "signalled", "probe", "probed", "granted",
          "opening", "device", "closing", "releasing", "resume", "unlock", "done",
          "killed"}

\* The program points at which a command holds the exclusive lock, the SPI
\* lock and the chip.
InWindow  == CliPc \ {"start", "done", "killed"}
Operating == {"probed", "opening", "device", "closing", "releasing"}
OnChip    == {"device", "closing"}

CliTypeOK ==
    /\ cpc \in [Cli -> CliPc]
    /\ target \in [Cli -> Pid \cup {NoPid}]
    /\ deadline \in [Cli -> 0..DeadlineTicks]

CliInit ==
    /\ cpc = [c \in Cli |-> "start"]
    /\ target = [c \in Cli |-> NoPid]
    /\ deadline = [c \in Cli |-> 0]

CliGoto(c, from, to) == cpc[c] = from /\ cpc' = [cpc EXCEPT ![c] = to]

-----------------------------------------------------------------------------

\* Line 80: flock without waiting; a busy lock ends the command.
AcquireWindow(c) ==
    /\ CliGoto(c, "start", "query")
    /\ AcquireExcl(c)
    /\ UNCHANGED <<spi, chip, pending, mainPid, target, deadline>>

RefuseWindow(c) ==
    /\ CliGoto(c, "start", "done")
    /\ excl # Nobody
    /\ UNCHANGED <<sharedVars, target, deadline>>

\* Lines 81-89: systemctl show MainPID; 0 means there is nobody to pause.
QueryObserver(c) ==
    /\ CliGoto(c, "query", IF mainPid = NoPid THEN "granted" ELSE "signal")
    /\ target' = [target EXCEPT ![c] = mainPid]
    /\ UNCHANGED <<sharedVars, deadline>>

QueryFails(c) ==
    /\ "query" \in Env
    /\ CliGoto(c, "query", "unlock")
    /\ UNCHANGED <<sharedVars, target, deadline>>

\* Mutant: the two signals are exchanged.
RequestPauseSwapped(c) ==
    /\ target[c] = mainPid
    /\ CliGoto(c, "signal", "signalled")
    /\ Kill(target[c], "USR2")
    /\ UNCHANGED <<spi, excl, chip, mainPid, target, deadline>>

\* Line 90; a pid that has gone meanwhile raises ProcessLookupError.
RequestPause(c) ==
    /\ target[c] = mainPid
    /\ CliGoto(c, "signal", "signalled")
    /\ Kill(target[c], "USR1")
    /\ UNCHANGED <<spi, excl, chip, mainPid, target, deadline>>

ObserverGone(c) ==
    /\ target[c] # mainPid
    /\ CliGoto(c, "signal", "resume")
    /\ UNCHANGED <<sharedVars, target, deadline>>

\* Line 91: the clock is read when the signal has been sent, however long ago.
SetDeadline(c) ==
    /\ CliGoto(c, "signalled", "probe")
    /\ deadline' = [deadline EXCEPT ![c] = DeadlineTicks]
    /\ UNCHANGED <<sharedVars, target>>

\* Mutant: the deadline is computed anew in every round.
ProbeTimeoutRenewed(c) ==
    /\ deadline[c] = 0
    /\ CliGoto(c, "probe", "probe")
    /\ deadline' = [deadline EXCEPT ![c] = DeadlineTicks]
    /\ UNCHANGED <<sharedVars, target>>

\* Lines 92-102: take the SPI lock to learn that it is free, and give it back.
\* The deadline may pass between line 92 and the attempt.
ProbeLock(c) ==
    /\ CliGoto(c, "probe", "probed")
    /\ AcquireSpi(c)
    /\ UNCHANGED <<excl, chip, pending, mainPid, target, deadline>>

ProbeTimeout(c) ==
    /\ deadline[c] = 0
    /\ CliGoto(c, "probe", "resume")
    /\ UNCHANGED <<sharedVars, target, deadline>>

ProbeClose(c) ==
    /\ CliGoto(c, "probed", "granted")
    /\ ReleaseSpi(c)
    /\ deadline' = [deadline EXCEPT ![c] = 0]
    /\ UNCHANGED <<excl, chip, pending, mainPid, target>>

\* with MFRC522Reader() as reader (line 65): the lock, then the chip.
OpenReader(c) ==
    /\ CliGoto(c, "granted", "opening")
    /\ AcquireSpi(c)
    /\ UNCHANGED <<excl, chip, pending, mainPid, target, deadline>>

OpenRefused(c) ==
    /\ CliGoto(c, "granted", "resume")
    /\ SpiIsHeld
    /\ UNCHANGED <<sharedVars, target, deadline>>

OpenChip(c) ==
    /\ CliGoto(c, "opening", "device")
    /\ chip' = chip \cup {c}
    /\ UNCHANGED <<spi, excl, pending, mainPid, target, deadline>>

ChipFails(c) ==
    /\ "hardware" \in Env
    /\ CliGoto(c, "opening", "releasing")
    /\ UNCHANGED <<sharedVars, target, deadline>>

\* The card operation ends, with a result or with an exception.
FinishCard(c) ==
    /\ CliGoto(c, "device", "closing")
    /\ UNCHANGED <<sharedVars, target, deadline>>

CloseChip(c) ==
    /\ CliGoto(c, "closing", "releasing")
    /\ CloseSpiDevice(c)
    /\ UNCHANGED <<spi, excl, pending, mainPid, target, deadline>>

ReleaseReader(c) ==
    /\ CliGoto(c, "releasing", "resume")
    /\ ReleaseSpi(c)
    /\ UNCHANGED <<excl, chip, pending, mainPid, target, deadline>>

\* Lines 105-109: resume whoever was asked to pause, if it still lives.
RequestResume(c) ==
    /\ CliGoto(c, "resume", "unlock")
    /\ IF target[c] = NoPid THEN UNCHANGED pending ELSE Kill(target[c], "USR2")
    /\ UNCHANGED <<spi, excl, chip, mainPid, target, deadline>>

\* Line 110: os.close(fd) gives the exclusive lock back.
ReleaseWindow(c) ==
    /\ CliGoto(c, "unlock", "done")
    /\ ReleaseExcl(c)
    /\ target' = [target EXCEPT ![c] = NoPid]
    /\ deadline' = [deadline EXCEPT ![c] = 0]
    /\ UNCHANGED <<spi, chip, pending, mainPid>>

\* Mutants: the reader is opened without a with statement; the resume signal
\* belongs to the normal end only.
UnwindWithoutClose ==
    [query |-> "unlock", signal |-> "resume", signalled |-> "resume",
     probe |-> "resume", probed |-> "releasing", granted |-> "resume",
     opening |-> "releasing", device |-> "releasing"]

UnwindWithoutResume ==
    [query |-> "unlock", signal |-> "unlock", signalled |-> "unlock",
     probe |-> "unlock", probed |-> "releasing", granted |-> "unlock",
     opening |-> "releasing", device |-> "closing"]

\* Where the finally clauses take an exception raised at each point.
Unwind == [query |-> "unlock", signal |-> "resume", signalled |-> "resume",
           probe |-> "resume", probed |-> "releasing", granted |-> "resume",
           opening |-> "releasing", device |-> "closing"]

Interrupt(c) ==
    /\ "interrupt" \in Env
    /\ cpc[c] \in DOMAIN Unwind
    /\ cpc' = [cpc EXCEPT ![c] = Unwind[@]]
    /\ UNCHANGED <<sharedVars, target, deadline>>

\* SIGKILL, or a second ^C inside the cleanup: nothing but the kernel's
\* release of the descriptors.
KillCli(c) ==
    /\ "kill" \in Env
    /\ cpc[c] \in InWindow
    /\ cpc' = [cpc EXCEPT ![c] = "killed"]
    /\ DropAll(c)
    /\ target' = [target EXCEPT ![c] = NoPid]
    /\ deadline' = [deadline EXCEPT ![c] = 0]
    /\ UNCHANGED <<pending, mainPid>>

-----------------------------------------------------------------------------

\* The steps a running command is bound to take, up to its end.
CliProgram(c) ==
    \/ QueryObserver(c)
    \/ RequestPause(c) \/ ObserverGone(c) \/ SetDeadline(c)
    \/ ProbeLock(c) \/ ProbeTimeout(c) \/ ProbeClose(c)
    \/ OpenReader(c) \/ OpenRefused(c) \/ OpenChip(c)
    \/ FinishCard(c) \/ CloseChip(c) \/ ReleaseReader(c)
    \/ RequestResume(c) \/ ReleaseWindow(c)

CliStart(c) == AcquireWindow(c) \/ RefuseWindow(c)

CliMishap(c) == QueryFails(c) \/ ChipFails(c) \/ Interrupt(c) \/ KillCli(c)

CliTick == deadline' = [c \in Cli |-> Countdown(deadline[c])]
=============================================================================
