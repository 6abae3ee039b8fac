--------------------------- MODULE SharedReader ---------------------------
(***************************************************************************)
(* What the processes around one MFRC522 reader share through the kernel:  *)
(* the advisory SPI lock, the exclusive-operation lock, the chip itself    *)
(* and the signals on their way to the observer.                           *)
(*                                                                         *)
(* Both locks are flock(LOCK_EX | LOCK_NB) on a descriptor opened afresh,  *)
(* so a second attempt conflicts even inside the process that holds the    *)
(* lock, and the kernel drops the lock with its holder.                    *)
(***************************************************************************)
EXTENDS Integers, FiniteSets

CONSTANTS
    Cli,        \* physical `gway-rfid command` invocations, one shot each
    Observer,   \* the gway-rfid.service process
    Nobody,     \* holder of a free lock
    Pid, NoPid, \* process ids of the observer; NoPid is systemd's MainPID=0
    Env         \* the environment events a model allows, see EnvEvent

EnvEvent == {"clock",      \* time passes between two steps
             "cold",       \* commands may start while the observer starts
             "crash",      \* SIGKILL of the observer
             "hardware",   \* GPIO or SPI calls raise
             "interrupt",  \* an exception or ^C inside a command
             "kill",       \* SIGKILL of a command
             "operator",   \* systemctl start and stop
             "query"}      \* systemctl show fails or answers nonsense

ASSUME ActorsDistinct ==
    /\ Observer \notin Cli
    /\ Nobody \notin Cli \cup {Observer}
    /\ NoPid \notin Pid
    /\ Env \subseteq EnvEvent

VARIABLES
    spi,      \* who holds /run/lock/gway-rfid-spi0.0.lock
    excl,     \* who holds /run/lock/gway-rfid-exclusive.lock
    chip,     \* the processes that have the SPI device open
    pending,  \* signals delivered to the observer, handlers not yet run
    mainPid   \* the observer's pid as systemd reports it

sharedVars == <<spi, excl, chip, pending, mainPid>>

Actor == Cli \cup {Observer}

SharedTypeOK ==
    /\ spi \in Actor \cup {Nobody}
    /\ excl \in Actor \cup {Nobody}
    /\ chip \subseteq Actor
    /\ pending \subseteq {"USR1", "USR2", "TERM"}
    /\ mainPid \in Pid \cup {NoPid}

SharedInit ==
    /\ spi = Nobody
    /\ excl = Nobody
    /\ chip = {}
    /\ pending = {}
    /\ mainPid \in Pid

-----------------------------------------------------------------------------

\* Mutant: a shared lock, LOCK_SH for LOCK_EX.
AcquireSpiShared(p) == spi' = p

\* MFRC522Reader._acquire_lock, when the lock is free and when it is held.
AcquireSpi(p) == spi = Nobody /\ spi' = p
SpiIsHeld == spi # Nobody

\* MFRC522Reader.close: the chip first, then, in a finally, the lock.
CloseSpiDevice(p) == chip' = chip \ {p}
ReleaseSpi(p) == spi' = IF spi = p THEN Nobody ELSE spi

AcquireExcl(p) == excl = Nobody /\ excl' = p
ReleaseExcl(p) == excl' = IF excl = p THEN Nobody ELSE excl

\* Process exit: the kernel closes every descriptor.
DropAll(p) ==
    /\ ReleaseSpi(p)
    /\ ReleaseExcl(p)
    /\ CloseSpiDevice(p)

\* os.kill on a remembered pid reaches the observer only while it is alive
\* under that pid; an undelivered signal of the same number is coalesced.
Kill(pid, sig) ==
    pending' = IF pid = mainPid THEN pending \cup {sig} ELSE pending

\* What a tick leaves of a span of time that is counted down.
Countdown(n) == IF n > 0 THEN n - 1 ELSE 0
=============================================================================
