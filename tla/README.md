# A TLA+ model of gway-rfid

gway-rfid watches an MFRC522 reader on a Raspberry Pi, and lets an operator
write, inspect and run signed shell programs stored on MIFARE cards. This
directory holds TLA+ modules of the parts of it that are hard to get right and
hard to test, TLC configurations for small instances, and proofs that TLAPS
checks for every instance.

## 1. The system

| part | source | state | operations |
|---|---|---|---|
| observer service | `service.py` | `paused`, `pause_until`, `writer_active`, `stopping`, the tracker, the open reader | main loop; handlers of SIGUSR1, SIGUSR2, SIGTERM, SIGINT; restart by systemd |
| exclusive window | `command_cli.py` `transport`, `exclusive_reader_window` | exclusive lock, remembered pid, deadline | take window, pause observer, probe, open, close, resume, release |
| MFRC522 backend | `backends/mfrc522.py` | SPI lock descriptor, SPI device | open, scan, block read and write, close |
| presence tracker | `presence.py` | uid, last_seen, generation | observe |
| scanner lifecycle, health | `scanner.py`, `health.py` | state, backoff, counters, stop event | run, stop, status |
| card storage | `storage.py`, `card.py`, `card_transport.py` | the card's blocks, header as commit marker | write_payload, read_payload |
| shell programs | `shell_cards.py`, `codec.py`, `command_cli.run` | payload, trust directory, child process group | encode, verify, execute |
| releases | `scripts/release_prune.py`, `deploy.sh`, `install.yml` | releases, `current`, `previous`, deploy lock, the running service | install, skip, activate, prune |
| label printing | `printing.py`, `linux_printing.py`, `label_cli.py` | a label, a USB job, the printer's interface | render, choose a device, chunked write |
| events, one-shot commands, mock | `events.py`, `commands.py`, `core.py`, `backends/mock.py` | none | publish, scan, normalize |

**How they meet.** The observer and the commands are separate processes that
share one reader. They talk only through the kernel: two advisory locks
(`gway-rfid-spi0.0.lock`, `gway-rfid-exclusive.lock`), signals to the pid that
`systemctl show` reports, and time. A command takes the exclusive lock, sends
SIGUSR1, polls the SPI lock until it is free, opens the reader, works, closes,
sends SIGUSR2 and drops the exclusive lock. The observer releases the reader
while a pause is in force, and takes it back when the pause is over and, if it
timed out, the exclusive lock is free. The observer feeds polls to a presence
tracker of its own; `Scanner` is the library's other loop around a tracker.
Commands read and write cards through `storage.py` inside the window and execute
programs after it. `label` shares nothing with the reader but the executable; its
commands meet each other at the printer. Deployment and pruning are processes of
the release owner, kept apart by `deploy.lock`, and meet the service through the
link `current` it is started from.

**What is hard.** Everything about the reader is a race: the pause may
run out while a command works; signals are coalesced and reordered; the observer
may be starting, failing or gone when it is signalled; a command may be killed at
any instruction; both sides probe locks by taking them. Cards are torn from the
reader at any time. Polls miss cards. A program forks, becomes root, or ends just
as its time does. A deployment may stop between any two tasks, a label in the middle
of a line. `PROJECT.json` lists the hazards with their
lines.

**What makes it correct.**

- observer and window: one process on the chip at a time; nobody leaks a lock on
  any path; a command is not disturbed while it works; the observer always comes
  back; commands end.
- presence: one scan per stay, a well-formed story of events, no change hidden.
- scanner: an error is retried or reported, never swallowed; the reader is closed
  when a run ends by a stop, an error or a callback, however many recoveries it had;
  health never shows a state the scanner was not in.
- storage: a reader of the card sees the old payload, the new one, or no valid
  payload, whatever happens to the writer.
- programs: nothing runs unverified, nothing outlives the command that ran it, and
  status 0 means that it was done.
- releases: both links always name usable releases, and the release that is left is
  always the one kept as `previous`.
- labels: a job that is reported written is on the printer, whole and unmixed; what
  the printer reads is the picture that was drawn.

## 2. Modules

| module | what it is |
|---|---|
| `SharedReader` | the kernel's side: lock holders, who has the chip open, pending signals, MainPID; the operators on them |
| `Observer` | the service: one action per program point of `run()` at which something can come between, the handlers, systemd |
| `ExclusiveWindow` | a command: one action per step of `exclusive_reader_window` and of the reader opened inside it |
| `ReaderCoordination` | composes the two with the clock; properties and fairness |
| `ReaderLease` | the abstract specification: who uses the chip, whose window is open |
| `MCReaderCoordination` | symmetry for TLC |
| `Presence` | `PresenceTracker.observe` as operators on a tracker record |
| `PresenceTracker` | a tracker under polling, with missed polls and clock steps |
| `Scanner` | `Scanner.run` with recovery, backoff and callbacks, threads that run and stop it, and one that takes health snapshots |
| `CardMemory` | a card or image as data: a header block, payload blocks, `read_program`, the outcomes of a block write |
| `CardStorage` | the commands `write`, `inspect` and `run` on one card or image, block by block, with every fault |
| `ProgramStore` | the abstract specification of a card: a program, or none, and what has been asked for |
| `MCCardStorage` | the programs, a digest and symmetry for TLC |
| `SignedPayload` | the CBOR envelopes of programs and managed commands: what decodes, what verifies, what the conversions keep |
| `ShellCommand` | the commands `write`, `inspect`, `run` one after the other, `execute_program` and the process group it starts |
| `LabelImage` | the arithmetic of a label: QR size, text truncation, raster, job header, and the printer's reading of them |
| `LabelPrinting` | commands that render a label, choose a device and send a job chunk by chunk |
| `CommandLine` | composes the two groups of subcommands |
| `Releases` | `deploy.sh` with the tasks of `install.yml`, `release_prune.py --apply`, the service under systemd |
| `ReleaseLinks` | the abstract specification of the links `current` and `previous` |
| `MCCommandLine`, `MCReleases` | the cards and drafts for TLC; symmetry |
| `PresenceProofs` | what `observe` returns, case by case: the lemmas its users' proofs share |
| `ReaderCoordinationProofs`, `PresenceTrackerProofs`, `ScannerProofs`, `CardStorageProofs`, `ReleasesProofs`, `ShellCommandProofs`, `CommandLineProofs` | theorems |

`Observer` and `ExclusiveWindow` both extend `SharedReader`; `Observer`,
`PresenceTracker` and `Scanner` extend `Presence`; `CardStorage` extends `CardMemory`.
`CardStorage` takes one fact from the coordination: on a card (`Medium = "card"`)
a command starts only when no other is at work, which is the exclusive window's
doing and proved of it (`CardWorkAlone`). `ShellCommand` extends `SignedPayload`
and takes the storage of a payload as one step, which is what `ProgramStore` says of
it; `LabelPrinting` extends `LabelImage`.

**Correspondence.** `opc` is the observer's program counter: `loop` is line 46,
`probe`/`probed` lines 49-56, `decide` line 57, `pause_chip`/`pause_lock` the two
halves of `device.close()` at line 59, `reopen`/`reopen_chip` the two halves of
`device.open()` at line 65, `scan` line 69, `closing`/`release` the `finally`.
`cpc[c]` is the command's: `query` the systemctl call, `signal` line 90, `signalled`
line 91, which reads the clock (`SetDeadline`), `probe` and `probed` the loop of lines
92-102, `granted` the yield, `opening`, `device`,
`closing`, `releasing` the reader, `resume` and `unlock` the `finally`. Two lines
of Python that touch nothing shared are one action with the line before them.

**Signals.** A signal is in `pending` from the `os.kill` until the handlers run.
CPython checks for tripped handlers before it goes on with the program and runs
them in the order of the signal numbers, so every other step of the observer
waits for `pending = {}` and `RunHandlers` takes all of them at once. How long
the observer is not scheduled is not bounded. Before line 37 the default action
applies (`BootKilled`). A pid is never reused while a command remembers it.

**Time** is relative. `pauseLeft` is `pause_until - now`, `deadline` likewise;
the tracker's `last_seen` is a negative age. `Tick` moves all of them at once and
may fall anywhere: nothing in the code bounds how much happens in a tick. `waited[c]`
is history: how long ago a command that waits for the reader sent its SIGUSR1. Ages
saturate at `RemovalTicks`, beyond which `observe` cannot tell them apart.

**Cards.** `pc[p]` is where a command is: `open` is `transport()`, `format` lines
28-30 of `card_transport.py`, `erase`/`erased` lines 61-63 of `storage.py`,
`body`/`check` the loop of lines 65-70, `commit` line 73, `committed` line 74 to
`run`'s readback, `read` the `read_program` of `inspect` and `run`. A program is a
nonempty sequence of at most `NumBlocks` chunks; lengths are counted in blocks. A
cell of a block is a chunk, `Blank` or `Torn`. The content id is a function
`Digest` of payload contents, so that a run or theorem can say what it assumes of
it (`NoCollisions`). `original` and `writer` are auxiliary.

A block write ends in one of the ways of `WriteOutcome`: done, lost without a word
(`silent`: mfrc522 0.0.7 returns `None` either way), an exception before or after
the block changed (`raises`), a torn block (`torn`). A readback may fail by itself
(`unread`), a card may leave at any time (`removed`; it is then no longer selected
and authentication fails until the end of the command), a command may be killed
(`crash`).

Reading a card is one step, because nothing can write to it meanwhile and a card
taken away makes the read fail. Reading an image is one step for another reason:
Python's file object fetches the whole 1024 bytes into its buffer at the first read
after opening or flushing, and later reads come from there. So the readback of each
write is a real one (the flush emptied the buffer), and the last readback of the
whole program is as old as the readback of the header.

**The scanner.** `pc[r]` is where a thread is in `Scanner.run`: `began` between lines
98 and 100, `loop` line 111, `open` and `scan` lines 114 and 117, `failing` line 122,
`waiting` line 133, `polled` between `scan()` and line 139, `deliver` the callbacks
and the wait of line 151, `leaving` and `left` the two levels of the `finally`.
`local[r]` holds the locals of the run. An error is "retry" or "fatal" as
`recoverable` judges it. `close()` may raise, which leaves the reader "stuck", and a
failed `open()` may leave it open. An interrupt (`KeyboardInterrupt`, `SystemExit`) is
no `Exception`, so line 118 lets it pass to the outer `finally`: `Interrupt` at every
point of the loop, and within `close()` and the callbacks like an error of theirs.
`status()` is two steps, since `snapshot` reads
`last_poll_monotonic` first and `state` last.

**Shell programs.** A payload is a record of what each field of the CBOR map is for
the decoders: absent, of the right kind, of a kind that only one of the two decoders
takes (`"like one"` for `True` and `1.0`, `"null"`), or something else. A signature
is given by the key and the envelope it was made over. `pc` is `open` at
`transport()`, `card` inside the window, `execute` from line 128 of `command_cli.py`
to the `Popen` of `shell_cards.py:144`, `try` between it and the `try`, `wait` line
154, `kill` line 159, `reap` line 162. A session is the process group: its leader (the
shell, which may be a zombie nobody has waited for), a number of other members, who of
them has become root's by `sudo` and so cannot be signalled (`rooted`), and the time
`left` to the wait. The program does as it likes (`ProgramStep`): it forks, leaves the
group, changes its user, exits or is killed by a signal. `recycled` says that the
group's id has been given to others after its last process had gone. An `Interrupt`
is caught by the `try`; `Popen.wait` goes on waiting for up to a quarter of a second
then, so a shell that has ended may have been waited for. `Killed` is one that is not
caught, and SIGKILL. `author` is auxiliary.

**Labels.** A draft is a text, a size or an image: each goes through its own part of
`printing.py`, by the operators of `LabelImage`. Widths of characters stand for the
font. `step[s]` is where a printing command is, `offset[s]` its place in the job,
`printed` what the printer has taken from all of them. PyUSB claims the interface with
the first write and holds it to the end; the Windows path is opened shared. A write
takes any part of its chunk when it breaks off.

**Releases.** A release directory is `absent`, `partial` (it fails the check of lines
48-56), `damaged` (it passes, with a part missing that the check does not look at) or
`whole`. `pc[j]` is where a job is: `ready` deploy.sh's decision, then the tasks of the
playbook in order, `plan` and `prune` the two halves of `execute()`. Each task is one
action, as Ansible runs one at a time; `local[j]` holds what the tasks registered. Any
job may stop at any step (`Stop`): a task that fails, a lost connection, a kill. The
service may end and be started by systemd at any time, from what `current` names then.

**Environment.** `Env` names the events a run allows (`clock`, `cold`, `crash`,
`hardware`, `interrupt`, `kill`, `operator`, `query`; see `SharedReader`), so that a
run can ask what holds without some of them. Without `cold`, commands start only
once the observer has opened the reader.

## 3. Runs

| run | instance | shows |
|---|---|---|
| `coordination` | 2 commands, 3 pids, 1 card, every event, pause 3, deadline 2 | `TypeOK`, `SingleReaderOwner` (nobody scans a reader that is not theirs), `LockDiscipline`, `PauseHasAnEnd` (no way out of the window forgets SIGUSR2), `LoneWindowUndisturbed` (a command that no other came before keeps the pause it asked for from its signal on, and has the observer out of its way while the pause runs), and that the coordination implements `ReaderLease` |
| `coordination_live` | 2 commands; clock, kills, interrupts, operator, failed queries | `ObserverAlwaysReturns`, `CommandEnds` |
| `slow_writer` | 1 command, clock | **violated**: `ObserverYields` |
| `stale_resume` | 2 commands, no mishaps | **violated**: `PauseRequestHonoured` |
| `pause_rescan` | 1 command, 1 card | **violated**: `OneScanPerStay` |
| `presence` | 2 cards, removal after 3 ticks, clock may fall 1 tick behind | `TypeOK`, `OneScanPerStay`, `EventsAlternate`, `ChangesAreSeen` |
| `scanner` | 2 threads in `run()`, 2 cards, every fault, delays 1 to 3 | `TypeOK`, `SoleRunner`, `ReaderReleased`, `OneScanPerStay`, `TransitionsOnce`, `HealthyIsTrue`, `StopIsHonoured`, `Recovers` |
| `card` | 2 commands in turn on a card, every fault | `TypeOK`, `AcceptedWasWritten`, `WrittenIsStored`, and that a card implements `ProgramStore` (`CardIsAStore`) |
| `image` | 2 commands at once on an image, exceptions and kills | `AcceptedWasWritten`, `WrittenIsStored` |
| `command_line` | 2 issuers, 2 keys, timeouts of 1 and 2, a group of up to 3; 2 printing commands, jobs of 3 bytes in chunks of 2; every refusal, fault and kill | `TypeOK`, `OnlyTrustedRuns`, `NothingOutlives`, `ZeroMeansDone`, `StrangersSpared`, `WrittenCardsVerify`, `CommandsRoundTrip`, `JobsReachPrinter`, `LabelRendered`, `CommandReturns` |
| `releases` | 4 revisions, 2 jobs, stopped anywhere | `TypeOK`, `LinksResolve`, `PruneIsThorough` (no success is reported over a candidate that is left), and that the installation implements `ReleaseLinks` (`LinksKept`) |
| `stale_service` | 2 revisions, 1 job | **violated**: `SkipIsHealthy` |

**Violations.** They are what the code does:

- `slow_writer`: lines 48 and 57 of `service.py` read the clock separately. If the
  pause expires between them, the exclusive lock has not been probed and the
  observer goes for the reader while the command works. `MFRC522Reader.open` then
  fails on the SPI lock and the service exits (the SPI lock still keeps the chip
  to one process: `SingleReaderOwner` holds).
- `stale_resume`: `resume` cancels any pause. When a finished command's SIGUSR2 and
  the next one's SIGUSR1 are handled together, SIGUSR1 comes first because of its
  number. It takes an observer that is not scheduled while the second command
  starts, so it is rare, but nothing excludes it.
- `pause_rescan`: line 66 starts a new tracker, so a held card is scanned again.
- `stale_service`: the playbook restarts the service when it has built the release or
  changed the unit in the same run. If a deployment stops after building, or goes back
  to a release that is there, the next one only starts what does not run, and
  `deploy.sh` asks `is-active`, not which release is. The service of the older
  release goes on, and every later deployment is skipped as installed and healthy.

Not runs, but worth knowing. A callback of `Scanner` that raises on the first of two
events of a poll loses the second for good: the tracker has advanced, so a scanner
that is run again goes on with the transition after it. `TransitionsOnce` counts
such events as told. A scanner that is interrupted between a failure and the end of the
next `open()` leaves its reader open if that `open()` got so far: `needs_close` is still
`False` from line 126. `ReaderReleased` says that this is the only way. A command that is
held up between lines 90 and 91 of `command_cli.py` for longer than the pause outlasts
the deadline (35 s) probes on after its pause is over, since the deadline counts from
line 91; `LoneWindowUndisturbed` holds for the length of a pause from the signal on. And
`CardImage` looks for an existing file only in
`os.open` and takes no lock, so a write without `--overwrite` that has just created
the file goes on to erase what a concurrent write with `--overwrite` has stored
there since, even after that one has reported success
(`docs/shell-cards.md:91` asks for `--overwrite` to replace an image).
`WrittenIsStored` therefore speaks of a report until somebody else writes, and an
image does not implement `ProgramStore`.

Of shell programs: a command that is killed, or interrupted outside the `try`
(between lines 144 and 153 of `shell_cards.py`) or in its `finally`, leaves the program
running without a time limit. What has become root's by `sudo` cannot be killed; if it
is the shell itself (`exec sudo`), line 162 waits for it without a limit when line 159
has signalled other members, and line 159 raises when there is none. `killpg` may
meet a stranger under the id of a group that has gone, when the program ended by itself
or just as the command was interrupted; `StrangersSpared` says that a timeout is not
among them. A script that
exits with 1 cannot be told from a command that failed. `decode_signed` accepts a null
label and a version that is `True` or `1.0`: such a payload is encoded differently the
next time, so its content id changes (`CommandsRoundTrip` says for which ones it does
not).

Of labels: `QrInside` speaks of labels of 24 by 28 and more; the QR code of one under
28 rows is cut. The layout check of `printing.py:125` adds up heights
without the offset of the text box, so text may touch the line below. Heights over
65535 lose their upper bits in the job (`JobReadsBack` says up to where it holds).
On Windows the printer is opened shared, so two jobs may interleave: `Unmixed` is
claimed of Linux. `label_cli.py:41` imports `command_cli`, whose `import fcntl` fails
there, so that the default transport `docs/printing.md:24` describes is not reached by
way of the command line. Errors of `systemctl` (`CalledProcessError`,
`TimeoutExpired`) are not among those `label_cli.run` reports: they end in a traceback,
with the same status 1. `Device.write` of PyUSB (1.2 and later) has no parameter
`interface`, so with the library itself line 78 of `linux_printing.py` would raise
before anything is sent; the model takes `device.write` as the code means it, and a write
that raises is one of its outcomes, so what it shows of safety holds there too.

Of releases: a first build that stops leaves a directory that line 57 of `install.yml`
refuses to fill again and, without a `current`, pruning refuses to remove. A removal
that stops may leave a release that passes the check with parts missing, and a later
deployment uses it as it is (`damaged`; `LinksResolve` asks for the check, no more).
With the cause of `stale_service` the release at work is not the one the links name,
and may be pruned (`release_prune.py:48`). `README.md:119-120` says that pruning
preserves "`current`, the available `previous` rollback pointer, and installed CLI
references"; `inventory()` protects the first two and looks for no others. The
repository neither installs nor records such a reference, so there is nothing to check
the promise against; `PruneIsThorough` speaks of the candidates the code has, and not
of whether they are the right ones. An installation that stops between lines 142
and 153 has overwritten `previous`, so the older release is lost to a rollback although
no switch took place. The playbook run without `deploy.sh` takes no lock, although
`release_prune.py:150` speaks of "any direct installer". And `HEAD` may move between
line 19 of the playbook, which names the release, and lines 64-86, which copy it.

**Bounds.** Two commands are the smallest number that races for the window and
lets one command's leftovers meet the next; a third adds no kind of holder, since
the exclusive lock admits one. Commands run once, so two of them also stand for
two runs of one operator. One pid more than commands lets every command remember
a different dead observer. Pause 2 or 3 against deadline 1 or 2 keeps the order of
45 s and 10 s and allows each to expire at every program point; the pause may also
run out before the deadline is set. The runs without cards (`Uid = {}`) leave the
tracker out of the state;
`pause_rescan` has a card, with `MaxGeneration` and `MaxScans` of 2, the least at which
a second scan shows, `coordination` one that is read once. `PresenceTracker` bounds the number
of presences by forbidding further card moves (`MaxGeneration`), never polls.
Its removal delay of three ticks leaves room for several missed polls before a
removal is due.
Two threads are the least that compete for a scanner; each may run it any number of
times, one after the other's failure, until it is stopped. Delays of 1, 2 and 3
(`RetryMax`) take three failures to reach the bound; failures are not bounded.
The runs on cards have two blocks, two chunks and all six programs over them, and
start with every content the two blocks can have under an invalid header or under
that of a program that is there. Two blocks are the least at which half of one
program meets half of another; two commands, the least at which one finds what a
failed one left, and at which two overlap on an image. `MCDigest` has no collisions.

In `command_line` the cards people come with differ in at most one field from a good
program or a good command (`Variations`), so that each check of the decoders is the
only one that fails on some card; what commands write comes on top. Timeouts 1 and 2,
with a `--max-timeout` of either, make each of them the shorter once. `MaxMembers`
bounds the group: two are the least at which one leaves and one stays. Jobs of three
bytes in chunks of two have a full chunk and a short one, and six bytes
(`MaxPrinted`) are two jobs, or a torn one and most of the next. Texts have up to five
characters of three widths, in lines of up to eight, the dots taking three; sizes lie
on both sides of the limits in the code. The two groups of subcommands share no state,
so a behaviour is one of shell commands or of labels. In `releases` both links leave
two of the four revisions to be pruned, which is `Limit`, or three before there is a
`previous`, which is more; two jobs are the least that compete for the lock, and
each runs any number of times.

**Fairness.** The observer, each command that has the window, systemd and the clock
go on when they can (`Fairness`): these are processes under a fair scheduler, and
none of their steps waits for another without a timeout. Starting a command, card
moves, errors, kills and operator actions are never forced. systemd's start limit
is not modelled: with `RestartSec=3` the unit cannot reach five starts in ten
seconds. In `coordination_live` the hardware does not fail and the observer is not
killed, since either may go on for ever. `PresenceTracker.FairSpec` asks that a
lying card is read again and again, and that time passes; `ChangesAreSeen` is
claimed of behaviours in which the clock stops stepping back some day
(`ClockSettles`; `time.monotonic`, the default, never does).

`Scanner.FairSpec` asks that a thread in `run()` goes on (`Proceed`): reader and callback
return or raise, and every wait has a timeout. Interrupts, calls of `run()` and `stop()`, snapshots, cards and
time are not forced. `Recovers` is claimed of readers that stop failing some day
(`ReaderSettles`).

`CommandLine.Fairness` asks that a shell command goes on when it can, and that time
passes while it waits: a `wait` with a timeout ends. Nothing is asked of the program,
nor of whoever interrupts or kills. `CommandReturns` is claimed as long as the shell
has not become root's. `Releases` has no fairness: no liveness is claimed of it.

**Deadlock** is checked in every run but `card` and `image`: there the commands run
once, and nothing is left to do when both have ended.

## 4. Proofs

`ReaderCoordinationProofs`, from the assumptions `ActorsDistinct`,
`ObserverAssumption`, `DeadlineAssumption` and `PresenceAssumption`:

- `TypeCorrect`: `Spec => []TypeOK`.
- `LocksFollowProgram`: `Spec => []LockDiscipline`. This is the inductive
  invariant: it ties every lock and the chip to the program counters.
  `SingleReaderOwner` alone is not inductive, since nothing in it says that a
  command at `opening` holds the SPI lock it is about to use.
- `OneReaderOwner`: a consequence.
- `PausesEnd`: every exception in the window leads to a program point from which the
  resume is sent (`PauseCarried`). The rest of `PauseInv` says when that signal may go
  amiss: never to a process that lives, since a pid is there as long as the process.
- `CardWorkAlone`: while a command is at `device` it alone has the chip open, no other
  is inside its window and the observer does not scan. No run checks this one: it is
  the fact that `CardStorage` builds on, and follows from the discipline.
- `LoneWindowsUndisturbed`: a command that no other came before is not disturbed. Its
  invariant `LoneInv` follows the one SIGUSR1: until it is sent, and while it is
  pending, nobody has touched the observer's pause (`Untouched`), and a SIGUSR2 is
  pending only when some command has sent one, which for a lone command means after
  its own end. From the handling of the signal on, the pause that is left and the time
  waited make up a pause at least. It needs `PausesEnd`'s invariant for who may have
  sent what, and nothing of how pause and deadline compare.
- `CoordinationIsALease`: every step is a step of `ReaderLease` or leaves it alone,
  with `inUse <- chip` and `window <- excl` unless the observer probes. It needs
  the discipline: `ChipBehindLock` says that whoever holds the SPI lock is the
  only possible user, so opening the chip is a `Take` of a free reader.

The command steps keep the observer's part of the discipline because they never
touch its holdings, and the other way round (`LockFrame`).

`PresenceTrackerProofs`, from `PresenceAssumption`:

- `HeldCardScannedOnce`: by `StayInv`, a card that has been read since it was put
  down is the tracker's and was last seen at that very time.
- `EventsTellOneStory`: the last event always agrees with the tracker
  (`StoryInv`), and each of the four shapes of a poll's events extends the story.
- `TrackerTyped`: from both, and `AgesInv`: no time leaves the range it saturates in.

`ScannerProofs`, from `PresenceAssumption` and `ScannerAssumption`, for any threads,
cards, faults and delays; all safety that the run `scanner` checks:

- `ScannerTyped`: types, and that the delay starts anew with every poll (`DelayInv`).
- `OneRunAtATime`: `LockInv`, the thread that holds `_run_lock` is the one in `run()`.
  The other proofs need it too: no thread can interfere with the one that runs.
- `NoReaderLeftOpen`: `DeviceInv` names the run that answers for an open reader. It is
  in its recovery, which closes the reader whatever its flags say, has `needs_close`
  set and the `finally` ahead, or was interrupted after waiting for a retry.
  `ReaderReleased` alone speaks only of the end.
- `HealthyRunsPoll`: `RunningInv` names the run that the state "running" speaks of. It
  is inductive with `PollsInv`: a reader about to be opened has not been polled.
- `RestingCardScannedOnce`: the `StayInv` of the tracker, weakened between `scan()` and
  `observe()`, where the card is read and the tracker does not know.
- `EventsToldInOrder`: what has not been told yet leads from the last event told to the
  tracker's state (`StoryInv`), over runs that end and begin again.

`CardStorageProofs`, from `MemoryAssumption` and `CliAssumption`, for any set of
faults:

- `StorageTyped`: types, together with what a program counter says about job, block
  index and report (`WorkInv`, which the rest builds on).
- `WrittenIsTrue`: a reported write is stored until somebody else writes. It assumes
  nothing of the digest: the readbacks carry it.
- `DigestProtects`: with `NoCollisions` only programs that were asked for are accepted,
  on cards and images. The invariant `IdInv` follows the header's content id alone:
  it is nobody's or that of a program asked for, whatever the body holds.
- `CommitMarkerProtects`: on a card whose blocks are written whole or not at all the
  same follows for *any* digest, from the order of the writes. `CardInv` says that
  the body is written under an invalid header, `MarkerInv` that the blocks behind
  the index are verified, so a valid header is only ever put over a whole body.
- `CardImplementsStore`: every step of a card either leaves the readable program
  alone, loses it or stores one that was asked for. The hard case is a torn erasure:
  a header whose content id survives can only read as the old program.

`ReleasesProofs`, from `ReleaseAssumption`, for any number of revisions and jobs:

- `LinksAlwaysResolve`: `JobInv` carries the check of line 104 to the activation: from
  `unit` to `activate` the revision of a job passes it. That nobody else changes the
  release meanwhile is the lock's doing (`LockInv`: who is at a step holds it), and
  `JobFrame` says that a step of one job leaves what the others have established.
- `PruningIsThorough`: at `prune`, every release that is there is linked or still to
  be removed, so none of the candidates is left when nothing is to be removed.
- `ReleasesKeepLinks`: every step is a step of `ReleaseLinks` or leaves it alone. It
  needs that the older release read at line 123 is still the active one at line 142,
  and that at line 153 `previous` names what is about to be left.

`ShellCommandProofs`, from `PayloadAssumption` and `ShellAssumption`, for any cards,
issuers, keys and timeouts and groups of any size:

- `ShellInvariant`: the inductive invariant. `Prelude` says what is known up to the
  start of a program, `Execution` what is known of its group from there on, `Signed`
  what a card is worth whose author is known, `Strangers` when the group's id can be
  somebody else's. What the program does to its group is one lemma
  (`ProgramEvolves`): it never undoes a kill or a wait.
- `TrustedProgramsOnly`: a payload that verifies is, field by field, what
  `encode_program` makes of its issuer's arguments (`VerifiedIsSigned`).
- `GroupsEndWithTheirCommand`, `SuccessIsEarned`: after `killpg` the group has no member
  it could signal, and the members cannot return.
- `StrangersAreSpared`: after a timeout the shell has not been waited for when `killpg`
  runs, so its id cannot have gone to anybody else.
- `AuthorsAreTrusted`: what a card's author signed verifies for those who hold the
  author's key, and for no other trust directory.
- `CommandsSurvive`: a field that decodes is a string or nothing, and comes back the
  same from CBOR and JSON (`FieldRoundTrip`), a null as nothing; what a signature is
  worth depends on nothing else (`CommandRoundTrip`).

They are about `ShellSpec`. `CommandLineProofs`, from these assumptions and
`PrintAssumption`, carries them over to the command line with its labels, for any
number of senders and any length of jobs and chunks:

- `CommandLineTyped`: types. `StreamExtended` says what the printer has got after a
  write, byte by byte.
- `ShellCommandsSafe`: a label command is a stutter of `ShellSpec`.
- `LabelsStayWhole`: `Spec => []Unmixed`. By `StreamInv` the claim belongs to the one
  that sends, and the printer's last byte is the one before its next chunk, or the end
  of a label when nobody sends.
- `JobsArrive`: with `InOrder`, the other half of `JobsReachPrinter`, which holds on
  Windows too: each of a sender's bytes begins a job or follows, among that sender's
  bytes, the one before it. `OrderInv` adds where the next chunk starts: at a job's
  beginning, or after the last byte the printer has had of this sender. `JobGoesOn` is
  the one lemma about a write, whole or short, of any number of bytes.
- `LabelsRendered`: the arithmetic (of the QR code on labels of 24 by 28 and more), from
  `DraftAssumption` (texts are stripped before
  they are measured, and the lines of a picture are whole bytes). Of the bisection it is proved
  that it ends (`SearchSolves`: each round is on a shorter range), that it ends at a part
  that fits before one that does not, whatever fits (`SearchFinds`), that this is
  the longest, since parts only get wider (`StrippedWidths`), and that with the dots it
  is no wider than the line (`JoinedWidth`). Characters keep their widths side by side
  here; a font that kerns may shift the last by a fraction. The picture comes back
  because the place of a byte in the job gives its line and column (`DivMod`,
  `JobBytes`) and each bit has a weight of its own (`BitsReadBack`).

**Induction.** The recursive functions of `LabelImage` need induction over numbers. The
library's induction theorems take a predicate as a parameter, which the provers here
cannot instantiate; `SetInduction` takes a set instead. It comes from `LeastNat`, which
comes from the well-foundedness of finite sets (`FS_StrictSubsetOrderingWellFounded`)
by way of the intervals `0 .. k`.

Only model-checked: liveness (`ObserverAlwaysReturns`, `CommandEnds`, `ChangesAreSeen`,
`StopIsHonoured`, `Recovers`, `CommandReturns`), which rests on fairness and so on
`ENABLED`, and the four violations.

## 5. Not modelled

Broker events and the one-shot commands (section 1): nothing of them is kept from one
call to the next, and the service never publishes. Of the coordination: lock files that
cannot be opened for lack of permission, a second start of the service by hand beside
systemd's, processes that ignore the locks. Of cards: the byte layout of header and
padding, payload lengths that are no multiple of a block, authentication keys, writes
that a power failure of the host reorders (each image write is followed by `fsync`),
and bodies changed by other tools. Of the scanner: interrupts in lines 98-110 and in the
inner `finally` (lines 157-160), which leave `_run_lock` held, and within `observe()`. Of
programs: how CBOR and Ed25519 work (a payload is
canonical or not, a signature somebody's or nobody's), the shape of scripts and
argument lists, what `label_cli` prints. Of labels: fonts and the place of a text, the
Wi-Fi and URL strings in a QR code, Windows' device registry. Of releases: dry runs, the
playbook run without `deploy.sh`, what the unit file says, a host that is not reached.

## 6. Plan

1. Done: every part of the table in section 1 that keeps state, and proofs about each.
2. Done: a theorem for every safety property that a run checks.
3. `CardLayout`: `blocks_for_length`, header encode and decode over bounded inputs, in
   the run of the card.
