---------------------------- MODULE ShellCommand ----------------------------
(***************************************************************************)
(* `gway-rfid command write | inspect | run` (command_cli.py, label_cli.py *)
(* and shell_cards.py), one command after the other: a program is signed   *)
(* onto a card, read back, verified and run as a process group of its own  *)
(* that is to end with the command.                                        *)
(***************************************************************************)
EXTENDS SignedPayload

CONSTANTS Cards,        \* the cards people come with
          Blank,        \* a card without a readable payload
          MaxMembers    \* bound: processes of the group, the shell aside

Card == [shell : BOOLEAN, payload : Payload]      \* shell: flags = SHELL_FLAG

ASSUME ShellAssumption ==
    /\ Cards \subseteq Card
    /\ Blank \notin Card
    /\ MaxMembers \in Nat

VARIABLES
    card,      \* on the reader, or the image
    author,    \* who wrote it, as long as it is there
    pc,        \* of the command
    req,       \* its arguments
    window,    \* it holds the reader, or the image
    payload,   \* what it has read
    session,   \* the process group of the program
    recycled,  \* the group's id belongs to somebody else now
    harmed,    \* who has been killed in the group's place
    outcome,
    code       \* the exit status, -1 before the end

command   == <<pc, req, window, payload>>
world     == <<recycled, harmed>>
result    == <<outcome, code>>
shellVars == <<card, author, command, session, world, result>>

Trust    == [Issuer -> Key \cup {NoKey}]
Write    == [action : {"write"}, issuer : Issuer \cup {"text"},
             timeout : Timeout \cup {0}, key : Key]
\* "verify" is inspect with --trusted-issuers, max is --max-timeout.
Reading  == [action : {"inspect", "verify", "run"}, trusted : Trust,
             max : Timeout \cup {0}, root : BOOLEAN]
NoRequest == [action |-> "none"]

\* rooted: those of the group that have become root's, by sudo, and cannot be
\* signalled.
Session == [leader : {"none", "running", "zombie", "reaped"}, status : Int,
            members : 0 .. MaxMembers, rooted : SUBSET {"leader", "member"}, left : Nat]
NoSession == [leader |-> "none", status |-> -1, members |-> 0, rooted |-> {}, left |-> 0]

Over == {"idle", "end", "killed"}

ShellTypeOK ==
    /\ card \in Card \cup {Blank}
    /\ author \in Write \cup {NoRequest}
    /\ pc \in Over \cup {"open", "card", "execute", "try", "wait", "kill", "reap"}
    /\ req \in Write \cup Reading \cup {NoRequest}
    /\ window \in BOOLEAN
    /\ payload \in Payload \cup {Blank}
    /\ session \in Session
    /\ recycled \in BOOLEAN /\ harmed \in BOOLEAN
    /\ outcome \in {"none", "refused", "failed", "written", "inspected",
                    "exited", "timed out", "interrupted"}
    /\ code \in -1 .. 255

ShellInit ==
    /\ card = Blank /\ author = NoRequest
    /\ pc = "idle" /\ req = NoRequest /\ window = FALSE /\ payload = Blank
    /\ session = NoSession
    /\ recycled = FALSE /\ harmed = FALSE
    /\ outcome = "none" /\ code = -1

-----------------------------------------------------------------------------
PlaceCard(c) ==
    /\ pc = "idle"
    /\ card' = c /\ author' = NoRequest
    /\ UNCHANGED <<command, session, world, result>>

\* label_cli.run: every exception it knows ends with status 1.
Fails(how) == pc' = "end" /\ outcome' = how /\ code' = 1

\* What run() does before it touches the card.  A program has to pass its own
\* checks, to fit, and to verify with its author's key; load_trust refuses an
\* empty directory.
Program(r) == EncodeProgram(r.issuer, r.timeout, r.key)

Prepared(r) ==
    CASE r.action = "write" ->
            /\ IsProgram(Program(r))
            /\ Verifies(Program(r), [i \in Issuer |-> IF i = r.issuer THEN r.key ELSE NoKey])
      [] r.action \in {"verify", "run"} -> \E i \in Issuer : r.trusted[i] # NoKey
      [] OTHER -> TRUE

Invoke(r, fits) ==
    /\ pc = "idle"
    /\ req' = r
    /\ IF Prepared(r) /\ (r.action = "write" => fits)
       THEN pc' = "open" /\ UNCHANGED result
       ELSE Fails("refused")
    /\ UNCHANGED <<card, author, window, payload, session, world>>

\* transport().
OpenTransport ==
    /\ pc = "open"
    /\ window' = TRUE /\ pc' = "card"
    /\ UNCHANGED <<card, author, req, payload, session, world, result>>

TransportRefused ==
    /\ pc = "open"
    /\ Fails("failed")
    /\ UNCHANGED <<card, author, req, window, payload, session, world>>

\* write_program, read_program, and the comparison of the two.
WriteCard ==
    /\ pc = "card" /\ req.action = "write"
    /\ Decodes(Program(req))
    /\ card' = [shell |-> TRUE, payload |-> Program(req)]
    /\ author' = req
    /\ window' = FALSE
    /\ pc' = "end" /\ outcome' = "written" /\ code' = 0
    /\ UNCHANGED <<req, payload, session, world>>

\* Whatever stops a write may leave half of it.
WriteStops ==
    /\ pc = "card" /\ req.action = "write"
    /\ card' \in {card, Blank} /\ author' = IF card' = card THEN author ELSE NoRequest
    /\ window' = FALSE
    /\ Fails("failed")
    /\ UNCHANGED <<req, payload, session, world>>

\* read_program, then out of the window.
Readable == card # Blank /\ card.shell /\ Decodes(card.payload)

ReadCard ==
    /\ pc = "card" /\ req.action # "write" /\ Readable
    /\ payload' = card.payload /\ pc' = "execute"
    /\ window' = FALSE
    /\ UNCHANGED <<card, author, req, session, world, result>>

ReadFails ==
    /\ pc = "card" /\ req.action # "write"
    /\ window' = FALSE
    /\ Fails("refused")
    /\ UNCHANGED <<card, author, req, payload, session, world>>

Inspect ==
    /\ pc = "execute" /\ req.action \in {"inspect", "verify"}
    /\ IF req.action = "verify" => Verifies(payload, req.trusted)
       THEN pc' = "end" /\ outcome' = "inspected" /\ code' = 0
       ELSE Fails("refused")
    /\ UNCHANGED <<card, author, req, window, payload, session, world>>

-----------------------------------------------------------------------------
(* execute_program *)

Sooner(a, b) == IF a < b THEN a ELSE b

\* Mutant: the signature is not asked for again.
MayExecuteDecoded == Decodes(payload) /\ ~req.root /\ req.max \in Timeout

MayExecute == Verifies(payload, req.trusted) /\ ~req.root /\ req.max \in Timeout

ExecuteRefused ==
    /\ pc = "execute" /\ req.action = "run"
    /\ Fails("refused")
    /\ UNCHANGED <<card, author, req, window, payload, session, world>>

\* Popen; start_new_session makes the shell the leader of a group.
Start ==
    /\ pc = "execute" /\ req.action = "run" /\ MayExecute
    /\ session' = [NoSession EXCEPT !.leader = "running",
                                    !.left = Sooner(payload.timeout, req.max)]
    /\ pc' = "try"
    /\ UNCHANGED <<card, author, req, window, payload, world, result>>

EnterTry ==
    /\ pc = "try" /\ pc' = "wait"
    /\ UNCHANGED <<card, author, req, window, payload, session, world, result>>

Reaped(s) == [s EXCEPT !.leader = "reaped", !.rooted = @ \ {"leader"}]

\* wait() finds the shell ended, or finds the time over, or is interrupted.
WaitReturns ==
    /\ pc = "wait" /\ session.leader = "zombie"
    /\ session' = Reaped(session)
    /\ outcome' = "exited" /\ pc' = "kill"
    /\ UNCHANGED <<card, author, req, window, payload, world, code>>

\* Mutant: the shell is killed and waited for before its group.
TimedOutReaping ==
    /\ pc = "wait" /\ session.left = 0
    /\ session' = [Reaped(session) EXCEPT !.status = -9]
    /\ outcome' = "timed out" /\ pc' = "kill"
    /\ UNCHANGED <<card, author, req, window, payload, world, code>>

TimedOut ==
    /\ pc = "wait" /\ session.left = 0
    /\ outcome' = "timed out" /\ pc' = "kill"
    /\ UNCHANGED <<card, author, req, window, payload, session, world, code>>

\* An interrupt finds the wait not over, over, or goes on with it for a moment
\* (Popen.wait): a shell that has ended by then may have been waited for.
Interrupt ==
    /\ pc = "wait"
    /\ session' \in {session} \cup (IF session.leader = "zombie" THEN {Reaped(session)} ELSE {})
    /\ outcome' = "interrupted" /\ pc' = "kill"
    /\ UNCHANGED <<card, author, req, window, payload, world, code>>

\* Those killpg can signal: a zombie that nobody has waited for is one.
Signalled(s) ==
    \/ s.members > 0
    \/ s.leader \in {"running", "zombie"} /\ "leader" \notin s.rooted

Running(s) == s.leader = "running" /\ "leader" \notin s.rooted

\* Mutant: process.kill(), which is the shell alone.
AfterKillLeader(s) ==
    [s EXCEPT !.leader = IF Running(s) THEN "zombie" ELSE @,
              !.status = IF Running(s) THEN -9 ELSE @]

AfterKill(s) ==
    [s EXCEPT !.members = 0,
              !.leader = IF Running(s) THEN "zombie" ELSE @,
              !.status = IF Running(s) THEN -9 ELSE @]

\* Mutant: process.wait() comes before killpg.
KillGroupWaiting ==
    /\ pc = "kill" /\ Signalled(session)
    /\ session.leader # "running"
    /\ session' = AfterKill(session)
    /\ pc' = "reap"
    /\ UNCHANGED <<card, author, req, window, payload, world, result>>

KillGroup ==
    /\ pc = "kill" /\ Signalled(session)
    /\ session' = AfterKill(session)
    /\ pc' = "reap"
    /\ UNCHANGED <<card, author, req, window, payload, world, result>>

\* PermissionError, which nobody catches: there is no second wait().
KillRefused ==
    /\ pc = "kill" /\ ~Signalled(session) /\ session.rooted # {}
    /\ Fails("failed")
    /\ UNCHANGED <<card, author, req, window, payload, session, world>>

\* ProcessLookupError, unless the id has gone to somebody else.
KillFindsNoGroup ==
    /\ pc = "kill" /\ ~Signalled(session) /\ session.rooted = {}
    /\ harmed' = (harmed \/ recycled)
    /\ pc' = "reap"
    /\ UNCHANGED <<card, author, req, window, payload, session, recycled, result>>

\* Mutant: the sign of a status is lost.
StatusUnsigned(status) == IF status \in 0 .. 255 THEN status ELSE 0

\* Mutant: the shell's status is handed on as it is.
StatusRaw(status) == status

\* command_cli.run, line 137: a signal's status is negative.
ExitCode(status) == IF status \in 0 .. 255 THEN status ELSE 1

ReapLeader ==
    /\ pc = "reap" /\ session.leader \in {"zombie", "reaped"}
    /\ session' = Reaped(session)
    /\ pc' = "end"
    /\ code' = IF outcome = "exited" THEN ExitCode(session.status) ELSE 1
    /\ UNCHANGED <<card, author, req, window, payload, world, outcome>>

-----------------------------------------------------------------------------
(* Around the command *)

\* The command itself is killed, or interrupted where no `finally` is reached.
Killed ==
    /\ pc \notin Over
    /\ pc' = "killed" /\ window' = FALSE
    /\ UNCHANGED <<card, author, req, payload, session, world, result>>

Again ==
    /\ pc \in {"end", "killed"}
    /\ pc' = "idle" /\ req' = NoRequest /\ payload' = Blank /\ session' = NoSession
    /\ recycled' = FALSE /\ harmed' = FALSE /\ outcome' = "none" /\ code' = -1
    /\ UNCHANGED <<card, author, window>>

Evolves(s) ==
    /\ pc \notin Over
    /\ session' = s
    /\ UNCHANGED <<card, author, command, world, result>>

LeaderExits(status) ==
    /\ session.leader = "running"
    /\ Evolves([session EXCEPT !.leader = "zombie", !.status = status])

Fork ==
    /\ Running(session) \/ session.members > 0
    /\ session.members < MaxMembers
    /\ Evolves([session EXCEPT !.members = @ + 1])

\* It ends, or leaves the group for a session of its own.
MemberLeaves ==
    /\ session.members > 0
    /\ Evolves([session EXCEPT !.members = @ - 1])

BecomesRoot(who) ==
    /\ IF who = "leader" THEN session.leader = "running" ELSE session.members > 0
    /\ who \notin session.rooted
    /\ Evolves([session EXCEPT !.rooted = @ \cup {who},
                               !.members = IF who = "member" THEN @ - 1 ELSE @])

RootForks ==
    /\ session.leader = "running" /\ session.rooted = {"leader"}
    /\ Evolves([session EXCEPT !.rooted = @ \cup {"member"}])

RootMemberEnds ==
    /\ "member" \in session.rooted
    /\ Evolves([session EXCEPT !.rooted = @ \ {"member"}])

Tick == pc = "wait" /\ session.left > 0 /\ Evolves([session EXCEPT !.left = @ - 1])

\* The id of a group that has nobody left may be given to another.
Recycle ==
    /\ pc = "kill" /\ session.leader = "reaped"
    /\ session.members = 0 /\ session.rooted = {} /\ ~recycled
    /\ recycled' = TRUE
    /\ UNCHANGED <<card, author, command, session, harmed, result>>

-----------------------------------------------------------------------------
Wait == WaitReturns \/ TimedOut

CommandStep ==
    \/ OpenTransport \/ TransportRefused
    \/ WriteCard \/ WriteStops \/ ReadCard \/ ReadFails \/ Inspect
    \/ ExecuteRefused \/ Start \/ EnterTry \/ Wait
    \/ KillGroup \/ KillRefused \/ KillFindsNoGroup \/ ReapLeader

ProgramStep ==
    \/ \E status \in {-9, 0, 3} : LeaderExits(status)
    \/ Fork \/ MemberLeaves \/ RootForks \/ RootMemberEnds
    \/ \E who \in {"leader", "member"} : BecomesRoot(who)

ShellNext ==
    \/ \E c \in Cards : PlaceCard(c)
    \/ \E r \in Write \cup Reading, fits \in BOOLEAN : Invoke(r, fits)
    \/ CommandStep \/ Interrupt \/ Killed \/ Again
    \/ ProgramStep \/ Tick \/ Recycle

\* The command is scheduled and time passes; nothing is asked of the program.
ShellFairness ==
    /\ WF_shellVars(CommandStep)
    /\ WF_shellVars(Tick)

ShellSpec == ShellInit /\ [][ShellNext]_shellVars /\ ShellFairness
-----------------------------------------------------------------------------
(* Safety *)

Spawned == session.leader # "none"

\* The program that runs is what the card said, word for word what a trusted
\* issuer signed; not as root, for no longer than both timeouts, and after the
\* reader has been given back (execute_program, lines 136-152; command_cli.run,
\* lines 132-135).
OnlyTrustedRuns ==
    Spawned =>
        /\ \E i \in Issuer, t \in Timeout :
              /\ req.trusted[i] # NoKey
              /\ payload = EncodeProgram(i, t, req.trusted[i])
              /\ session.left <= t /\ session.left <= req.max
        /\ ~req.root
        /\ ~window

\* "On timeout or completion, remaining children in the process group are
\* killed and the shell is reaped" (docs/shell-cards.md:125): all but what has
\* become root's.
NothingOutlives ==
    pc = "end" /\ Spawned =>
        /\ session.members = 0
        /\ session.leader = "reaped" \/ "leader" \in session.rooted

\* Status 0 means that it was done: the card holds the program, the program
\* inspected with a trust directory verifies, the program run ended by itself,
\* with 0 (command_cli.run; label_cli.run, lines 94-96).
ZeroMeansDone ==
    pc = "end" /\ code = 0 =>
        CASE req.action = "write"  -> author = req
          [] req.action = "verify" -> Verifies(payload, req.trusted)
          [] req.action = "run"    -> outcome = "exited" /\ session.status = 0
          [] OTHER -> outcome = "inspected"

\* Line 159 kills the group of a shell that may have been waited for already,
\* and may meet a stranger under that id.  It can when the program ended by
\* itself, or just as the command was interrupted; never when its time is over:
\* the shell, dead or alive, then keeps the id until line 162.
StrangersSpared == harmed => outcome \in {"exited", "interrupted"}

\* A card written by one command runs for those who trust its author with the
\* key that signed it, and for nobody else (encode_program, verify_program).
WrittenCardsVerify ==
    author # NoRequest =>
        /\ card # Blank /\ card.shell
        /\ \A trusted \in Trust :
              Verifies(card.payload, trusted) <=> trusted[author.issuer] = author.key

\* Both ways of carrying a managed command bring back the command, and what its
\* signature is worth; the payload itself comes back when it held no null, and
\* no shell reader takes it for a program (codec.py; docs/shell-cards.md:19).
CommandsRoundTrip ==
    card # Blank /\ DecodesCommand(card.payload) =>
        LET p == card.payload
            c == CommandOf(p)
        IN  /\ DecodesCommand(EncodeCommand(c)) /\ CommandOf(EncodeCommand(c)) = c
            /\ ReadsJson(ToJson(c)) /\ FromJson(ToJson(c)) = c
            /\ \A key \in Key : VerifiesCommand(EncodeCommand(c), key) <=> VerifiesCommand(p, key)
            /\ "null" \notin {p.label, p.issuer} => EncodeCommand(c) = p
            /\ ~Decodes(p)

(* Liveness *)

\* Once it waits, the command comes to an end, whatever the program does, as
\* long as the shell has not become root's (then line 162 waits for it).
CommandReturns == (pc = "wait") ~> (pc \in Over \/ "leader" \in session.rooted)
=============================================================================
