---------------------------- MODULE CardStorage ----------------------------
(***************************************************************************)
(* `gway-rfid command write`, `inspect` and `run` on one card or image.    *)
(*                                                                         *)
(* On a card the exclusive window (module ExclusiveWindow) keeps all but   *)
(* one of them out.  Images are not locked: commands interleave, but each  *)
(* reads through its file object's buffer, which the first read after      *)
(* opening or flushing fills with the whole file.                          *)
(***************************************************************************)
EXTENDS CardMemory

CONSTANT Cli  \* the commands, one shot each

ASSUME CliAssumption == NoProgram \notin Cli

VARIABLES
    header,    \* block 1
    data,      \* the payload blocks
    file,      \* image: "absent", or how long it is; a card is "full"
    field,     \* card: "away", "lying" there, or "selected"; "selected" for an image
    pc,        \* where a command is
    job,       \* what it is to write; NoProgram if it reads
    overwrite, \* was it given --overwrite?
    next,      \* the block it is at
    report,    \* the program it reported written, or accepted
    original,  \* auxiliary: the payload that was there first
    writer     \* auxiliary: the command that last wrote a block

memory == <<header, data, file>>
vars == <<header, data, file, field, pc, job, overwrite, next, report, original, writer>>

Pc == {"idle", "open", "format", "erase", "erased", "body", "check", "commit",
       "committed", "read", "end"}

\* Nothing, 0, 1024 and any other number of bytes.
File == {"absent", "empty", "full", "odd"}

TypeOK ==
    /\ header \in Header
    /\ data \in [1..NumBlocks -> Cell]
    /\ file \in File
    /\ field \in {"away", "lying", "selected"}
    /\ pc \in [Cli -> Pc]
    /\ job \in [Cli -> Program \cup {NoProgram}]
    /\ overwrite \in [Cli -> BOOLEAN]
    /\ next \in [Cli -> 1..NumBlocks]
    /\ report \in [Cli -> Program \cup {NoProgram}]
    /\ original \in Program \cup {NoProgram}
    /\ writer \in Cli \cup {NoProgram}

\* A blank card, one with what an earlier command or a library call left, or
\* an image file that does not exist yet.
Init ==
    /\ data \in [1..NumBlocks -> Cell]
    /\ \/ header = InvalidHeader /\ original = NoProgram
       \/ \E p \in Program, flags \in {0, SHELL_FLAG} :
             /\ Prefix(data, Len(p)) = p
             /\ header = [HeaderOf(p) EXCEPT !.flags = flags]
             /\ original = p
    /\ file \in (IF Medium = "image" THEN File ELSE {"full"})
    /\ file # "full" => header = InvalidHeader /\ data = [i \in 1..NumBlocks |-> Blank]
    /\ field = (IF Medium = "image" THEN "selected" ELSE "lying")
    /\ pc = [p \in Cli |-> "idle"]
    /\ job = [p \in Cli |-> NoProgram]
    /\ overwrite = [p \in Cli |-> FALSE]
    /\ next = [p \in Cli |-> 1]
    /\ report = [p \in Cli |-> NoProgram]
    /\ writer = NoProgram

Stored == ReadProgram(header, data)

-----------------------------------------------------------------------------

Goto(p, label) == pc' = [pc EXCEPT ![p] = label]

Active(p) == pc[p] \notin {"idle", "end"}

\* The arguments are checked, and the program signed, before anything is opened.
Start(p, program, over) ==
    /\ pc[p] = "idle"
    /\ Medium = "card" => \A q \in Cli : ~Active(q)
    /\ Medium = "card" /\ program # NoProgram => over
    /\ program = NoProgram => ~over
    /\ job' = [job EXCEPT ![p] = program]
    /\ overwrite' = [overwrite EXCEPT ![p] = over]
    /\ Goto(p, "open")
    /\ UNCHANGED <<memory, field, next, report, original, writer>>

\* The single scan() of transport(); "no card present" otherwise.
SelectCard(p) ==
    /\ pc[p] = "open"
    /\ Medium = "card"
    /\ IF field = "away" THEN Goto(p, "end") /\ UNCHANGED field
       ELSE /\ field' = "selected"
            /\ Goto(p, IF job[p] = NoProgram THEN "read" ELSE "erase")
    /\ UNCHANGED <<memory, job, overwrite, next, report, original, writer>>

\* CardImage.__init__ up to the fstat: O_CREAT, O_EXCL without --overwrite.
Refused(p) ==
    IF job[p] = NoProgram THEN file # "full"
    ELSE file = "odd" \/ (file # "absent" /\ ~overwrite[p])

OpenImage(p) ==
    /\ pc[p] = "open"
    /\ Medium = "image"
    /\ IF Refused(p) THEN Goto(p, "end") /\ UNCHANGED file
       ELSE /\ file' = IF file = "absent" THEN "empty" ELSE file
            /\ Goto(p, IF job[p] = NoProgram THEN "read"
                       ELSE IF file = "full" THEN "erase" ELSE "format")
    /\ UNCHANGED <<header, data, field, job, overwrite, next, report, original, writer>>

\* A file that was empty at the fstat is filled with zeros, whatever another
\* command has put there since.  A disk that runs full leaves an odd size.
Format(p) ==
    /\ pc[p] = "format"
    /\ \/ /\ header' = InvalidHeader
          /\ data' = [i \in 1..NumBlocks |-> Blank]
          /\ file' = "full"
          /\ Goto(p, "erase")
       \/ /\ "raises" \in Fault
          /\ file' \in {file, IF file = "empty" THEN "odd" ELSE file}
          /\ Goto(p, "end")
          /\ UNCHANGED <<header, data>>
    /\ writer' = p
    /\ UNCHANGED <<field, job, overwrite, next, report, original>>

-----------------------------------------------------------------------------

\* Authentication fails without a selected card; then nothing is written.
WriteHeader(p, new, onward) ==
    \E out \in IF field = "selected"
               THEN WriteOutcome(header, new, TornHeaders(header, new))
               ELSE {[now |-> header, ok |-> FALSE]} :
        /\ header' = out.now
        /\ Goto(p, IF out.ok THEN onward ELSE "end")
        /\ writer' = p
        /\ UNCHANGED <<data, file, field, job, overwrite, next, report, original>>

\* Both readbacks of a block, the one of MFRC522Reader.write_block and the one
\* of write_payload; any doubt ends the command.
Verify(p, good, onward) ==
    \/ /\ field = "selected"
       /\ good
       /\ Goto(p, onward)
    \/ /\ field # "selected" \/ ~good \/ "unread" \in Fault
       /\ Goto(p, "end")

\* Mutant: the header is left alone until the new one is written.
EraseSkipped(p) ==
    /\ pc[p] = "erase"
    /\ Goto(p, "body")
    /\ UNCHANGED <<memory, field, job, overwrite, next, report, original, writer>>

Erase(p) == pc[p] = "erase" /\ WriteHeader(p, InvalidHeader, "erased")

CheckErased(p) ==
    /\ pc[p] = "erased"
    /\ Verify(p, header = InvalidHeader, "body")
    /\ UNCHANGED <<memory, field, job, overwrite, next, report, original, writer>>

WriteBlock(p) ==
    /\ pc[p] = "body"
    /\ \E out \in IF field = "selected"
                  THEN WriteOutcome(data[next[p]], job[p][next[p]], {Torn})
                  ELSE {[now |-> data[next[p]], ok |-> FALSE]} :
          /\ data' = [data EXCEPT ![next[p]] = out.now]
          /\ Goto(p, IF out.ok THEN "check" ELSE "end")
    /\ writer' = p
    /\ UNCHANGED <<header, file, field, job, overwrite, next, report, original>>

\* Mutant: the index moves on after the last block, too.
CheckBlockPast(p) ==
    /\ pc[p] = "check"
    /\ next' = [next EXCEPT ![p] = @ + 1]
    /\ Verify(p, data[next[p]] = job[p][next[p]],
              IF next[p] < Len(job[p]) THEN "body" ELSE "commit")
    /\ UNCHANGED <<memory, field, job, overwrite, report, original, writer>>

CheckBlock(p) ==
    /\ pc[p] = "check"
    /\ LET good == data[next[p]] = job[p][next[p]] IN
          IF next[p] < Len(job[p])
          THEN /\ Verify(p, good, "body")
               /\ next' = [next EXCEPT ![p] = @ + 1]
          ELSE /\ Verify(p, good, "commit")
               /\ UNCHANGED next
    /\ UNCHANGED <<memory, field, job, overwrite, report, original, writer>>

Commit(p) == pc[p] = "commit" /\ WriteHeader(p, HeaderOf(job[p]), "committed")

\* Mutant: no verification of the header, no read_program after the write.
FinishUnverified(p) ==
    /\ pc[p] = "committed"
    /\ report' = [report EXCEPT ![p] = job[p]]
    /\ Goto(p, "end")
    /\ UNCHANGED <<memory, field, job, overwrite, next, original, writer>>

\* The header is read back, then the whole program: an image's comes out of
\* the buffer that the header's readback filled.
Finish(p) ==
    /\ pc[p] = "committed"
    /\ \/ /\ field = "selected"
          /\ header = HeaderOf(job[p])
          /\ Stored = job[p]
          /\ report' = [report EXCEPT ![p] = job[p]]
       \/ /\ field # "selected" \/ header # HeaderOf(job[p]) \/ Stored # job[p]
             \/ "unread" \in Fault
          /\ UNCHANGED report
    /\ Goto(p, "end")
    /\ UNCHANGED <<memory, field, job, overwrite, next, original, writer>>

\* inspect and run.  Nothing changes a card while it is read, and an image is
\* read at once into the buffer.
Read(p) ==
    /\ pc[p] = "read"
    /\ \/ field = "selected" /\ report' = [report EXCEPT ![p] = Stored]
       \/ (field # "selected" \/ "unread" \in Fault) /\ UNCHANGED report
    /\ Goto(p, "end")
    /\ UNCHANGED <<memory, field, job, overwrite, next, original, writer>>

-----------------------------------------------------------------------------

Crash(p) ==
    /\ "crash" \in Fault
    /\ Active(p)
    /\ Goto(p, "end")
    /\ UNCHANGED <<memory, field, job, overwrite, next, report, original, writer>>

\* A card that comes back is not selected any more.
MoveCard ==
    /\ "removed" \in Fault
    /\ field' = IF field = "away" THEN "lying" ELSE "away"
    /\ UNCHANGED <<memory, pc, job, overwrite, next, report, original, writer>>

Command(p) ==
    \/ \E program \in Program \cup {NoProgram}, over \in BOOLEAN : Start(p, program, over)
    \/ SelectCard(p) \/ OpenImage(p) \/ Format(p)
    \/ Erase(p) \/ CheckErased(p)
    \/ WriteBlock(p) \/ CheckBlock(p)
    \/ Commit(p) \/ Finish(p)
    \/ Read(p)
    \/ Crash(p)

Next == (\E p \in Cli : Command(p)) \/ MoveCard

Spec == Init /\ [][Next]_vars
-----------------------------------------------------------------------------

\* Nobody ever takes anything for a program but what a command was asked to
\* write or what was there first: no torn block, no half of one program and
\* half of another, wherever commands stopped or overlapped.
Asked == {original, NoProgram} \cup {job[q] : q \in Cli}

AcceptedWasWritten ==
    /\ Stored \in Asked
    /\ \A p \in Cli : report[p] \in Asked

\* {"written": true} is the truth: as long as nobody else writes, the program
\* is there.
WrittenIsStored ==
    \A p \in Cli : report[p] # NoProgram /\ writer = p => Stored = job[p]

\* Writing is transactional: readers of the card see ProgramStore.
Store == INSTANCE ProgramStore WITH stored <- Stored, asked <- Asked
CardIsAStore == Store!Spec
=============================================================================
