------------------------- MODULE CardStorageProofs -------------------------
(***************************************************************************)
(* Proofs about CardStorage for every number of blocks, set of programs,   *)
(* set of commands and choice of faults.                                   *)
(***************************************************************************)
EXTENDS CardStorage, SequenceTheorems, TLAPS

-----------------------------------------------------------------------------
(* Helpers *)

\* A program is a nonempty sequence of chunks that fits.
LEMMA ProgramShape ==
    ASSUME NEW p \in Program
    PROVE  /\ p \in Seq(Chunk)
           /\ Len(p) \in 1..NumBlocks
           /\ p \in [1..Len(p) -> Chunk]
           /\ p \in Contents
<1>1. PICK n \in 1..NumBlocks : p \in [1..n -> Chunk]
  BY MemoryAssumption
<1>2. n \in Nat /\ NumBlocks \in Nat
  BY MemoryAssumption
<1>3. p \in Seq(Chunk)
  BY <1>1, <1>2
<1>4. Len(p) = n
  BY <1>1, <1>2, <1>3, LenProperties
<1>5. p \in [1..n -> Cell]
  BY <1>1 DEF Cell
<1>6. n \in 0..NumBlocks
  BY <1>2
<1> QED BY <1>1, <1>3, <1>4, <1>5, <1>6 DEF Contents

LEMMA PrefixShape ==
    ASSUME NEW d \in [1..NumBlocks -> Cell], NEW n \in 0..NumBlocks
    PROVE  Prefix(d, n) \in Contents
<1>1. NumBlocks \in Nat
  BY MemoryAssumption
<1>2. \A i \in 1..n : i \in 1..NumBlocks
  BY <1>1
<1>3. Prefix(d, n) \in [1..n -> Cell]
  BY <1>2 DEF Prefix
<1> QED BY <1>3 DEF Contents

LEMMA HeaderShapes ==
    /\ InvalidHeader \in Header
    /\ \A p \in Program, f \in {0, SHELL_FLAG} :
          HeaderOf(p) \in Header /\ [HeaderOf(p) EXCEPT !.flags = f] \in Header
<1>1. 0 \in 0..NumBlocks
  BY MemoryAssumption
<1>2. InvalidHeader \in Header
  BY <1>1 DEF InvalidHeader, Header
<1>3. ASSUME NEW p \in Program, NEW f \in {0, SHELL_FLAG}
      PROVE  HeaderOf(p) \in Header /\ [HeaderOf(p) EXCEPT !.flags = f] \in Header
  <2>1. Len(p) \in 0..NumBlocks /\ p \in Contents
    BY ProgramShape, MemoryAssumption
  <2> QED BY <2>1 DEF HeaderOf, Header
<1> QED BY <1>2, <1>3

\* The four ways a write can end.
LEMMA WriteCases ==
    ASSUME NEW old, NEW new, NEW torn, NEW out \in WriteOutcome(old, new, torn)
    PROVE  \/ out.now \in {old, new} /\ out.ok \in BOOLEAN
           \/ "torn" \in Fault /\ out.now \in torn /\ out.ok \in BOOLEAN
<1> DEFINE Raised == [now : {old, new}, ok : {FALSE}]
           Cut == [now : torn, ok : BOOLEAN]
<1>1. \/ out = [now |-> new, ok |-> TRUE]
      \/ out = [now |-> old, ok |-> TRUE]
      \/ out \in Raised
      \/ "torn" \in Fault /\ out \in Cut
  <2> HIDE DEF Raised, Cut
  <2> QED BY Zenon DEF WriteOutcome, Raised, Cut
<1>2. CASE out = [now |-> new, ok |-> TRUE]
  BY <1>2
<1>3. CASE out = [now |-> old, ok |-> TRUE]
  BY <1>3
<1>4. CASE out \in Raised
  BY <1>4
<1>5. CASE "torn" \in Fault /\ out \in Cut
  BY <1>5
<1> QED BY <1>1, <1>2, <1>3, <1>4, <1>5

\* What a write leaves in a header block is a header; its content id is the
\* old one, the new one or nobody's.
LEMMA HeaderWrite ==
    ASSUME NEW old \in Header, NEW new \in Header,
           NEW out \in WriteOutcome(old, new, TornHeaders(old, new))
    PROVE  /\ out.now \in Header
           /\ out.ok \in BOOLEAN
           /\ out.now.cid \in {old.cid, new.cid, NoId}
           /\ "torn" \notin Fault => out.now \in {old, new}
<1>1. ASSUME NEW h \in TornHeaders(old, new)
      PROVE  h \in Header /\ h.cid \in {old.cid, new.cid, NoId}
  <2>1. old.length \in 0..NumBlocks /\ new.length \in 0..NumBlocks
    BY DEF Header
  <2>2. h.length \in 0..NumBlocks
    BY <2>1, MemoryAssumption DEF TornHeaders
  <2> QED BY <2>2 DEF TornHeaders, Header
<1> QED BY <1>1, WriteCases

LEMMA BlockWrite ==
    ASSUME NEW old \in Cell, NEW new \in Chunk,
           NEW out \in WriteOutcome(old, new, {Torn})
    PROVE  out.now \in Cell /\ out.ok \in BOOLEAN
BY WriteCases DEF Cell

\* ReadProgram finds a program or nothing.
LEMMA ReadProgramShape == ReadProgram(header, data) \in Program \cup {NoProgram}
BY DEF ReadProgram, Readable
-----------------------------------------------------------------------------
(* Type correctness, and what the program counters say *)

Writing == {"format", "erase", "erased", "body", "check", "commit", "committed"}

\* A command that writes has a program to write and is at a block of it; what
\* is reported is reported at the end; only writers write.
Order ==
    \A p \in Cli :
        /\ pc[p] = "idle" => job[p] = NoProgram
        /\ pc[p] \in {"idle", "open", "format", "erase", "erased"} => next[p] = 1
        /\ pc[p] \in Writing => job[p] \in Program /\ next[p] <= Len(job[p])
        /\ pc[p] = "read" => job[p] = NoProgram
        /\ report[p] # NoProgram => pc[p] = "end"
        /\ writer = p => job[p] \in Program

WorkInv == TypeOK /\ Order

LEMMA WorkInit == Init => WorkInv
<1> SUFFICES ASSUME Init PROVE WorkInv
  OBVIOUS
<1>1. header \in Header /\ original \in Program \cup {NoProgram}
  BY HeaderShapes DEF Init
<1>2. 1 \in 1..NumBlocks
  BY MemoryAssumption
<1>3. TypeOK
  BY <1>1, <1>2 DEF Init, TypeOK, Pc, File
<1>4. Order
  BY CliAssumption DEF Init, Order, Writing
<1> QED BY <1>3, <1>4 DEF WorkInv

LEMMA VerifyGoes ==
    ASSUME NEW p, NEW good, NEW onward, Verify(p, good, onward)
    PROVE  \/ good /\ Goto(p, onward)
           \/ Goto(p, "end")
BY DEF Verify

LEMMA GotoType ==
    ASSUME NEW p \in Cli, NEW label \in Pc, TypeOK, Goto(p, label)
    PROVE  pc' \in [Cli -> Pc] /\ pc'[p] = label /\ \A q \in Cli \ {p} : pc'[q] = pc[q]
BY DEF Goto, TypeOK

\* What WriteHeader leaves.
LEMMA WriteHeaderLeaves ==
    ASSUME TypeOK, NEW p \in Cli, NEW new \in Header, NEW onward \in Pc,
           WriteHeader(p, new, onward)
    PROVE  /\ header' \in Header
           /\ header'.cid \in {header.cid, new.cid, NoId}
           /\ "torn" \notin Fault => header' \in {header, new}
           /\ Goto(p, onward) \/ Goto(p, "end")
           /\ writer' = p
           /\ UNCHANGED <<data, file, field, job, overwrite, next, report, original>>
<1>1. header \in Header
  BY DEF TypeOK
<1>2. CASE field = "selected"
  <2>1. PICK out \in WriteOutcome(header, new, TornHeaders(header, new)) :
           /\ header' = out.now
           /\ Goto(p, IF out.ok THEN onward ELSE "end")
           /\ writer' = p
           /\ UNCHANGED <<data, file, field, job, overwrite, next, report, original>>
    BY <1>2 DEF WriteHeader
  <2>2. Goto(p, onward) \/ Goto(p, "end")
    BY <2>1, <1>1, HeaderWrite
  <2> QED BY <1>1, <2>1, <2>2, HeaderWrite
<1>3. CASE field # "selected"
  BY <1>1, <1>3 DEF WriteHeader
<1> QED BY <1>2, <1>3

LEMMA WriteHeaderWork ==
    ASSUME WorkInv, NEW p \in Cli, NEW new \in Header, NEW onward \in {"erased", "committed"},
           pc[p] \in Writing, onward = "erased" => pc[p] = "erase",
           WriteHeader(p, new, onward)
    PROVE  WorkInv'
<1>0. TypeOK /\ Order
  BY DEF WorkInv
<1>1. onward \in Pc
  BY DEF Pc
<1>2. /\ header' \in Header
      /\ Goto(p, onward) \/ Goto(p, "end")
      /\ writer' = p
      /\ UNCHANGED <<data, file, field, job, overwrite, next, report, original>>
  BY <1>0, <1>1, WriteHeaderLeaves
<1>3. /\ pc' \in [Cli -> Pc]
      /\ pc'[p] \in {onward, "end"}
      /\ \A q \in Cli \ {p} : pc'[q] = pc[q]
  BY <1>0, <1>1, <1>2, GotoType DEF Pc
<1>4. TypeOK'
  BY <1>0, <1>2, <1>3 DEF TypeOK
<1>5. Order'
  BY <1>0, <1>2, <1>3 DEF Order, Writing
<1> QED BY <1>4, <1>5 DEF WorkInv

\* A command is at a chunk of its program, and at a block of the card.
LEMMA BlockAtHand ==
    ASSUME WorkInv, NEW p \in Cli, pc[p] \in Writing
    PROVE  /\ job[p] \in Program
           /\ next[p] \in 1..Len(job[p])
           /\ job[p][next[p]] \in Chunk
           /\ Len(job[p]) \in 1..NumBlocks
           /\ data[next[p]] \in Cell
           /\ HeaderOf(job[p]) \in Header
<1>1. job[p] \in Program /\ next[p] <= Len(job[p]) /\ next[p] \in 1..NumBlocks
  BY DEF WorkInv, Order, TypeOK
<1>2. Len(job[p]) \in 1..NumBlocks /\ job[p] \in [1..Len(job[p]) -> Chunk]
  BY <1>1, ProgramShape
<1>3. next[p] \in 1..Len(job[p])
  BY <1>1, <1>2, MemoryAssumption
<1>4. HeaderOf(job[p]) \in Header
  <2>1. \A f \in {0, SHELL_FLAG} : HeaderOf(job[p]) \in Header
    BY <1>1, HeaderShapes
  <2> QED BY <2>1
<1> QED BY <1>1, <1>2, <1>3, <1>4 DEF WorkInv, TypeOK

\* What WriteBlock leaves.
LEMMA WriteBlockLeaves ==
    ASSUME WorkInv, NEW p \in Cli, WriteBlock(p)
    PROVE  /\ data' \in [1..NumBlocks -> Cell]
           /\ Goto(p, "check") \/ Goto(p, "end")
<1>1. /\ job[p][next[p]] \in Chunk
      /\ data[next[p]] \in Cell
  BY BlockAtHand DEF WriteBlock, Writing
<1>2. PICK out : /\ out.now \in Cell
                 /\ out.ok \in BOOLEAN
                 /\ data' = [data EXCEPT ![next[p]] = out.now]
                 /\ Goto(p, IF out.ok THEN "check" ELSE "end")
  <2>1. CASE field = "selected"
    <3>1. PICK out \in WriteOutcome(data[next[p]], job[p][next[p]], {Torn}) :
             /\ data' = [data EXCEPT ![next[p]] = out.now]
             /\ Goto(p, IF out.ok THEN "check" ELSE "end")
      BY <2>1 DEF WriteBlock
    <3> QED BY <1>1, <3>1, BlockWrite
  <2>2. CASE field # "selected"
    <3>1. PICK out \in {[now |-> data[next[p]], ok |-> FALSE]} :
             /\ data' = [data EXCEPT ![next[p]] = out.now]
             /\ Goto(p, IF out.ok THEN "check" ELSE "end")
      BY <2>2 DEF WriteBlock
    <3> QED BY <1>1, <3>1
  <2> QED BY <2>1, <2>2
<1>3. data \in [1..NumBlocks -> Cell]
  BY DEF WorkInv, TypeOK
<1> QED BY <1>2, <1>3

LEMMA WorkStep == WorkInv /\ [Next]_vars => WorkInv'
<1> SUFFICES ASSUME WorkInv, [Next]_vars PROVE WorkInv'
  OBVIOUS
<1>0. TypeOK /\ Order
  BY DEF WorkInv
<1> USE DEF Writing, Pc
<1>1. ASSUME NEW p \in Cli, NEW program \in Program \cup {NoProgram}, NEW over \in BOOLEAN,
             Start(p, program, over)
      PROVE  WorkInv'
  <2>1. TypeOK'
    BY <1>0, <1>1, GotoType DEF Start, TypeOK, memory
  <2>2. Order'
    BY <1>0, <1>1, GotoType DEF Start, Order, TypeOK, memory
  <2> QED BY <2>1, <2>2 DEF WorkInv
<1>2. ASSUME NEW p \in Cli, SelectCard(p) PROVE WorkInv'
  <2>1. CASE field = "away"
    BY <1>0, <1>2, <2>1, GotoType DEF SelectCard, WorkInv, TypeOK, Order, memory
  <2>2. CASE field # "away" /\ job[p] = NoProgram
    BY <1>0, <1>2, <2>2, GotoType DEF SelectCard, WorkInv, TypeOK, Order, memory
  <2>3. CASE field # "away" /\ job[p] # NoProgram
    <3>1. Len(job[p]) \in 1..NumBlocks /\ job[p] \in Program
      BY <1>0, <2>3, ProgramShape DEF TypeOK
    <3>2. /\ pc[p] = "open" /\ Goto(p, "erase") /\ field' = "selected"
          /\ UNCHANGED <<memory, job, overwrite, next, report, original, writer>>
      BY <1>2, <2>3 DEF SelectCard
    <3>3. next[p] = 1 /\ 1 <= Len(job[p])
      BY <1>0, <3>1, <3>2 DEF Order
    <3>4. TypeOK'
      BY <1>0, <3>2, GotoType DEF TypeOK, memory
    <3>5. Order'
      BY <1>0, <3>1, <3>2, <3>3, GotoType DEF Order, memory
    <3> QED BY <3>4, <3>5 DEF WorkInv
  <2> QED BY <2>1, <2>2, <2>3
<1>3. ASSUME NEW p \in Cli, OpenImage(p) PROVE WorkInv'
  <2>1. CASE Refused(p) \/ job[p] = NoProgram
    <3>1. /\ pc[p] = "open" /\ file' \in File
          /\ Goto(p, "end") \/ (Goto(p, "read") /\ job[p] = NoProgram)
          /\ UNCHANGED <<header, data, field, job, overwrite, next, report, original, writer>>
      BY <1>0, <1>3, <2>1 DEF OpenImage, TypeOK, File
    <3>2. TypeOK'
      BY <1>0, <3>1, GotoType DEF TypeOK
    <3>3. Order'
      BY <1>0, <3>1, GotoType DEF Order
    <3> QED BY <3>2, <3>3 DEF WorkInv
  <2>2. CASE ~Refused(p) /\ job[p] # NoProgram
    <3>1. Len(job[p]) \in 1..NumBlocks /\ job[p] \in Program
      BY <1>0, <2>2, ProgramShape DEF TypeOK
    <3>2. Goto(p, "erase") \/ Goto(p, "format")
      BY <1>3, <2>2 DEF OpenImage
    <3>3. /\ pc[p] = "open" /\ file' \in File
          /\ UNCHANGED <<header, data, field, job, overwrite, next, report, original, writer>>
      BY <1>0, <1>3, <2>2 DEF OpenImage, TypeOK, File
    <3>4. next[p] = 1 /\ 1 <= Len(job[p])
      BY <1>0, <3>1, <3>3 DEF Order
    <3>5. TypeOK'
      BY <1>0, <3>2, <3>3, GotoType DEF TypeOK
    <3>6. Order'
      BY <1>0, <3>1, <3>2, <3>3, <3>4, GotoType DEF Order
    <3> QED BY <3>5, <3>6 DEF WorkInv
  <2> QED BY <2>1, <2>2
<1>4. ASSUME NEW p \in Cli, Format(p) PROVE WorkInv'
  <2>1. data' \in [1..NumBlocks -> Cell]
    BY <1>0, <1>4 DEF Format, Cell, TypeOK
  <2>2. header' \in Header /\ file' \in File
    BY <1>0, <1>4, HeaderShapes DEF Format, TypeOK, File
  <2>3. /\ pc[p] = "format" /\ writer' = p
        /\ Goto(p, "erase") \/ Goto(p, "end")
        /\ UNCHANGED <<field, job, overwrite, next, report, original>>
    BY <1>4 DEF Format
  <2>4. TypeOK'
    BY <1>0, <2>1, <2>2, <2>3, GotoType DEF TypeOK
  <2>5. Order'
    BY <1>0, <2>3, GotoType DEF Order
  <2> QED BY <2>4, <2>5 DEF WorkInv
<1>5. ASSUME NEW p \in Cli, Erase(p) PROVE WorkInv'
  BY <1>5, WriteHeaderWork, HeaderShapes DEF Erase
<1>6. ASSUME NEW p \in Cli, CheckErased(p) PROVE WorkInv'
  <2>1. Goto(p, "body") \/ Goto(p, "end")
    BY <1>6, VerifyGoes DEF CheckErased
  <2> QED BY <1>0, <1>6, <2>1, GotoType DEF CheckErased, WorkInv, TypeOK, Order, memory
<1>7. ASSUME NEW p \in Cli, WriteBlock(p) PROVE WorkInv'
  <2>1. /\ data' \in [1..NumBlocks -> Cell]
        /\ Goto(p, "check") \/ Goto(p, "end")
    BY <1>7, WriteBlockLeaves
  <2>2. pc[p] = "body" /\ writer' = p
        /\ UNCHANGED <<header, file, field, job, overwrite, next, report, original>>
    BY <1>7 DEF WriteBlock
  <2> QED BY <1>0, <2>1, <2>2, GotoType DEF WorkInv, TypeOK, Order
<1>8. ASSUME NEW p \in Cli, CheckBlock(p) PROVE WorkInv'
  <2>1. pc[p] = "check" /\ UNCHANGED <<memory, field, job, overwrite, report, original, writer>>
    BY <1>8 DEF CheckBlock
  <2>2. Len(job[p]) \in 1..NumBlocks /\ next[p] \in 1..Len(job[p]) /\ job[p] \in Program
    BY <2>1, BlockAtHand
  <2>3. CASE next[p] < Len(job[p])
    <3>1. Goto(p, "body") \/ Goto(p, "end")
      BY <1>8, <2>3, VerifyGoes DEF CheckBlock
    <3>2. next' = [next EXCEPT ![p] = next[p] + 1]
      BY <1>8, <2>3 DEF CheckBlock
    <3>3. next[p] + 1 \in 1..NumBlocks /\ next[p] + 1 <= Len(job[p])
      BY <2>2, <2>3, MemoryAssumption
    <3> QED BY <1>0, <2>1, <2>2, <3>1, <3>2, <3>3, GotoType DEF WorkInv, TypeOK, Order, memory
  <2>4. CASE ~(next[p] < Len(job[p]))
    <3>1. Goto(p, "commit") \/ Goto(p, "end")
      BY <1>8, <2>4, VerifyGoes DEF CheckBlock
    <3>2. UNCHANGED next
      BY <1>8, <2>4 DEF CheckBlock
    <3> QED BY <1>0, <2>1, <2>2, <3>1, <3>2, GotoType DEF WorkInv, TypeOK, Order, memory
  <2> QED BY <2>3, <2>4
<1>9. ASSUME NEW p \in Cli, Commit(p) PROVE WorkInv'
  <2>1. HeaderOf(job[p]) \in Header
    BY <1>9, BlockAtHand DEF Commit
  <2> QED BY <1>9, <2>1, WriteHeaderWork DEF Commit
<1>10. ASSUME NEW p \in Cli, Finish(p) \/ Read(p) PROVE WorkInv'
  <2>1. \/ UNCHANGED report
        \/ report' = [report EXCEPT ![p] = job[p]]
        \/ report' = [report EXCEPT ![p] = Stored]
    BY <1>10 DEF Finish, Read
  <2>2. Stored \in Program \cup {NoProgram}
    BY ReadProgramShape DEF Stored
  <2>3. /\ Goto(p, "end")
        /\ UNCHANGED <<memory, field, job, overwrite, next, original, writer>>
    BY <1>10 DEF Finish, Read
  <2>4. /\ report' \in [Cli -> Program \cup {NoProgram}]
        /\ \A q \in Cli \ {p} : report'[q] = report[q]
    BY <1>0, <2>1, <2>2 DEF TypeOK
  <2>5. TypeOK'
    BY <1>0, <2>3, <2>4, GotoType DEF TypeOK, memory
  <2>6. Order'
    BY <1>0, <2>3, <2>4, GotoType DEF Order, memory
  <2> QED BY <2>5, <2>6 DEF WorkInv
<1>11. ASSUME NEW p \in Cli, Crash(p) PROVE WorkInv'
  BY <1>0, <1>11, GotoType DEF Crash, WorkInv, TypeOK, Order, memory
<1>12. CASE MoveCard
  BY <1>0, <1>12 DEF MoveCard, WorkInv, TypeOK, Order, memory
<1>13. CASE UNCHANGED vars
  BY <1>0, <1>13 DEF vars, WorkInv, TypeOK, Order
<1> QED
  BY <1>1, <1>2, <1>3, <1>4, <1>5, <1>6, <1>7, <1>8, <1>9, <1>10, <1>11, <1>12, <1>13
  DEF Next, Command

LEMMA WorkAlways == Spec => []WorkInv
BY WorkInit, WorkStep, PTL DEF Spec

\* Every variable keeps its type, whatever goes wrong.
THEOREM StorageTyped == Spec => []TypeOK
<1>1. WorkInv => TypeOK
  BY DEF WorkInv
<1> QED BY <1>1, WorkAlways, PTL

-----------------------------------------------------------------------------
(* What a report of success is worth *)

\* The steps that write blocks.
Writes(p) == Format(p) \/ Erase(p) \/ WriteBlock(p) \/ Commit(p)

LEMMA WritesLeave ==
    ASSUME WorkInv, NEW p \in Cli, Writes(p)
    PROVE  /\ pc[p] \in Writing
           /\ writer' = p
           /\ report[p] = NoProgram
           /\ UNCHANGED <<job, report, original>>
<1>1. pc[p] \in Writing
  BY DEF Writes, Format, Erase, WriteBlock, Commit, Writing
<1>2. writer' = p /\ UNCHANGED <<job, report, original>>
  BY DEF Writes, Format, Erase, WriteBlock, Commit, WriteHeader
<1>3. report[p] = NoProgram
  BY <1>1 DEF WorkInv, Order, Writing
<1> QED BY <1>1, <1>2, <1>3

\* All others leave the memory alone.
LEMMA OtherSteps ==
    ASSUME [Next]_vars, \A p \in Cli : ~Writes(p)
    PROVE  UNCHANGED <<header, data, writer, original>>
<1> USE DEF memory
<1>1. CASE MoveCard
  BY <1>1 DEF MoveCard
<1>2. CASE UNCHANGED vars
  BY <1>2 DEF vars
<1>3. ASSUME NEW p \in Cli, Command(p) PROVE UNCHANGED <<header, data, writer, original>>
  BY <1>3 DEF Command, Writes, Start, SelectCard, OpenImage, CheckErased, CheckBlock,
              Finish, Read, Crash
<1> QED BY <1>1, <1>2, <1>3 DEF Next

\* Jobs are given to idle commands; reports are made by Finish and Read.
LEMMA JobsAndReports ==
    ASSUME WorkInv, [Next]_vars, NEW p \in Cli
    PROVE  /\ job'[p] = job[p] \/ (job[p] = NoProgram /\ pc[p] = "idle")
           /\ \/ report'[p] = report[p]
              \/ Finish(p) /\ Stored = job[p] /\ report'[p] = job[p] /\ job' = job
              \/ Read(p) /\ report'[p] = Stored /\ job' = job
<1>0. TypeOK /\ Order
  BY DEF WorkInv
<1>1. CASE MoveCard \/ UNCHANGED vars
  BY <1>1 DEF MoveCard, vars
<1>2. ASSUME NEW q \in Cli, Command(q), ~Finish(q), ~Read(q)
      PROVE  report' = report /\ (job'[p] = job[p] \/ (job[p] = NoProgram /\ pc[p] = "idle"))
  <2>1. CASE \E program \in Program \cup {NoProgram}, over \in BOOLEAN : Start(q, program, over)
    BY <1>0, <2>1 DEF Start, Order, TypeOK
  <2>2. CASE ~\E program \in Program \cup {NoProgram}, over \in BOOLEAN : Start(q, program, over)
    BY <1>2, <2>2 DEF Command, SelectCard, OpenImage, Format, Erase, CheckErased, WriteBlock,
                      CheckBlock, Commit, WriteHeader, Crash
  <2> QED BY <2>1, <2>2
<1>3. ASSUME NEW q \in Cli, Finish(q) \/ Read(q)
      PROVE  /\ job' = job
             /\ \/ report'[p] = report[p]
                \/ Finish(p) /\ Stored = job[p] /\ report'[p] = job[p]
                \/ Read(p) /\ report'[p] = Stored
  BY <1>0, <1>3 DEF Finish, Read, TypeOK
<1> QED BY <1>1, <1>2, <1>3 DEF Next

\* Once a write has been reported, the card or image holds the program until
\* somebody writes again: nothing about the faults or the digest is assumed.
THEOREM WrittenIsTrue == Spec => []WrittenIsStored
<1>1. Init => WrittenIsStored
  BY DEF Init, WrittenIsStored
<1>2. WorkInv /\ WrittenIsStored /\ [Next]_vars => WrittenIsStored'
  <2> SUFFICES ASSUME WorkInv, WrittenIsStored, [Next]_vars,
                      NEW q \in Cli, report'[q] # NoProgram, writer' = q
               PROVE  Stored' = job'[q]
    BY DEF WrittenIsStored
  <2>1. CASE \E p \in Cli : Writes(p)
    BY <2>1, WritesLeave
  <2>2. CASE \A p \in Cli : ~Writes(p)
    <3>1. Stored' = Stored /\ writer = q
      BY <2>2, OtherSteps DEF Stored, ReadProgram, Readable
    <3>2. CASE report'[q] = report[q]
      <4>1. pc[q] = "end"
        BY <3>2 DEF WorkInv, Order
      <4>2. job'[q] = job[q]
        BY <4>1, JobsAndReports
      <4> QED BY <3>1, <3>2, <4>2 DEF WrittenIsStored
    <3>3. CASE Finish(q) /\ Stored = job[q] /\ job' = job
      BY <3>1, <3>3
    <3>4. CASE Read(q) /\ job' = job
      <4>1. job[q] \in Program /\ job[q] = NoProgram
        BY <3>1, <3>4 DEF WorkInv, Order, Read
      <4> QED BY <4>1, MemoryAssumption
    <3> QED BY <3>2, <3>3, <3>4, JobsAndReports
  <2> QED BY <2>1, <2>2
<1> QED BY <1>1, <1>2, WorkAlways, PTL DEF Spec

-----------------------------------------------------------------------------
(* What may be read: by the content id *)

\* The header's content id is nobody's or that of a program asked for.
IdInv ==
    /\ header.cid \in {NoId} \cup {Digest[c] : c \in Asked \ {NoProgram}}
    /\ \A p \in Cli : report[p] \in Asked

LEMMA AskedGrows ==
    ASSUME WorkInv, [Next]_vars
    PROVE  Asked \subseteq Asked' /\ Asked \subseteq Program \cup {NoProgram}
<1>1. original' = original
  BY OtherSteps, WritesLeave
<1>2. ASSUME NEW p \in Cli PROVE job[p] \in Asked'
  BY <1>2, JobsAndReports DEF Asked
<1>3. Asked \subseteq Asked'
  BY <1>1, <1>2 DEF Asked
<1>4. Asked \subseteq Program \cup {NoProgram}
  BY DEF Asked, WorkInv, TypeOK
<1> QED BY <1>3, <1>4

\* Without collisions a program is only read under its own content id.
LEMMA OwnId ==
    ASSUME NoCollisions, WorkInv, NEW p \in Program, Digest[p] = header.cid
    PROVE  Stored \in {p, NoProgram}
<1> SUFFICES ASSUME Readable(header, data) PROVE Prefix(data, header.length) = p
  BY DEF Stored, ReadProgram
<1>1. header.length \in 0..NumBlocks /\ data \in [1..NumBlocks -> Cell]
  BY DEF WorkInv, TypeOK, Header
<1>2. Prefix(data, header.length) \in Contents
  BY <1>1, PrefixShape
<1> QED BY <1>2 DEF Readable, NoCollisions

LEMMA NobodysId ==
    ASSUME WorkInv, header.cid = NoId PROVE Stored = NoProgram
<1>1. header.length \in 0..NumBlocks /\ data \in [1..NumBlocks -> Cell]
  BY DEF WorkInv, TypeOK, Header
<1>2. Prefix(data, header.length) \in Contents
  BY <1>1, PrefixShape
<1> QED BY <1>2, MemoryAssumption DEF Stored, ReadProgram, Readable

LEMMA StoredIsAsked ==
    ASSUME NoCollisions, WorkInv, IdInv PROVE Stored \in Asked
<1>1. NoProgram \in Asked /\ Asked \subseteq Program \cup {NoProgram}
  BY DEF Asked, WorkInv, TypeOK
<1>2. CASE header.cid = NoId
  BY <1>1, <1>2, NobodysId
<1>3. CASE header.cid # NoId
  <2>1. PICK c \in Asked \ {NoProgram} : header.cid = Digest[c]
    BY <1>3 DEF IdInv
  <2> QED BY <1>1, <2>1, OwnId
<1> QED BY <1>2, <1>3

\* The content id a step leaves.
LEMMA IdsWritten ==
    ASSUME WorkInv, [Next]_vars
    PROVE  \/ header'.cid \in {header.cid, NoId}
           \/ \E p \in Cli : Commit(p) /\ job[p] \in Program /\ header'.cid = Digest[job[p]]
<1>1. CASE \A p \in Cli : ~Writes(p)
  BY <1>1, OtherSteps
<1>2. ASSUME NEW p \in Cli, Format(p) PROVE header'.cid \in {header.cid, NoId}
  BY <1>2 DEF Format, InvalidHeader
<1>3. ASSUME NEW p \in Cli, WriteBlock(p) PROVE header' = header
  BY <1>3 DEF WriteBlock
<1>4. ASSUME NEW p \in Cli, Erase(p) PROVE header'.cid \in {header.cid, NoId}
  <2>1. header'.cid \in {header.cid, InvalidHeader.cid, NoId}
    BY <1>4, WriteHeaderLeaves, HeaderShapes DEF Erase, Pc, WorkInv
  <2> QED BY <2>1 DEF InvalidHeader
<1>5. ASSUME NEW p \in Cli, Commit(p)
      PROVE  job[p] \in Program /\ header'.cid \in {header.cid, Digest[job[p]], NoId}
  <2>1. HeaderOf(job[p]) \in Header /\ job[p] \in Program
    BY <1>5, BlockAtHand DEF Commit, Writing
  <2>2. header'.cid \in {header.cid, HeaderOf(job[p]).cid, NoId}
    BY <1>5, <2>1, WriteHeaderLeaves DEF Commit, Pc, WorkInv
  <2> QED BY <2>1, <2>2 DEF HeaderOf
<1> QED BY <1>1, <1>2, <1>3, <1>4, <1>5 DEF Writes

\* With a digest that has no collisions nobody ever accepts what nobody asked
\* to be written: on cards and images, whatever fails, whoever overlaps.
THEOREM DigestProtects ==
    ASSUME NoCollisions PROVE Spec => []AcceptedWasWritten
<1>1. Init => IdInv
  <2> SUFFICES ASSUME Init PROVE IdInv
    OBVIOUS
  <2>1. \A p \in Cli : report[p] \in Asked
    BY DEF Init, Asked
  <2>2. CASE header = InvalidHeader
    BY <2>1, <2>2 DEF IdInv, InvalidHeader
  <2>3. CASE header # InvalidHeader
    <3>1. original \in Program /\ header.cid = Digest[original]
      BY <2>3 DEF Init, HeaderOf
    <3> QED BY <2>1, <3>1, MemoryAssumption DEF IdInv, Asked
  <2> QED BY <2>2, <2>3
<1>2. WorkInv /\ IdInv /\ [Next]_vars => IdInv'
  <2> SUFFICES ASSUME WorkInv, IdInv, [Next]_vars PROVE IdInv'
    OBVIOUS
  <2>1. Asked \subseteq Asked' /\ Asked \subseteq Program \cup {NoProgram}
    BY AskedGrows
  <2>2. header'.cid \in {NoId} \cup {Digest[c] : c \in Asked' \ {NoProgram}}
    <3>1. CASE header'.cid \in {header.cid, NoId}
      BY <2>1, <3>1 DEF IdInv
    <3>2. CASE \E p \in Cli : job[p] \in Program /\ header'.cid = Digest[job[p]]
      BY <2>1, <3>2, MemoryAssumption DEF Asked
    <3> QED BY <3>1, <3>2, IdsWritten
  <2>3. ASSUME NEW p \in Cli PROVE report'[p] \in Asked'
    <3>1. report[p] \in Asked /\ Stored \in Asked
      BY StoredIsAsked DEF IdInv
    <3> QED BY <2>1, <3>1, JobsAndReports
  <2> QED BY <2>2, <2>3 DEF IdInv
<1>3. WorkInv /\ IdInv => AcceptedWasWritten
  BY StoredIsAsked DEF IdInv, AcceptedWasWritten
<1> QED BY <1>1, <1>2, <1>3, WorkAlways, PTL DEF Spec

-----------------------------------------------------------------------------
(* What may be read: by the order of the writes *)

\* On a card only one command is at work, and the body is written under an
\* invalid header.
CardInv ==
    /\ \A p, q \in Cli : Active(p) /\ Active(q) => p = q
    /\ \A p \in Cli : pc[p] # "format"
    /\ \A p \in Cli : pc[p] \in {"body", "check", "commit"} => header = InvalidHeader

LEMMA CardInit == Init => CardInv
BY DEF Init, CardInv, Active

\* A command leaves the others where they are, and becomes active only alone.
LEMMA CommandMoves ==
    ASSUME Medium = "card", WorkInv, CardInv, NEW p \in Cli, Command(p)
    PROVE  /\ pc' \in [Cli -> Pc]
           /\ \A q \in Cli \ {p} : pc'[q] = pc[q] /\ ~Active(q)
<1>1. pc \in [Cli -> Pc]
  BY DEF WorkInv, TypeOK
<1>2. PICK label : Goto(p, label)
  BY DEF Command, Start, SelectCard, OpenImage, Format, Erase, CheckErased, WriteBlock,
         CheckBlock, Commit, WriteHeader, Finish, Read, Crash, Verify
<1>3. \A q \in Cli \ {p} : pc'[q] = pc[q]
  BY <1>1, <1>2 DEF Goto
<1>4. \A q \in Cli \ {p} : ~Active(q)
  <2>1. CASE \E program \in Program \cup {NoProgram}, over \in BOOLEAN : Start(p, program, over)
    BY <2>1 DEF Start
  <2>2. CASE Active(p)
    BY <2>2 DEF CardInv
  <2> QED BY <2>1, <2>2 DEF Command, Active, SelectCard, OpenImage, Format, Erase, CheckErased,
             WriteBlock, CheckBlock, Commit, Finish, Read, Crash
<1>5. pc' \in [Cli -> Pc]
  BY WorkStep DEF WorkInv, TypeOK, Next
<1> QED BY <1>3, <1>4, <1>5

LEMMA CardStep ==
    ASSUME Medium = "card", WorkInv, CardInv, [Next]_vars
    PROVE  CardInv'
<1>1. CASE MoveCard \/ UNCHANGED vars
  BY <1>1 DEF MoveCard, vars, memory, CardInv, Active
<1>2. ASSUME NEW p \in Cli, Command(p) PROVE CardInv'
  <2>1. \A q \in Cli \ {p} : pc'[q] = pc[q] /\ ~Active(q)
    BY <1>2, CommandMoves
  <2>2. \A q, r \in Cli : Active(q)' /\ Active(r)' => q = r
    BY <2>1 DEF Active
  <2>3. pc'[p] # "format" /\ (pc'[p] \in {"body", "check", "commit"} => header' = InvalidHeader)
    <3> USE DEF WorkInv, TypeOK, Goto
    <3>1. CASE \E program \in Program \cup {NoProgram}, over \in BOOLEAN : Start(p, program, over)
      BY <3>1 DEF Start
    <3>2. CASE SelectCard(p)
      BY <3>2 DEF SelectCard
    <3>3. CASE OpenImage(p) \/ Format(p)
      BY <3>3 DEF OpenImage, Format, CardInv
    <3>4. CASE Erase(p)
      BY <3>4 DEF Erase, WriteHeader
    <3>5. CASE CheckErased(p)
      BY <3>5 DEF CheckErased, Verify, memory
    <3>6. CASE WriteBlock(p)
      BY <3>6 DEF WriteBlock, CardInv
    <3>7. CASE CheckBlock(p)
      <4>1. header = InvalidHeader /\ header' = header
        BY <3>7 DEF CheckBlock, CardInv, memory
      <4>2. pc'[p] \in {"body", "commit", "end"}
        BY <3>7 DEF CheckBlock, Verify
      <4> QED BY <4>1, <4>2
    <3>8. CASE Commit(p)
      BY <3>8 DEF Commit, WriteHeader
    <3>9. CASE Finish(p) \/ Read(p) \/ Crash(p)
      BY <3>9 DEF Finish, Read, Crash
    <3> QED BY <1>2, <3>1, <3>2, <3>3, <3>4, <3>5, <3>6, <3>7, <3>8, <3>9 DEF Command
  <2>4. \A q \in Cli \ {p} : pc'[q] \in {"idle", "end"}
    BY <2>1 DEF Active
  <2> QED BY <2>2, <2>3, <2>4 DEF CardInv
<1> QED BY <1>1, <1>2 DEF Next

LEMMA CardAlways == ASSUME Medium = "card" PROVE Spec => []CardInv
<1>1. WorkInv /\ CardInv /\ [Next]_vars => CardInv'
  BY CardStep
<1> QED BY <1>1, CardInit, WorkAlways, PTL DEF Spec

\* A valid header means the body it was written for, and a command has
\* written what lies behind it.
MarkerInv ==
    /\ header.magic =>
          \E c \in Asked \ {NoProgram} : header.length = Len(c) /\ Prefix(data, Len(c)) = c
    /\ \A p \in Cli : pc[p] \in {"body", "check"} =>
          \A i \in 1..(next[p] - 1) : data[i] = job[p][i]
    /\ \A p \in Cli : pc[p] = "commit" => \A i \in 1..Len(job[p]) : data[i] = job[p][i]
    /\ \A p \in Cli : report[p] \in Asked

LEMMA MarkerInit == Init => MarkerInv
<1> SUFFICES ASSUME Init PROVE MarkerInv
  OBVIOUS
<1>1. header.magic =>
        \E c \in Asked \ {NoProgram} : header.length = Len(c) /\ Prefix(data, Len(c)) = c
  <2>1. CASE header = InvalidHeader
    BY <2>1 DEF InvalidHeader
  <2>2. CASE header # InvalidHeader
    BY <2>2, MemoryAssumption DEF Init, HeaderOf, Asked
  <2> QED BY <2>1, <2>2
<1> QED BY <1>1 DEF Init, MarkerInv, Asked

LEMMA MarkedIsAsked == ASSUME MarkerInv PROVE Stored \in Asked
<1>1. CASE ~header.magic
  BY <1>1 DEF Stored, ReadProgram, Readable, Asked
<1>2. CASE header.magic
  BY <1>2 DEF Stored, ReadProgram, MarkerInv, Asked
<1> QED BY <1>1, <1>2

\* The body as far as it is verified.
LEMMA BodyStep ==
    ASSUME Medium = "card", WorkInv, CardInv, MarkerInv, NEW p \in Cli, Command(p),
           pc'[p] \in {"body", "check", "commit"}
    PROVE  /\ pc'[p] \in {"body", "check"} => \A i \in 1..(next'[p] - 1) : data'[i] = job'[p][i]
           /\ pc'[p] = "commit" => \A i \in 1..Len(job'[p]) : data'[i] = job'[p][i]
<1>0. /\ pc \in [Cli -> Pc] /\ next \in [Cli -> 1..NumBlocks]
      /\ data \in [1..NumBlocks -> Cell] /\ NumBlocks \in Nat
  BY MemoryAssumption DEF WorkInv, TypeOK
<1>1. CheckErased(p) \/ WriteBlock(p) \/ CheckBlock(p)
  BY <1>0 DEF Command, Start, SelectCard, OpenImage, Format, Erase, Commit, WriteHeader,
              Finish, Read, Crash, Goto
<1>2. CASE CheckErased(p)
  <2>1. pc'[p] = "body" /\ UNCHANGED <<data, job>>
    BY <1>0, <1>2 DEF CheckErased, Verify, Goto, memory
  <2>2. next'[p] = next[p] /\ next[p] = 1
    BY <1>2 DEF CheckErased, WorkInv, Order, Writing
  <2> QED BY <2>1, <2>2
<1>3. CASE WriteBlock(p)
  <2>1. /\ pc[p] = "body" /\ pc'[p] = "check" /\ UNCHANGED <<job, next>>
        /\ \E v : data' = [data EXCEPT ![next[p]] = v]
    BY <1>0, <1>3 DEF WriteBlock, Goto
  <2>2. \A i \in 1..(next[p] - 1) : data'[i] = data[i] /\ data[i] = job[p][i]
    BY <1>0, <2>1 DEF MarkerInv
  <2> QED BY <2>1, <2>2
<1>4. CASE CheckBlock(p)
  <2>1. pc[p] = "check" /\ UNCHANGED <<data, job>>
    BY <1>4 DEF CheckBlock, memory
  <2>2. data[next[p]] = job[p][next[p]]
    BY <1>0, <1>4 DEF CheckBlock, Verify, Goto
  <2>3. next[p] \in 1..Len(job[p]) /\ Len(job[p]) \in 1..NumBlocks
    BY <2>1, BlockAtHand DEF Writing
  <2>4. \A i \in 1..(next[p] - 1) : data[i] = job[p][i]
    BY <2>1 DEF MarkerInv
  <2>5. \A i \in 1..next[p] : data[i] = job[p][i]
    BY <1>0, <2>2, <2>4
  <2>6. CASE next[p] < Len(job[p])
    <3>1. pc'[p] = "body" /\ next'[p] = next[p] + 1
      BY <1>0, <1>4, <2>6 DEF CheckBlock, Verify, Goto
    <3>2. next'[p] - 1 = next[p]
      BY <1>0, <3>1
    <3> QED BY <2>1, <2>5, <3>1, <3>2
  <2>7. CASE ~(next[p] < Len(job[p]))
    <3>1. pc'[p] = "commit"
      BY <1>0, <1>4, <2>7 DEF CheckBlock, Verify, Goto
    <3>2. next[p] = Len(job[p])
      BY <1>0, <2>3, <2>7
    <3> QED BY <2>1, <2>5, <3>1, <3>2
  <2> QED BY <2>6, <2>7
<1> QED BY <1>1, <1>2, <1>3, <1>4

LEMMA HeaderStep ==
    ASSUME Medium = "card", "torn" \notin Fault, WorkInv, CardInv, MarkerInv, [Next]_vars,
           header'.magic
    PROVE  \E c \in Asked' \ {NoProgram} :
              header'.length = Len(c) /\ Prefix(data', Len(c)) = c
<1>0. Asked \subseteq Asked'
  BY AskedGrows
<1>1. CASE UNCHANGED <<header, data>>
  BY <1>0, <1>1 DEF MarkerInv
<1>2. ASSUME NEW p \in Cli, Erase(p) PROVE UNCHANGED <<header, data>>
  <2>1. header' \in {header, InvalidHeader} /\ data' = data
    BY <1>2, WriteHeaderLeaves, HeaderShapes DEF Erase, Pc, WorkInv
  <2> QED BY <2>1 DEF InvalidHeader
<1>3. ASSUME NEW p \in Cli, Format(p) \/ WriteBlock(p) PROVE FALSE
  BY <1>3 DEF Format, WriteBlock, CardInv, InvalidHeader
<1>4. ASSUME NEW p \in Cli, Commit(p), header' # header
      PROVE  \E c \in Asked' \ {NoProgram} :
                header'.length = Len(c) /\ Prefix(data', Len(c)) = c
  <2>1. HeaderOf(job[p]) \in Header /\ job[p] \in Program
    BY <1>4, BlockAtHand DEF Commit, Writing
  <2>2. header' = HeaderOf(job[p]) /\ data' = data
    BY <1>4, <2>1, WriteHeaderLeaves DEF Commit, Pc, WorkInv
  <2>3. \A i \in 1..Len(job[p]) : data[i] = job[p][i]
    BY <1>4 DEF Commit, MarkerInv
  <2>4. Prefix(data, Len(job[p])) = job[p]
    BY <2>1, <2>3, ProgramShape DEF Prefix
  <2>5. job[p] \in Asked' \ {NoProgram}
    BY <1>0, <2>1, MemoryAssumption DEF Asked
  <2> QED BY <2>2, <2>4, <2>5 DEF HeaderOf
<1>5. ASSUME NEW p \in Cli, Commit(p) PROVE data' = data
  BY <1>5 DEF Commit, WriteHeader
<1>6. CASE \A p \in Cli : ~Writes(p)
  BY <1>1, <1>6, OtherSteps
<1> QED BY <1>1, <1>2, <1>3, <1>4, <1>5, <1>6 DEF Writes

\* "A valid GWY1 header is the commit marker": on a card whose blocks are
\* written whole or not at all the order of the writes is enough.  Nothing is
\* assumed of the digest.
THEOREM CommitMarkerProtects ==
    ASSUME Medium = "card", "torn" \notin Fault
    PROVE  Spec => []AcceptedWasWritten
<1>1. WorkInv /\ CardInv /\ MarkerInv /\ [Next]_vars => MarkerInv'
  <2> SUFFICES ASSUME WorkInv, CardInv, MarkerInv, [Next]_vars PROVE MarkerInv'
    OBVIOUS
  <2>1. ASSUME NEW p \in Cli PROVE report'[p] \in Asked'
    <3>1. report[p] \in Asked /\ Stored \in Asked
      BY MarkedIsAsked DEF MarkerInv
    <3> QED BY <3>1, AskedGrows, JobsAndReports
  <2>2. ASSUME NEW p \in Cli, pc'[p] \in {"body", "check", "commit"}
        PROVE  /\ pc'[p] \in {"body", "check"} =>
                     \A i \in 1..(next'[p] - 1) : data'[i] = job'[p][i]
               /\ pc'[p] = "commit" => \A i \in 1..Len(job'[p]) : data'[i] = job'[p][i]
    <3>1. CASE Command(p)
      BY <2>2, <3>1, BodyStep
    <3>2. ASSUME NEW q \in Cli \ {p}, Command(q) PROVE FALSE
      BY <2>2, <3>2, CommandMoves DEF Active
    <3>3. CASE MoveCard \/ UNCHANGED vars
      <4>1. UNCHANGED <<pc, data, job, next>>
        BY <3>3 DEF MoveCard, vars, memory
      <4> QED BY <2>2, <4>1 DEF MarkerInv
    <3> QED BY <3>1, <3>2, <3>3 DEF Next
  <2> QED BY <2>1, <2>2, HeaderStep DEF MarkerInv
<1>2. MarkerInv => AcceptedWasWritten
  BY MarkedIsAsked DEF MarkerInv, AcceptedWasWritten
<1> QED BY <1>1, <1>2, MarkerInit, WorkAlways, CardAlways, PTL DEF Spec

-----------------------------------------------------------------------------
(* Refinement *)

\* How a write changes what can be read from a card.
LEMMA StoreWrites ==
    ASSUME NoCollisions, Medium = "card", WorkInv, CardInv, AcceptedWasWritten',
           NEW p \in Cli, Writes(p)
    PROVE  [Store!Next]_<<Stored, Asked>>
<1>1. Asked' = Asked
  BY WritesLeave DEF Asked
<1>2. Stored' \in Asked /\ Asked \subseteq Program \cup {NoProgram}
  <2>1. Stored' \in Asked'
    BY DEF AcceptedWasWritten
  <2> QED BY <1>1, <2>1 DEF Asked, WorkInv, TypeOK
<1>3. CASE Stored = NoProgram
  BY <1>1, <1>2, <1>3 DEF Store!Next, Store!Store
<1>4. CASE Stored # NoProgram
  <2>1. Erase(p)
    BY <1>4 DEF Writes, Format, WriteBlock, Commit, CardInv, Stored, ReadProgram, Readable,
                InvalidHeader
  <2>2. data' = data /\ header'.cid \in {header.cid, NoId}
    <3>1. header'.cid \in {header.cid, InvalidHeader.cid, NoId} /\ data' = data
      BY <2>1, WriteHeaderLeaves, HeaderShapes DEF Erase, Pc, WorkInv
    <3> QED BY <3>1 DEF InvalidHeader
  <2>3. CASE Stored' = NoProgram
    BY <1>1, <2>3 DEF Store!Next, Store!Lose
  <2>4. CASE Stored' # NoProgram
    <3>1. Stored' \in Program /\ Digest[Stored'] = header'.cid
      BY <1>2, <2>4 DEF Stored, ReadProgram, Readable
    <3>2. header'.cid = header.cid
      BY <2>2, <3>1, ProgramShape, MemoryAssumption
    <3>3. Stored \in {Stored', NoProgram}
      BY <3>1, <3>2, OwnId
    <3> QED BY <1>1, <1>4, <3>3
  <2> QED BY <2>3, <2>4
<1> QED BY <1>3, <1>4

\* Writing a card is transactional: what can be read from it behaves like
\* ProgramStore, old program, nothing, new program.
THEOREM CardImplementsStore ==
    ASSUME NoCollisions, Medium = "card" PROVE Spec => CardIsAStore
<1>1. Init /\ WorkInv /\ AcceptedWasWritten => Store!Init
  BY DEF AcceptedWasWritten, Asked, WorkInv, TypeOK, Store!Init
<1>2. WorkInv /\ CardInv /\ AcceptedWasWritten' /\ [Next]_vars => [Store!Next]_<<Stored, Asked>>
  <2> SUFFICES ASSUME WorkInv, CardInv, AcceptedWasWritten', [Next]_vars
               PROVE  [Store!Next]_<<Stored, Asked>>
    OBVIOUS
  <2>1. CASE \E p \in Cli : Writes(p)
    BY <2>1, StoreWrites
  <2>2. CASE \A p \in Cli : ~Writes(p)
    <3>1. Stored' = Stored /\ original' = original
      BY <2>2, OtherSteps DEF Stored, ReadProgram, Readable
    <3>2. CASE job' = job
      BY <3>1, <3>2 DEF Asked
    <3>3. ASSUME NEW p \in Cli, NEW program \in Program \cup {NoProgram}, NEW over \in BOOLEAN,
                 Start(p, program, over)
          PROVE  Store!Ask(program)
      <4>1. job \in [Cli -> Program \cup {NoProgram}] /\ job[p] = NoProgram
        BY <3>3 DEF Start, WorkInv, TypeOK, Order
      <4>2. job'[p] = program /\ \A q \in Cli \ {p} : job'[q] = job[q]
        BY <3>3, <4>1 DEF Start
      <4>3. Asked' = Asked \cup {program}
        BY <3>1, <4>1, <4>2 DEF Asked
      <4> QED BY <3>1, <4>3 DEF Store!Ask
    <3>4. \/ job' = job
          \/ \E p \in Cli, program \in Program \cup {NoProgram}, over \in BOOLEAN :
                Start(p, program, over)
      BY <2>2 DEF Next, Command, Writes, SelectCard, OpenImage, CheckErased, CheckBlock, Finish,
                  Read, Crash, MoveCard, vars
    <3> QED BY <3>2, <3>3, <3>4 DEF Store!Next
  <2> QED BY <2>1, <2>2
<1> QED
  BY <1>1, <1>2, WorkAlways, CardAlways, DigestProtects, PTL DEF Spec, CardIsAStore, Store!Spec
=============================================================================
