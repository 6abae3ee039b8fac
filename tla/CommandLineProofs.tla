------------------------- MODULE CommandLineProofs -------------------------
(***************************************************************************)
(* Proofs about CommandLine: the theorems about the shell commands hold    *)
(* beside the labels, and the printer gets whole ones, for every number of *)
(* senders and every length of jobs and chunks.                            *)
(***************************************************************************)
EXTENDS CommandLine, ShellCommandProofs, SequenceTheorems, FiniteSetTheorems

-----------------------------------------------------------------------------
(* The shell commands *)

\* Label commands leave everything of the shell commands alone.
LEMMA ShellBesideLabels == [Next]_vars => [ShellNext]_shellVars
BY DEF Next, Command, Label, vars

LEMMA ShellInvHolds == Spec => []IInv
<1>1. Init => IInv
  BY InitInv DEF Init
<1>2. IInv /\ [Next]_vars => IInv'
  BY ShellBesideLabels, NextKeeps
<1> QED BY <1>1, <1>2, PTL DEF Spec

-----------------------------------------------------------------------------
(* Types of the labels *)

LEMMA ChunkSize ==
    ASSUME LabelTypeOK, NEW s \in Sender
    PROVE  /\ offset[s] \in 0 .. Length - 1
           /\ ChunkBytes(s) \in 1 .. Length
           /\ offset[s] + ChunkBytes(s) <= Length
<1>1. offset[s] \in 0 .. Length - 1
  BY DEF LabelTypeOK
<1> QED BY <1>1, PrintAssumption DEF ChunkBytes

\* What the printer has got after n bytes more of a job.
LEMMA StreamExtended ==
    ASSUME LabelTypeOK, NEW s \in Sender, NEW n \in Nat, offset[s] + n <= Length, Takes(s, n)
    PROVE  /\ printed' \in Seq(Sender \X (1 .. Length))
           /\ Len(printed') = Len(printed) + n
           /\ \A i \in 1 .. Len(printed) : printed'[i] = printed[i]
           /\ \A i \in Len(printed) + 1 .. Len(printed) + n :
                 printed'[i] = <<s, offset[s] + (i - Len(printed))>>
<1> DEFINE more == [i \in 1 .. n |-> <<s, offset[s] + i>>]
           Byte == Sender \X (1 .. Length)
<1>1. offset[s] \in 0 .. Length - 1 /\ Length \in Nat
  BY PrintAssumption DEF LabelTypeOK
<1>2. \A i \in 1 .. n : <<s, offset[s] + i>> \in Byte
  BY <1>1
<1>3. more \in Seq(Byte) /\ Len(more) = n
  <2>1. more \in [1 .. n -> Byte]
    BY <1>2
  <2> QED BY <2>1, IsASeq, LenProperties
<1>4. printed \in Seq(Byte) /\ printed' = printed \o more
  BY DEF LabelTypeOK, Takes
<1>5. /\ printed' \in Seq(Byte)
      /\ Len(printed') = Len(printed) + Len(more)
      /\ \A i \in 1 .. Len(printed) + Len(more) :
            printed'[i] = IF i <= Len(printed) THEN printed[i] ELSE more[i - Len(printed)]
  BY <1>3, <1>4, ConcatProperties
<1>6. Len(printed) \in Nat
  BY <1>4
<1>7. \A i \in 1 .. n : more[i] = <<s, offset[s] + i>>
  OBVIOUS
<1> DEFINE k == Len(printed)
           after == printed'
<1> HIDE DEF Byte, more, k, after
<1>8. /\ k \in Nat /\ Len(more) = n
      /\ \A i \in 1 .. k + n : after[i] = IF i <= k THEN printed[i] ELSE more[i - k]
  BY <1>3, <1>5, <1>6 DEF k, after
<1>9. \A i \in 1 .. k : after[i] = printed[i]
  BY <1>8
<1>10. ASSUME NEW i \in k + 1 .. k + n PROVE after[i] = <<s, offset[s] + (i - k)>>
  <2>1. i \in 1 .. k + n /\ ~(i <= k) /\ i - k \in 1 .. n
    BY <1>8
  <2>2. after[i] = more[i - k]
    BY <1>8, <2>1
  <2> QED BY <1>7, <2>1, <2>2
<1> QED BY <1>3, <1>5, <1>9, <1>10 DEF Byte, k, after

LEMMA LabelTypesKept ==
    ASSUME LabelTypeOK, [LabelNext]_labelVars PROVE LabelTypeOK'
<1> USE PrintAssumption
<1>1. ASSUME NEW d \in Drafts, Render(d) PROVE LabelTypeOK'
  BY <1>1 DEF Render, LabelTypeOK
<1>2. CASE Discard
  BY <1>2 DEF Discard, LabelTypeOK
<1>3. ASSUME NEW system \in {"linux", "win32"}, PlugIn(system) PROVE LabelTypeOK'
  BY <1>3 DEF PlugIn, LabelTypeOK
<1>4. ASSUME NEW s \in Sender, NEW found, NEW b,
             PrintLinux(s, found, b) \/ PrintWindows(s, found, b)
      PROVE  LabelTypeOK'
  BY <1>4 DEF PrintLinux, PrintWindows, Go, Done, LabelTypeOK
<1>5. ASSUME NEW s \in Sender, Claim(s) \/ ClaimFails(s) PROVE LabelTypeOK'
  BY <1>5 DEF Claim, ClaimFails, Go, Done, LabelTypeOK
<1>6. ASSUME NEW s \in Sender, WriteChunk(s) PROVE LabelTypeOK'
  <2>1. printed' \in Seq(Sender \X (1 .. Length))
    BY <1>6, ChunkSize, StreamExtended DEF WriteChunk
  <2>2. offset' \in [Sender -> 0 .. Length - 1]
    BY <1>6, ChunkSize DEF WriteChunk, LabelTypeOK
  <2> QED BY <1>6, <2>1, <2>2 DEF WriteChunk, LabelTypeOK
<1>7. ASSUME NEW s \in Sender, WriteLast(s) PROVE LabelTypeOK'
  <2>1. printed' \in Seq(Sender \X (1 .. Length))
    BY <1>7, ChunkSize, StreamExtended DEF WriteLast
  <2> QED BY <1>7, <2>1 DEF WriteLast, Go, Done, Released, LabelTypeOK
<1>8. ASSUME NEW s \in Sender, NEW n \in 0 .. Chunk, JobBreaks(s, n) PROVE LabelTypeOK'
  <2>1. printed' \in Seq(Sender \X (1 .. Length))
    <3>1. n \in Nat /\ offset[s] + n <= Length
      BY <1>8, ChunkSize DEF JobBreaks
    <3> QED BY <1>8, <3>1, StreamExtended DEF JobBreaks
  <2>2. torn' \in BOOLEAN
    BY <1>8 DEF JobBreaks
  <2>3. step' \in [Sender -> Done \cup {"open", "sending"}] /\ claim' \in Sender \cup {Nobody}
    BY <1>8 DEF JobBreaks, Go, Done, Released, LabelTypeOK
  <2> QED BY <1>8, <2>1, <2>2, <2>3 DEF JobBreaks, LabelTypeOK
<1>9. ASSUME NEW s \in Sender, PrintAgain(s) PROVE LabelTypeOK'
  BY <1>9 DEF PrintAgain, Done, LabelTypeOK
<1>10. CASE UNCHANGED labelVars
  BY <1>10 DEF labelVars, LabelTypeOK
<1> QED BY <1>1, <1>2, <1>3, <1>4, <1>5, <1>6, <1>7, <1>8, <1>9, <1>10 DEF LabelNext

LEMMA LabelsBesideShell == [Next]_vars => [LabelNext]_labelVars
BY DEF Next, Command, Label, vars

LEMMA LabelTypesInit == Init => LabelTypeOK
<1> SUFFICES ASSUME Init PROVE LabelTypeOK
  OBVIOUS
<1>1. printed \in Seq(Sender \X (1 .. Length))
  BY DEF Init, LabelInit
<1>2. 0 \in 0 .. Length - 1
  BY PrintAssumption
<1> QED BY <1>1, <1>2 DEF Init, LabelInit, LabelTypeOK, Done

\* Every variable of both groups of subcommands keeps its type.
THEOREM CommandLineTyped == Spec => []TypeOK
<1>1. LabelTypeOK /\ [Next]_vars => LabelTypeOK'
  BY LabelsBesideShell, LabelTypesKept
<1>2. IInv => ShellTypeOK
  BY DEF IInv, Flags, Data, ShellTypeOK
<1>3. LabelTypeOK /\ ShellTypeOK => TypeOK
  BY DEF TypeOK
<1> QED BY LabelTypesInit, ShellInvHolds, <1>1, <1>2, <1>3, PTL DEF Spec

-----------------------------------------------------------------------------
(* Whole labels *)

Stream(bytes) ==
    \A i \in 1 .. Len(bytes) - 1 :
        bytes[i][2] < Length => bytes[i + 1] = <<bytes[i][1], bytes[i][2] + 1>>

\* The stream has got as far as the next chunk of s, the only one that writes.
GotTo(s) ==
    IF printed = <<>> THEN offset[s] = 0
    ELSE LET last == printed[Len(printed)]
         IN  IF offset[s] = 0 THEN last[2] = Length ELSE last = <<s, offset[s]>>

\* Between two labels.
AtBoundary == printed = <<>> \/ printed[Len(printed)][2] = Length

\* Whoever sends on Linux has the claim, and the stream has got to where its
\* sender is, or to the end of a label.
StreamInv ==
    /\ platform = "none" => printed = <<>> /\ claim = Nobody /\ \A s \in Sender : step[s] = "ready"
    /\ \A s \in Sender : step[s] \in {"ready", "open"} => offset[s] = 0
    /\ platform = "linux" =>
          /\ \A s \in Sender : step[s] = "sending" <=> claim = s
          /\ ~torn => /\ Stream(printed)
                      /\ claim = Nobody => AtBoundary
                      /\ \A s \in Sender : claim = s => GotTo(s)

\* n bytes more of the job whose turn it is.
LEMMA StreamGoesOn ==
    ASSUME LabelTypeOK, NEW s \in Sender, NEW n \in Nat \ {0}, offset[s] + n <= Length,
           Takes(s, n), Stream(printed), GotTo(s)
    PROVE  /\ Stream(printed')
           /\ printed' # <<>>
           /\ printed'[Len(printed')] = <<s, offset[s] + n>>
<1> DEFINE k == Len(printed)
           o == offset[s]
           after == printed'
<1>1. /\ k \in Nat /\ o \in 0 .. Length - 1 /\ Length \in Nat
      /\ printed \in Seq(Sender \X (1 .. Length))
  BY PrintAssumption DEF LabelTypeOK
<1>2. /\ after \in Seq(Sender \X (1 .. Length))
      /\ Len(after) = k + n
      /\ \A i \in 1 .. k : after[i] = printed[i]
      /\ \A i \in k + 1 .. k + n : after[i] = <<s, o + (i - k)>>
  BY StreamExtended
<1>3. after[k + n] = <<s, o + n>> /\ after # <<>>
  <2>1. k + n \in k + 1 .. k + n /\ (k + n) - k = n /\ k + n # 0
    BY <1>1
  <2>2. after[k + n] = <<s, o + ((k + n) - k)>>
    BY <1>2, <2>1
  <2>3. after # <<>>
    BY <1>2, <2>1
  <2> QED BY <2>1, <2>2, <2>3
<1>4. ASSUME NEW i \in 1 .. k + n - 1, after[i][2] < Length
      PROVE  after[i + 1] = <<after[i][1], after[i][2] + 1>>
  <2>1. CASE i + 1 <= k
    <3>1. after[i] = printed[i] /\ after[i + 1] = printed[i + 1] /\ i \in 1 .. k - 1
      <4>1. i \in 1 .. k /\ i + 1 \in 1 .. k /\ i \in 1 .. k - 1
        BY <1>1, <2>1
      <4>2. \A j \in 1 .. k : after[j] = printed[j]
        BY <1>2
      <4> QED BY <4>1, <4>2
    <3> QED BY <1>4, <3>1 DEF Stream
  <2>2. CASE i = k
    <3>1. after[i] = printed[k] /\ after[i + 1] = <<s, o + 1>> /\ printed # <<>>
      <4>1. i \in 1 .. k /\ i + 1 \in k + 1 .. k + n /\ i + 1 - k = 1
        BY <1>1, <2>2
      <4>2. printed # <<>>
        BY <4>1
      <4>3. after[i] = printed[i]
        BY <1>2, <4>1
      <4>4. after[i + 1] = <<s, o + (i + 1 - k)>>
        BY <1>2, <4>1
      <4> QED BY <2>2, <4>1, <4>2, <4>3, <4>4
    <3>2. o # 0
      <4>1. o = 0 => printed[k][2] = Length
        BY <3>1 DEF GotTo
      <4>2. printed[k][2] < Length
        BY <1>4, <3>1
      <4> QED BY <1>1, <4>1, <4>2
    <3>3. printed[k] = <<s, o>>
      BY <3>1, <3>2 DEF GotTo
    <3> QED BY <3>1, <3>3
  <2>3. CASE i > k
    <3>1. i \in k + 1 .. k + n /\ i + 1 \in k + 1 .. k + n /\ (i + 1) - k = (i - k) + 1
      BY <1>1, <2>3
    <3>2. after[i] = <<s, o + (i - k)>> /\ after[i + 1] = <<s, o + ((i + 1) - k)>>
      BY <1>2, <3>1
    <3>3. o + ((i + 1) - k) = o + (i - k) + 1
      BY <1>1, <3>1
    <3> QED BY <3>2, <3>3
  <2> QED BY <1>1, <2>1, <2>2, <2>3
<1> QED BY <1>2, <1>3, <1>4 DEF Stream

\* A write that is broken off before its first byte.
LEMMA NothingTaken ==
    ASSUME LabelTypeOK, NEW s \in Sender, Takes(s, 0)
    PROVE  printed' = printed
<1>1. offset[s] + 0 <= Length
  BY ChunkSize, PrintAssumption
<1>2. /\ printed' \in Seq(Sender \X (1 .. Length)) /\ printed \in Seq(Sender \X (1 .. Length))
      /\ Len(printed') = Len(printed)
      /\ \A i \in 1 .. Len(printed) : printed'[i] = printed[i]
  BY <1>1, StreamExtended DEF LabelTypeOK
<1> QED BY <1>2, SeqEqual

LEMMA StreamChoosing ==
    ASSUME LabelTypeOK, StreamInv, NEW s \in Sender,
           \/ \E found \in 0 .. 2, b \in BOOLEAN :
                 PrintLinux(s, found, b) \/ PrintWindows(s, found, b)
           \/ ClaimFails(s) \/ PrintAgain(s)
    PROVE  StreamInv'
<1>1. /\ UNCHANGED <<platform, claim, printed, torn>>
      /\ step[s] \in {"ready", "open", "printed", "failed"}
      /\ step'[s] \in {"ready", "open", "failed"}
      /\ \A q \in Sender : q # s => step'[q] = step[q] /\ offset'[q] = offset[q]
  BY DEF PrintLinux, PrintWindows, ClaimFails, PrintAgain, Go, LabelTypeOK
<1>2. step'[s] \in {"ready", "open"} => offset'[s] = 0
  BY DEF PrintLinux, PrintWindows, ClaimFails, PrintAgain, Go, LabelTypeOK, StreamInv
<1>3. platform # "none"
  <2>1. step[s] # "ready" => platform # "none"
    BY DEF StreamInv
  <2> QED BY <2>1 DEF PrintLinux, PrintWindows, ClaimFails, PrintAgain, Go
<1>4. platform = "linux" => claim # s
  BY <1>1 DEF StreamInv
<1>5. \A q \in Sender : q # s => GotTo(q)' = GotTo(q)
  BY <1>1 DEF GotTo
<1> QED BY <1>1, <1>2, <1>3, <1>4, <1>5 DEF StreamInv, AtBoundary

LEMMA StreamClaim ==
    ASSUME LabelTypeOK, StreamInv, NEW s \in Sender, Claim(s) PROVE StreamInv'
<1>1. /\ UNCHANGED <<platform, offset, printed, torn>>
      /\ step[s] = "open" /\ step'[s] = "sending"
      /\ \A q \in Sender : q # s => step'[q] = step[q]
  BY DEF Claim, Go, LabelTypeOK
<1>2. platform # "none"
  BY <1>1 DEF StreamInv
<1>3. CASE platform = "linux"
  <2>1. claim = Nobody /\ claim' = s
    BY <1>3 DEF Claim
  <2>2. \A q \in Sender : step[q] # "sending"
    BY <1>3, <2>1, PrintAssumption DEF StreamInv
  <2>3. ~torn => GotTo(s)
    BY <1>1, <1>3, <2>1 DEF StreamInv, AtBoundary, GotTo
  <2>4. GotTo(s)' = GotTo(s)
    BY <1>1 DEF GotTo
  <2> QED BY <1>1, <1>3, <2>1, <2>2, <2>3, <2>4, PrintAssumption DEF StreamInv
<1>4. CASE platform # "linux"
  BY <1>1, <1>2, <1>4 DEF StreamInv
<1> QED BY <1>3, <1>4

LEMMA StreamChunk ==
    ASSUME LabelTypeOK, StreamInv, NEW s \in Sender, WriteChunk(s) PROVE StreamInv'
<1> DEFINE n == ChunkBytes(s)
<1>1. /\ UNCHANGED <<platform, step, claim, torn>>
      /\ step[s] = "sending" /\ Takes(s, n) /\ offset'[s] = offset[s] + n
      /\ \A q \in Sender : q # s => offset'[q] = offset[q]
  BY DEF WriteChunk, LabelTypeOK
<1>2. n \in Nat \ {0} /\ offset[s] \in Nat /\ offset[s] + n <= Length /\ offset'[s] # 0
  BY <1>1, ChunkSize, PrintAssumption
<1>3. platform # "none"
  BY <1>1 DEF StreamInv
<1>4. CASE platform = "linux" /\ ~torn
  <2>1. claim = s /\ Stream(printed) /\ GotTo(s)
    BY <1>1, <1>4 DEF StreamInv
  <2>2. /\ Stream(printed') /\ printed' # <<>>
        /\ printed'[Len(printed')] = <<s, offset[s] + n>>
    BY <1>1, <1>2, <2>1, StreamGoesOn
  <2>3. GotTo(s)'
    BY <1>1, <1>2, <2>2 DEF GotTo
  <2> QED BY <1>1, <1>3, <2>1, <2>2, <2>3, PrintAssumption DEF StreamInv
<1>5. CASE ~(platform = "linux" /\ ~torn)
  BY <1>1, <1>3, <1>5 DEF StreamInv
<1> QED BY <1>4, <1>5

\* The end of a job on Linux frees the claim.
LEMMA ClaimEnds ==
    ASSUME LabelTypeOK, StreamInv, NEW s \in Sender, step[s] = "sending",
           claim' = Released(s), step'[s] # "sending",
           \A q \in Sender : q # s => step'[q] = step[q]
    PROVE  platform = "linux" =>
              claim = s /\ claim' = Nobody /\ \A q \in Sender : step'[q] = "sending" <=> claim' = q
<1> SUFFICES ASSUME platform = "linux"
             PROVE  /\ claim = s /\ claim' = Nobody
                    /\ \A q \in Sender : step'[q] = "sending" <=> claim' = q
  OBVIOUS
<1>1. claim = s /\ claim' = Nobody
  BY DEF StreamInv, Released
<1>2. \A q \in Sender : q # s => step[q] # "sending"
  BY <1>1 DEF StreamInv
<1> QED BY <1>1, <1>2, PrintAssumption

LEMMA StreamLast ==
    ASSUME LabelTypeOK, StreamInv, NEW s \in Sender, WriteLast(s) PROVE StreamInv'
<1> DEFINE n == ChunkBytes(s)
<1>1. /\ UNCHANGED <<platform, offset, torn>> /\ claim' = Released(s)
      /\ step[s] = "sending" /\ step'[s] = "printed" /\ Takes(s, n) /\ offset[s] + n = Length
      /\ \A q \in Sender : q # s => step'[q] = step[q]
  BY DEF WriteLast, Go, LabelTypeOK
<1>2. n \in Nat \ {0} /\ offset[s] + n <= Length
  BY ChunkSize, PrintAssumption
<1>3. platform # "none"
  BY <1>1 DEF StreamInv
<1>4. platform = "linux" =>
         claim = s /\ claim' = Nobody /\ \A q \in Sender : step'[q] = "sending" <=> claim' = q
  BY <1>1, ClaimEnds
<1>5. CASE platform = "linux" /\ ~torn
  <2>1. Stream(printed) /\ GotTo(s)
    BY <1>4, <1>5 DEF StreamInv
  <2>2. Stream(printed') /\ printed'[Len(printed')] = <<s, Length>>
    BY <1>1, <1>2, <2>1, StreamGoesOn
  <2>3. AtBoundary'
    BY <2>2 DEF AtBoundary
  <2> QED BY <1>1, <1>3, <1>4, <2>2, <2>3, PrintAssumption DEF StreamInv
<1>6. CASE ~(platform = "linux" /\ ~torn)
  BY <1>1, <1>3, <1>4, <1>6 DEF StreamInv
<1> QED BY <1>5, <1>6

LEMMA StreamBreaks ==
    ASSUME LabelTypeOK, StreamInv, NEW s \in Sender, NEW n \in 0 .. Chunk, JobBreaks(s, n)
    PROVE  StreamInv'
<1>1. /\ UNCHANGED <<platform, offset>> /\ claim' = Released(s)
      /\ step[s] = "sending" /\ step'[s] = "failed" /\ Takes(s, n)
      /\ torn' = (torn \/ offset[s] + n \in 1 .. Length - 1)
      /\ \A q \in Sender : q # s => step'[q] = step[q]
  BY DEF JobBreaks, Go, LabelTypeOK
<1>2. n \in Nat /\ offset[s] \in Nat /\ Length \in Nat /\ offset[s] + n <= Length
  BY ChunkSize, PrintAssumption DEF JobBreaks
<1>3. platform # "none"
  BY <1>1 DEF StreamInv
<1>4. platform = "linux" =>
         claim = s /\ claim' = Nobody /\ \A q \in Sender : step'[q] = "sending" <=> claim' = q
  BY <1>1, ClaimEnds
<1>5. CASE platform = "linux" /\ ~torn'
  <2>1. Stream(printed) /\ GotTo(s) /\ ~torn
    BY <1>1, <1>4, <1>5 DEF StreamInv
  <2>2. offset[s] + n = 0 \/ offset[s] + n = Length
    <3>1. ~(offset[s] + n \in 1 .. Length - 1)
      BY <1>1, <1>5
    <3> QED BY <1>2, <3>1
  <2>3. CASE n = 0
    <3>1. printed' = printed /\ offset[s] = 0
      <4>1. offset[s] = 0
        BY <2>2, <2>3, ChunkSize
      <4> QED BY <1>1, <2>3, <4>1, NothingTaken
    <3>2. AtBoundary'
      BY <2>1, <3>1 DEF GotTo, AtBoundary
    <3> QED BY <1>1, <1>3, <1>4, <2>1, <3>1, <3>2, PrintAssumption DEF StreamInv
  <2>4. CASE n # 0
    <3>1. offset[s] + n = Length /\ n \in Nat \ {0}
      BY <1>2, <2>2, <2>4
    <3>2. Stream(printed') /\ printed'[Len(printed')] = <<s, Length>>
      BY <1>1, <1>2, <2>1, <3>1, StreamGoesOn
    <3>3. AtBoundary'
      BY <3>2 DEF AtBoundary
    <3> QED BY <1>1, <1>3, <1>4, <3>2, <3>3, PrintAssumption DEF StreamInv
  <2> QED BY <2>3, <2>4
<1>6. CASE ~(platform = "linux" /\ ~torn')
  BY <1>1, <1>3, <1>4, <1>6 DEF StreamInv
<1> QED BY <1>5, <1>6

LEMMA StreamKept ==
    ASSUME LabelTypeOK, StreamInv, [LabelNext]_labelVars PROVE StreamInv'
<1>1. ASSUME UNCHANGED <<platform, step, offset, claim, printed, torn>> PROVE StreamInv'
  BY <1>1 DEF StreamInv, AtBoundary, GotTo
<1>2. CASE (\E d \in Drafts : Render(d)) \/ Discard \/ UNCHANGED labelVars
  BY <1>1, <1>2 DEF Render, Discard, labelVars
<1>3. ASSUME NEW system \in {"linux", "win32"}, PlugIn(system) PROVE StreamInv'
  <2>1. /\ platform = "none" /\ platform' = system
        /\ UNCHANGED <<step, offset, claim, printed, torn>>
    BY <1>3 DEF PlugIn
  <2>2. printed = <<>> /\ claim = Nobody /\ \A s \in Sender : step[s] = "ready"
    BY <2>1 DEF StreamInv
  <2>3. Stream(printed')
    BY <2>1, <2>2 DEF Stream
  <2> QED BY <2>1, <2>2, <2>3, PrintAssumption DEF StreamInv, AtBoundary
<1> QED BY <1>2, <1>3, StreamChoosing, StreamClaim, StreamChunk, StreamLast, StreamBreaks
        DEF LabelNext

\* Whatever commands compete for a printer on Linux, it is sent whole labels one
\* after the other until a job breaks off in the middle of one.
THEOREM LabelsStayWhole == Spec => []Unmixed
<1>1. LabelTypeOK /\ [Next]_vars => LabelTypeOK'
  BY LabelsBesideShell, LabelTypesKept
<1>2. LabelTypeOK /\ StreamInv /\ [Next]_vars => StreamInv'
  BY LabelsBesideShell, StreamKept
<1>3. Init => StreamInv
  BY DEF Init, LabelInit, StreamInv
<1>4. StreamInv => Unmixed
  BY DEF StreamInv, Stream, Unmixed
<1> QED BY LabelTypesInit, <1>1, <1>2, <1>3, <1>4, PTL DEF Spec

-----------------------------------------------------------------------------
(* Jobs in order *)

\* Each sender's bytes follow each other, up to its next chunk while it sends.
OrderInv ==
    /\ InOrder
    /\ \A s \in Sender :
          /\ step[s] \in {"ready", "open"} => offset[s] = 0
          /\ step[s] = "sending" => offset[s] = 0 \/ EndsWith(s, offset[s])

\* What n bytes more of s's job make of every sender's bytes.
LEMMA BytesExtended ==
    ASSUME LabelTypeOK, NEW s \in Sender, NEW n \in Nat, offset[s] + n <= Length, Takes(s, n)
    PROVE  LET k == Len(printed)
           IN  /\ k \in Nat
               /\ Bytes(s)' = Bytes(s) \cup (k + 1 .. k + n)
               /\ \A q \in Sender : q # s => Bytes(q)' = Bytes(q)
               /\ \A i \in 1 .. k : printed'[i] = printed[i]
               /\ \A i \in k + 1 .. k + n : printed'[i][2] = offset[s] + (i - k)
<1> DEFINE k == Len(printed)
<1>1. k \in Nat
  BY DEF LabelTypeOK
<1>2. /\ Len(printed') = k + n
      /\ \A i \in 1 .. k : printed'[i] = printed[i]
      /\ \A i \in k + 1 .. k + n : printed'[i] = <<s, offset[s] + (i - k)>>
  BY StreamExtended
<1> HIDE DEF k
<1>3. 1 .. k + n = (1 .. k) \cup (k + 1 .. k + n)
  BY <1>1
<1>4. \A q : Bytes(q) = {i \in 1 .. k : printed[i][1] = q}
  BY DEF Bytes, k
<1>5. \A q : Bytes(q)' = {i \in 1 .. k + n : printed'[i][1] = q}
  BY <1>2 DEF Bytes
<1>6. \A i \in k + 1 .. k + n : printed'[i][1] = s /\ printed'[i][2] = offset[s] + (i - k)
  BY <1>2
<1>7. Bytes(s)' = Bytes(s) \cup (k + 1 .. k + n)
  BY <1>2, <1>3, <1>4, <1>5, <1>6
<1>8. ASSUME NEW q \in Sender, q # s PROVE Bytes(q)' = Bytes(q)
  BY <1>2, <1>3, <1>4, <1>5, <1>6, <1>8
<1> QED BY <1>1, <1>2, <1>6, <1>7, <1>8 DEF k

\* The next bytes of a job go on where the last ones ended.
LEMMA JobGoesOn ==
    ASSUME LabelTypeOK, OrderInv, NEW s \in Sender, step[s] = "sending",
           NEW n \in Nat, offset[s] + n <= Length, Takes(s, n)
    PROVE  /\ \A q \in Sender : \A j \in Bytes(q)' :
                 \/ printed'[j][2] = 1
                 \/ \E i \in Bytes(q)' : NextOf(q, i, j)' /\ printed'[j][2] = printed'[i][2] + 1
           /\ \A m \in 1 .. Length : n > 0 /\ m = offset[s] + n => EndsWith(s, m)'
           /\ \A q \in Sender \ {s}, m \in 0 .. Length : EndsWith(q, m) => EndsWith(q, m)'
<1> DEFINE k == Len(printed)
           o == offset[s]
           after == printed'
<1>1. /\ k \in Nat /\ o \in 0 .. Length - 1 /\ Length \in Nat
  BY PrintAssumption DEF LabelTypeOK
<1>2. /\ Bytes(s)' = Bytes(s) \cup (k + 1 .. k + n)
      /\ \A q \in Sender : q # s => Bytes(q)' = Bytes(q)
      /\ \A i \in 1 .. k : after[i] = printed[i]
      /\ \A i \in k + 1 .. k + n : after[i][2] = o + (i - k)
  BY BytesExtended
<1>3. \A q : Bytes(q) \subseteq 1 .. k
  BY DEF Bytes
<1> HIDE DEF k, o, after
<1>4. ASSUME NEW q \in Sender, NEW j \in Bytes(q)'
      PROVE  \/ after[j][2] = 1
             \/ \E i \in Bytes(q)' : NextOf(q, i, j)' /\ after[j][2] = after[i][2] + 1
  <2>1. CASE j \in Bytes(q)
    <3>1. j \in 1 .. k /\ after[j] = printed[j]
      BY <1>2, <1>3, <2>1
    <3>2. CASE printed[j][2] = 1
      BY <3>1, <3>2
    <3>3. CASE \E i \in Bytes(q) : NextOf(q, i, j) /\ printed[j][2] = printed[i][2] + 1
      <4>1. PICK i \in Bytes(q) : NextOf(q, i, j) /\ printed[j][2] = printed[i][2] + 1
        BY <3>3
      <4>2. i \in Bytes(q)' /\ after[i] = printed[i]
        BY <1>2, <1>3
      <4>3. ASSUME NEW m \in Bytes(q)' PROVE m <= i \/ j <= m
        <5>1. CASE m \in Bytes(q)
          BY <4>1, <5>1 DEF NextOf
        <5>2. CASE m \in k + 1 .. k + n
          BY <1>1, <3>1, <5>2
        <5> QED BY <1>2, <5>1, <5>2
      <4>4. NextOf(q, i, j)'
        BY <4>1, <4>3 DEF NextOf
      <4> QED BY <3>1, <4>1, <4>2, <4>4
    <3> QED BY <2>1, <3>2, <3>3 DEF OrderInv, InOrder
  <2>2. CASE j \notin Bytes(q)
    <3>1. q = s /\ j \in k + 1 .. k + n /\ after[j][2] = o + (j - k)
      BY <1>2, <2>2
    <3>2. CASE j = k + 1 /\ o = 0
      BY <1>1, <3>1, <3>2
    <3>3. CASE j = k + 1 /\ o # 0
      <4>1. PICK i \in Bytes(s) : printed[i][2] = o /\ \A m \in Bytes(s) : m <= i
        BY <3>3 DEF OrderInv, EndsWith, o
      <4>2. i \in 1 .. k /\ after[i] = printed[i] /\ i \in Bytes(s)'
        BY <1>2, <1>3
      <4>3. ASSUME NEW m \in Bytes(s)' PROVE m <= i \/ j <= m
        BY <1>1, <1>2, <3>3, <4>1
      <4>4. i < j /\ after[j][2] = o + 1
        BY <1>1, <3>1, <3>3, <4>2
      <4>5. NextOf(s, i, j)'
        BY <4>3, <4>4 DEF NextOf
      <4> QED BY <3>1, <4>1, <4>2, <4>4, <4>5
    <3>4. CASE j # k + 1
      <4>1. /\ j - 1 \in k + 1 .. k + n /\ j - 1 \in Int
            /\ (j - 1) - k = (j - k) - 1 /\ j - k \in Int
        BY <1>1, <3>1, <3>4
      <4>2. j - 1 \in Bytes(s)' /\ after[j - 1][2] = o + ((j - 1) - k)
        BY <1>2, <4>1
      <4>3. after[j][2] = after[j - 1][2] + 1
        BY <1>1, <3>1, <4>1, <4>2
      <4>4. \A m \in Bytes(s)' : m <= j - 1 \/ j <= m
        <5>1. \A m \in Bytes(s)' : m \in Int
          BY <1>1, <1>2, <1>3
        <5> QED BY <5>1, <4>1, <3>1
      <4>5. NextOf(s, j - 1, j)'
        BY <3>1, <4>1, <4>4 DEF NextOf
      <4> QED BY <3>1, <4>2, <4>3, <4>5
    <3> QED BY <3>2, <3>3, <3>4
  <2> QED BY <2>1, <2>2
<1>5. ASSUME NEW m \in 1 .. Length, n > 0, m = o + n PROVE EndsWith(s, m)'
  <2>1. /\ k + n \in k + 1 .. k + n /\ (k + n) - k = n
    BY <1>1, <1>5
  <2>2. k + n \in Bytes(s)' /\ after[k + n][2] = m
    BY <1>2, <1>5, <2>1
  <2>3. \A i \in Bytes(s)' : i <= k + n
    BY <1>1, <1>2, <1>3
  <2> QED BY <2>2, <2>3 DEF EndsWith, after
<1>6. ASSUME NEW q \in Sender \ {s}, NEW m \in 0 .. Length, EndsWith(q, m) PROVE EndsWith(q, m)'
  <2>1. PICK j \in Bytes(q) : printed[j][2] = m /\ \A i \in Bytes(q) : i <= j
    BY <1>6 DEF EndsWith
  <2>2. Bytes(q)' = Bytes(q) /\ after[j] = printed[j]
    BY <1>2, <1>3
  <2> QED BY <2>1, <2>2 DEF EndsWith, after
<1> QED BY <1>4, <1>5, <1>6 DEF after, o

\* Steps that give the printer nothing.
LEMMA OrderUnmoved ==
    ASSUME OrderInv, printed' = printed,
           \A s \in Sender :
              /\ step'[s] = "printed" => step[s] = "printed"
              /\ step'[s] \in {"ready", "open"} => offset'[s] = 0
              /\ step'[s] = "sending" =>
                    offset'[s] = 0 \/ (offset'[s] = offset[s] /\ step[s] = "sending")
    PROVE  OrderInv'
<1>1. /\ \A s : Bytes(s)' = Bytes(s)
      /\ \A s, m : EndsWith(s, m)' <=> EndsWith(s, m)
      /\ \A s, i, j : NextOf(s, i, j)' <=> NextOf(s, i, j)
  BY DEF Bytes, EndsWith, NextOf
<1>2. InOrder'
  BY <1>1, PrintAssumption DEF OrderInv, InOrder
<1>3. ASSUME NEW s \in Sender, step'[s] = "sending", offset'[s] # 0
      PROVE  EndsWith(s, offset[s])'
  BY <1>1, <1>3 DEF OrderInv
<1> QED BY <1>2, <1>3 DEF OrderInv

\* Steps that give it n bytes more, and leave the sender where they ended.
LEMMA OrderGoesOn ==
    ASSUME LabelTypeOK, OrderInv, NEW s \in Sender, step[s] = "sending",
           NEW n \in Nat, offset[s] + n <= Length, Takes(s, n),
           \A q \in Sender : q # s => step'[q] = step[q] /\ offset'[q] = offset[q],
           step'[s] \in {"sending", "printed", "failed"},
           step'[s] = "sending" => n > 0 /\ offset'[s] = offset[s] + n,
           step'[s] = "printed" => n > 0 /\ offset[s] + n = Length
    PROVE  OrderInv'
<1>1. offset \in [Sender -> 0 .. Length - 1] /\ Length \in Nat \ {0}
  BY PrintAssumption DEF LabelTypeOK
<1> DEFINE e == offset[s] + n
<1>2. /\ \A q \in Sender : \A j \in Bytes(q)' :
            \/ printed'[j][2] = 1
            \/ \E i \in Bytes(q)' : NextOf(q, i, j)' /\ printed'[j][2] = printed'[i][2] + 1
      /\ \A m \in 1 .. Length : n > 0 /\ m = offset[s] + n => EndsWith(s, m)'
      /\ \A q \in Sender \ {s}, m \in 0 .. Length : EndsWith(q, m) => EndsWith(q, m)'
  BY JobGoesOn
<1>3. n > 0 => e \in 1 .. Length
  BY <1>1
<1>4. ASSUME NEW q \in Sender, step'[q] = "printed" PROVE EndsWith(q, Length)'
  <2>1. CASE q = s
    BY <1>1, <1>2, <1>4, <2>1
  <2>2. CASE q # s
    <3>1. EndsWith(q, Length)
      BY <1>4, <2>2 DEF OrderInv, InOrder
    <3> QED BY <1>1, <1>2, <2>2, <3>1
  <2> QED BY <2>1, <2>2
<1>5. ASSUME NEW q \in Sender, step'[q] = "sending", offset'[q] # 0
      PROVE  EndsWith(q, offset[q])'
  <2>1. CASE q = s
    <3>1. offset'[q] = offset[s] + n /\ offset'[q] \in 1 .. Length /\ n > 0
      BY <1>1, <1>3, <1>5, <2>1
    <3> QED BY <1>2, <2>1, <3>1
  <2>2. CASE q # s
    <3>1. offset'[q] = offset[q] /\ step[q] = "sending" /\ offset'[q] \in 0 .. Length
      BY <1>1, <1>5, <2>2
    <3>2. EndsWith(q, offset'[q])
      BY <1>5, <3>1 DEF OrderInv
    <3> QED BY <1>2, <2>2, <3>1, <3>2
  <2> QED BY <2>1, <2>2
<1>6. ASSUME NEW q \in Sender, step'[q] \in {"ready", "open"} PROVE offset'[q] = 0
  <2>1. q # s
    BY <1>6
  <2> QED BY <1>6, <2>1 DEF OrderInv
<1>7. InOrder'
  BY <1>2, <1>4 DEF InOrder
<1> QED BY <1>5, <1>6, <1>7 DEF OrderInv

LEMMA OrderKept ==
    ASSUME LabelTypeOK, OrderInv, [LabelNext]_labelVars PROVE OrderInv'
<1>t. step \in [Sender -> Done \cup {"open", "sending"}] /\ offset \in [Sender -> 0 .. Length - 1]
  BY DEF LabelTypeOK
<1>1. CASE UNCHANGED <<step, offset, printed>>
  BY <1>1, OrderUnmoved DEF OrderInv
<1>2. CASE (\E d \in Drafts : Render(d)) \/ Discard \/ UNCHANGED labelVars
  BY <1>1, <1>2 DEF Render, Discard, labelVars
<1>3. ASSUME NEW system \in {"linux", "win32"}, PlugIn(system) PROVE OrderInv'
  BY <1>1, <1>3 DEF PlugIn
<1>4. ASSUME NEW s \in Sender, NEW found, NEW b,
             \/ PrintLinux(s, found, b) \/ PrintWindows(s, found, b)
             \/ Claim(s) \/ ClaimFails(s)
      PROVE  OrderInv'
  <2>1. /\ printed' = printed /\ offset' = offset
        /\ step[s] \in {"ready", "open"} /\ step'[s] \in {"open", "sending", "failed"}
        /\ \A q \in Sender : q # s => step'[q] = step[q]
    BY <1>t, <1>4 DEF PrintLinux, PrintWindows, Claim, ClaimFails, Go
  <2>2. offset[s] = 0
    BY <2>1 DEF OrderInv
  <2>3. \A q \in Sender :
           /\ step'[q] = "printed" => step[q] = "printed"
           /\ step'[q] \in {"ready", "open"} => offset'[q] = 0
           /\ step'[q] = "sending" =>
                 offset'[q] = 0 \/ (offset'[q] = offset[q] /\ step[q] = "sending")
    BY <2>1, <2>2 DEF OrderInv
  <2> QED BY <2>1, <2>3, OrderUnmoved
<1>5. ASSUME NEW s \in Sender, WriteChunk(s) PROVE OrderInv'
  <2>1. /\ step[s] = "sending" /\ step' = step /\ Takes(s, ChunkBytes(s))
        /\ offset'[s] = offset[s] + ChunkBytes(s)
        /\ \A q \in Sender : q # s => offset'[q] = offset[q]
    BY <1>t, <1>5 DEF WriteChunk
  <2>2. ChunkBytes(s) \in Nat /\ ChunkBytes(s) > 0 /\ offset[s] + ChunkBytes(s) <= Length
    BY ChunkSize, PrintAssumption
  <2> QED BY <2>1, <2>2, OrderGoesOn
<1>6. ASSUME NEW s \in Sender, WriteLast(s) PROVE OrderInv'
  <2>1. /\ step[s] = "sending" /\ step'[s] = "printed" /\ Takes(s, ChunkBytes(s))
        /\ offset[s] + ChunkBytes(s) = Length /\ offset' = offset
        /\ \A q \in Sender : q # s => step'[q] = step[q]
    BY <1>t, <1>6 DEF WriteLast, Go
  <2>2. ChunkBytes(s) \in Nat /\ ChunkBytes(s) > 0 /\ offset[s] + ChunkBytes(s) <= Length
    BY ChunkSize, PrintAssumption
  <2> QED BY <2>1, <2>2, OrderGoesOn
<1>7. ASSUME NEW s \in Sender, NEW n \in 0 .. Chunk, JobBreaks(s, n) PROVE OrderInv'
  <2>1. /\ step[s] = "sending" /\ step'[s] = "failed" /\ Takes(s, n)
        /\ n <= ChunkBytes(s) /\ offset' = offset
        /\ \A q \in Sender : q # s => step'[q] = step[q]
    BY <1>t, <1>7 DEF JobBreaks, Go
  <2>2. n \in Nat /\ offset[s] + n <= Length
    BY <2>1, ChunkSize, PrintAssumption
  <2> QED BY <2>1, <2>2, OrderGoesOn
<1>8. ASSUME NEW s \in Sender, PrintAgain(s) PROVE OrderInv'
  <2>1. /\ printed' = printed /\ step'[s] = "ready" /\ offset'[s] = 0
        /\ \A q \in Sender : q # s => step'[q] = step[q] /\ offset'[q] = offset[q]
    BY <1>t, <1>8 DEF PrintAgain
  <2>2. \A q \in Sender :
           /\ step'[q] = "printed" => step[q] = "printed"
           /\ step'[q] \in {"ready", "open"} => offset'[q] = 0
           /\ step'[q] = "sending" =>
                 offset'[q] = 0 \/ (offset'[q] = offset[q] /\ step[q] = "sending")
    BY <2>1 DEF OrderInv
  <2> QED BY <2>1, <2>2, OrderUnmoved
<1> QED BY <1>2, <1>3, <1>4, <1>5, <1>6, <1>7, <1>8 DEF LabelNext

\* A job that is reported written is the one the printer has got, every byte in
\* its place, for every number of senders and every length of jobs and chunks;
\* on Linux, without those of others in between.
THEOREM JobsArrive == Spec => []JobsReachPrinter
<1>1. LabelTypeOK /\ [Next]_vars => LabelTypeOK'
  BY LabelsBesideShell, LabelTypesKept
<1>2. LabelTypeOK /\ OrderInv /\ [Next]_vars => OrderInv'
  BY LabelsBesideShell, OrderKept
<1>3. Init => OrderInv
  BY DEF Init, LabelInit, OrderInv, InOrder, Bytes
<1>4. OrderInv /\ Unmixed => JobsReachPrinter
  BY DEF OrderInv, JobsReachPrinter
<1> QED BY LabelTypesInit, LabelsStayWhole, <1>1, <1>2, <1>3, <1>4, PTL DEF Spec

-----------------------------------------------------------------------------
(* Induction over sets of numbers: finite sets are well-founded, and a     *)
(* number is the set of those up to it.                                    *)

\* Numbers have a least one.
LEMMA LeastNat ==
    ASSUME NEW T \in SUBSET Nat, T # {}
    PROVE  \E k \in T : \A m \in T : k <= m
<1>1. PICK n \in T : TRUE
  OBVIOUS
<1> DEFINE U == {k \in T : k <= n}
           F == {0 .. k : k \in U}
           R == StrictSubsetOrdering(0 .. n)
<1>2. n \in Nat
  OBVIOUS
<1>3. IsWellFoundedOn(R, FiniteSubsetsOf(0 .. n))
  BY FS_StrictSubsetOrderingWellFounded
<1>4. FiniteSubsetsOf(0 .. n) = SUBSET (0 .. n)
  <2>1. IsFiniteSet(0 .. n)
    BY <1>2, FS_Interval
  <2> QED BY <2>1, FS_FiniteSubsetsOfFinite
<1>5. F \subseteq SUBSET (0 .. n) /\ F # {}
  <2>1. \A k \in U : 0 .. k \in SUBSET (0 .. n)
    BY <1>2
  <2>2. n \in U
    BY <1>1, <1>2
  <2> QED BY <2>1, <2>2
<1>6. PICK x \in F : \A y \in F : ~(<<y, x>> \in R)
  <2>1. IsWellFoundedOn(R, SUBSET (0 .. n))
    BY <1>3, <1>4
  <2> HIDE DEF F, R
  <2> QED BY <1>5, <2>1, WFMin
<1>7. PICK k \in U : x = 0 .. k
  BY <1>6
<1>8. ASSUME NEW m \in U, m < k PROVE FALSE
  <2>1. 0 .. m \in F
    OBVIOUS
  <2>2. 0 .. m \subseteq 0 .. n /\ 0 .. k \subseteq 0 .. n
    BY <1>2
  <2>3. 0 .. m \subseteq 0 .. k /\ 0 .. m # 0 .. k
    BY <1>8
  <2>4. <<0 .. m, x>> \in R
    BY <2>2, <2>3, <1>7 DEF StrictSubsetOrdering
  <2> HIDE DEF F, R
  <2> QED BY <1>6, <2>1, <2>4
<1> QED BY <1>2, <1>7, <1>8

\* Induction: what holds of 0 and goes on to the next holds of every number.
LEMMA SetInduction ==
    ASSUME NEW S, 0 \in S, \A n \in Nat : n \in S => n + 1 \in S
    PROVE  Nat \subseteq S
<1> SUFFICES ASSUME Nat \ S # {} PROVE FALSE
  OBVIOUS
<1>1. PICK k \in Nat \ S : \A m \in Nat \ S : k <= m
  BY LeastNat
<1>2. k # 0 /\ k - 1 \in Nat
  OBVIOUS
<1>3. k - 1 \in S
  BY <1>1, <1>2
<1> QED BY <1>2, <1>3

\* The library's Max and Min are what they are called.
LEMMA MaxOf ==
    ASSUME NEW T \in SUBSET Nat, T # {}, NEW n \in Nat, \A t \in T : t <= n
    PROVE  Sets!Max(T) \in T /\ \A t \in T : t <= Sets!Max(T)
<1> DEFINE U == {n - t : t \in T}
<1>1. U \in SUBSET Nat /\ U # {}
  <2>1. \A t \in T : n - t \in Nat
    OBVIOUS
  <2> QED BY <2>1
<1>2. \E k \in U : \A m \in U : k <= m
  <2> HIDE DEF U
  <2> QED BY <1>1, LeastNat
<1>3. \E x \in T : \A t \in T : x >= t
  <2>1. PICK x \in T : \A m \in U : n - x <= m
    BY <1>2
  <2>2. \A t \in T : n - x <= n - t
    BY <2>1
  <2>3. \A t \in T : x >= t
    BY <2>2
  <2> QED BY <2>3
<1> QED BY <1>3 DEF Sets!Max

LEMMA MinOfThree ==
    ASSUME NEW a \in Int, NEW b \in Int, NEW c \in Int
    PROVE  Sets!Min({a, b, c}) \in {a, b, c} /\ \A t \in {a, b, c} : Sets!Min({a, b, c}) <= t
<1>1. \E x \in {a, b, c} : \A t \in {a, b, c} : x <= t
  OBVIOUS
<1> QED BY <1>1 DEF Sets!Min

\* The QR code lies within the label, whatever size was asked for.
LEMMA QrSizeFits ==
    ASSUME NEW width \in Nat, NEW height \in Nat, NEW asked \in Int, width >= 24, height >= 28
    PROVE  QrSize(width, height, asked) <= width /\ Margin + QrSize(width, height, asked) <= height
<1> DEFINE least == Sets!Min({asked, width - 2 * Margin, height - 56})
<1>1. Margin = 4
  BY DEF Margin
<1>2. least \in Int /\ least <= width - 8 /\ least <= height - 56
  <2>1. width - 2 * Margin \in Int /\ height - 56 \in Int
    BY <1>1
  <2>2. least \in {asked, width - 2 * Margin, height - 56}
        /\ \A t \in {asked, width - 2 * Margin, height - 56} : least <= t
    <3> DEFINE b == width - 2 * Margin
               c == height - 56
    <3>1. b \in Int /\ c \in Int
      BY <2>1
    <3> HIDE DEF b, c
    <3>2. Sets!Min({asked, b, c}) \in {asked, b, c}
          /\ \A t \in {asked, b, c} : Sets!Min({asked, b, c}) <= t
      BY <3>1, MinOfThree
    <3> QED BY <3>2 DEF b, c
  <2> HIDE DEF least
  <2> QED BY <1>1, <2>1, <2>2
<1> HIDE DEF least
<1>3. \E x \in {24, least} : \A t \in {24, least} : x >= t
  BY <1>2
<1>4. Sets!Max({24, least}) \in {24, least}
  BY <1>3 DEF Sets!Max
<1>5. QrSize(width, height, asked) \in {24, least}
  BY <1>4 DEF QrSize, least
<1> QED BY <1>1, <1>2, <1>5

-----------------------------------------------------------------------------
\* The recursion of Widths has a solution.
LEMMA WidthsSolve ==
    ASSUME NEW text \in Seq(Nat)
    PROVE  Widths(text) = [n \in 0 .. Len(text) |->
              IF n = 0 THEN 0 ELSE Widths(text)[n - 1] + CharWidth(text[n])]
<1> DEFINE Solves(f, m) ==
              f = [n \in 0 .. m |-> IF n = 0 THEN 0 ELSE f[n - 1] + CharWidth(text[n])]
           S == {m \in Nat : \E f : Solves(f, m)}
<1>1. 0 \in S
  <2> DEFINE f == [n \in 0 .. 0 |-> 0]
  <2>1. Solves(f, 0)
    OBVIOUS
  <2> QED BY <2>1
<1>2. ASSUME NEW m \in Nat, m \in S PROVE m + 1 \in S
  <2>1. PICK f : Solves(f, m)
    BY <1>2
  <2> DEFINE g == [n \in 0 .. m + 1 |-> IF n = 0 THEN 0 ELSE f[n - 1] + CharWidth(text[n])]
  <2>2. \A n \in 0 .. m : g[n] = f[n]
    <3> TAKE n \in 0 .. m
    <3>1. f[n] = IF n = 0 THEN 0 ELSE f[n - 1] + CharWidth(text[n])
      BY <2>1
    <3> QED BY <3>1
  <2>3. \A n \in 0 .. m + 1 : n # 0 => f[n - 1] = g[n - 1]
    <3> HIDE DEF g
    <3> QED BY <2>2
  <2>4. Solves(g, m + 1)
    BY <2>3
  <2> HIDE DEF Solves
  <2> QED BY <2>4
<1>3. Len(text) \in S
  <2> HIDE DEF S
  <2>1. Nat \subseteq S
    BY <1>1, <1>2, SetInduction
  <2> QED BY <2>1
<1>4. \E f : Solves(f, Len(text))
  BY <1>3
<1> HIDE DEF Solves
<1>5. Solves(CHOOSE f : Solves(f, Len(text)), Len(text))
  BY <1>4
<1>6. Widths(text) = CHOOSE f : Solves(f, Len(text))
  BY DEF Widths, Solves
<1>7. Solves(Widths(text), Len(text))
  BY <1>5, <1>6
<1> QED BY <1>7 DEF Solves

LEMMA WidthsStep ==
    ASSUME NEW text \in Seq(Nat)
    PROVE  /\ Widths(text)[0] = 0
           /\ \A n \in 1 .. Len(text) : Widths(text)[n] = Widths(text)[n - 1] + CharWidth(text[n])
<1> DEFINE W == Widths(text)
<1>1. W = [n \in 0 .. Len(text) |-> IF n = 0 THEN 0 ELSE W[n - 1] + CharWidth(text[n])]
  BY WidthsSolve
<1> HIDE DEF W
<1>2. \A n \in 0 .. Len(text) : W[n] = IF n = 0 THEN 0 ELSE W[n - 1] + CharWidth(text[n])
  BY <1>1
<1>3. Len(text) \in Nat
  OBVIOUS
<1>4. W[0] = 0 /\ \A n \in 1 .. Len(text) : W[n] = W[n - 1] + CharWidth(text[n])
  BY <1>2, <1>3
<1> QED BY <1>4 DEF W

\* The longer the part, the wider it is, by one or more for every character.
LEMMA WidthsGrow ==
    ASSUME NEW text \in Seq(Nat)
    PROVE  \A n \in 0 .. Len(text) :
              /\ Widths(text)[n] \in Nat /\ n <= Widths(text)[n]
              /\ \A k \in 0 .. n : Widths(text)[k] <= Widths(text)[n]
<1> DEFINE W == Widths(text)
           Grown(n) == W[n] \in Nat /\ n <= W[n] /\ \A k \in 0 .. n : W[k] \in Nat /\ W[k] <= W[n]
           S == {n \in Nat : n <= Len(text) => Grown(n)}
<1>1. W[0] = 0 /\ \A n \in 1 .. Len(text) : W[n] = W[n - 1] + CharWidth(text[n])
  BY WidthsStep
<1>2. \A n \in 1 .. Len(text) : CharWidth(text[n]) \in Nat /\ CharWidth(text[n]) >= 1
  BY DEF CharWidth, Space
<1> HIDE DEF W
<1>3. 0 \in S
  BY <1>1
<1>4. ASSUME NEW n \in Nat, n \in S PROVE n + 1 \in S
  <2> SUFFICES ASSUME n + 1 <= Len(text) PROVE Grown(n + 1)
    OBVIOUS
  <2>1. Grown(n)
    BY <1>4
  <2>2. W[n + 1] = W[n] + CharWidth(text[n + 1])
    BY <1>1
  <2>3. CharWidth(text[n + 1]) \in Nat /\ CharWidth(text[n + 1]) >= 1
    BY <1>2
  <2>4. W[n + 1] \in Nat /\ n + 1 <= W[n + 1] /\ W[n] <= W[n + 1]
    BY <2>1, <2>2, <2>3
  <2>5. \A k \in 0 .. n : W[k] \in Nat /\ W[k] <= W[n + 1]
    BY <2>1, <2>4
  <2> QED BY <2>4, <2>5
<1>5. Nat \subseteq S
  <2> HIDE DEF S
  <2> QED BY <1>3, <1>4, SetInduction
<1>6. \A n \in 0 .. Len(text) : Grown(n)
  BY <1>5
<1> QED BY <1>6 DEF W

\* The beginning of a text has the width counted up to its end.
LEMMA PrefixWidth ==
    ASSUME NEW text \in Seq(Nat), NEW k \in 0 .. Len(text)
    PROVE  TextWidth(SubSeq(text, 1, k)) = Widths(text)[k]
<1> DEFINE part == SubSeq(text, 1, k)
           W == Widths(text)
           V == Widths(part)
           S == {n \in Nat : n <= k => V[n] = W[n]}
<1>1. part \in Seq(Nat) /\ Len(part) = k /\ \A n \in 1 .. k : part[n] = text[n]
  BY SubSeqProperties
<1> HIDE DEF part
<1>2. W[0] = 0 /\ \A n \in 1 .. Len(text) : W[n] = W[n - 1] + CharWidth(text[n])
  BY WidthsStep
<1>3. V[0] = 0 /\ \A n \in 1 .. k : V[n] = V[n - 1] + CharWidth(part[n])
  BY <1>1, WidthsStep
<1> HIDE DEF W, V
<1>4. 0 \in S
  BY <1>2, <1>3
<1>5. ASSUME NEW n \in Nat, n \in S PROVE n + 1 \in S
  <2> SUFFICES ASSUME n + 1 <= k PROVE V[n + 1] = W[n + 1]
    OBVIOUS
  <2>1. n + 1 \in 1 .. k /\ n + 1 \in 1 .. Len(text) /\ (n + 1) - 1 = n
    OBVIOUS
  <2>2. W[n + 1] = W[n] + CharWidth(text[n + 1]) /\ V[n + 1] = V[n] + CharWidth(part[n + 1])
    BY <1>2, <1>3, <2>1
  <2> QED BY <1>1, <1>5, <2>1, <2>2
<1>6. Nat \subseteq S
  <2> HIDE DEF S
  <2> QED BY <1>4, <1>5, SetInduction
<1>7. V[k] = W[k]
  BY <1>6
<1> QED BY <1>1, <1>7 DEF TextWidth, V, W, part

-----------------------------------------------------------------------------
\* What is left of the first n characters without the spaces at the end.
Ink(text, n) ==
    LET inked == {i \in 1 .. n : text[i] # Space} IN IF inked = {} THEN 0 ELSE Sets!Max(inked)

LEMMA InkEnds ==
    ASSUME NEW text, NEW n \in Nat
    PROVE  /\ Ink(text, n) \in 0 .. n
           /\ Ink(text, n) # 0 => text[Ink(text, n)] # Space
           /\ \A i \in 1 .. n : text[i] # Space => i <= Ink(text, n)
<1> DEFINE inked == {i \in 1 .. n : text[i] # Space}
<1>1. CASE inked = {}
  <2>1. Ink(text, n) = 0
    BY <1>1 DEF Ink
  <2> QED BY <1>1, <2>1
<1>2. CASE inked # {}
  <2>1. Ink(text, n) = Sets!Max(inked)
    BY <1>2 DEF Ink
  <2>2. inked \in SUBSET Nat /\ \A i \in inked : i <= n
    OBVIOUS
  <2>3. Sets!Max(inked) \in inked /\ \A i \in inked : i <= Sets!Max(inked)
    <3> HIDE DEF inked
    <3> QED BY <1>2, <2>2, MaxOf
  <2> QED BY <2>1, <2>3
<1> QED BY <1>1, <1>2

LEMMA StrippedText ==
    ASSUME NEW text \in Seq(Nat), NEW n \in 0 .. Len(text)
    PROVE  Stripped(text, n) \in Seq(Nat)
<1>1. Ink(text, n) \in 0 .. Len(text)
  BY InkEnds
<1>2. Stripped(text, n) = SubSeq(text, 1, Ink(text, n))
  BY DEF Stripped, Ink
<1> QED BY <1>1, <1>2, SubSeqProperties

\* The longer the part, the wider it is without the spaces at its end.
LEMMA StrippedWidths ==
    ASSUME NEW text \in Seq(Nat), NEW m \in Nat, NEW n \in Nat, m <= n, n <= Len(text)
    PROVE  /\ TextWidth(Stripped(text, m)) \in Nat /\ TextWidth(Stripped(text, n)) \in Nat
           /\ TextWidth(Stripped(text, m)) <= TextWidth(Stripped(text, n))
           /\ text[1] # Space /\ 1 <= n => TextWidth(Stripped(text, n)) >= 1
<1>1. \A k \in 0 .. Len(text) :
         Ink(text, k) \in 0 .. k /\ TextWidth(Stripped(text, k)) = Widths(text)[Ink(text, k)]
  <2> TAKE k \in 0 .. Len(text)
  <2>1. Ink(text, k) \in 0 .. k /\ Ink(text, k) \in 0 .. Len(text)
    BY InkEnds
  <2>2. Stripped(text, k) = SubSeq(text, 1, Ink(text, k))
    BY DEF Stripped, Ink
  <2> QED BY <2>1, <2>2, PrefixWidth
<1>2. Ink(text, m) \in 0 .. m /\ Ink(text, n) \in 0 .. n /\ Ink(text, m) <= Ink(text, n)
  <2>1. Ink(text, m) \in 0 .. m /\ Ink(text, n) \in 0 .. n
    BY <1>1
  <2>2. CASE Ink(text, m) = 0
    BY <2>1, <2>2
  <2>3. CASE Ink(text, m) # 0
    <3>1. text[Ink(text, m)] # Space
      BY <2>3, InkEnds
    <3>2. Ink(text, m) \in 1 .. n
      BY <2>1, <2>3
    <3> QED BY <2>1, <3>1, <3>2, InkEnds
  <2> QED BY <2>2, <2>3, <2>1
<1>3. /\ Widths(text)[Ink(text, n)] \in Nat /\ Ink(text, n) <= Widths(text)[Ink(text, n)]
      /\ \A k \in 0 .. Ink(text, n) : Widths(text)[k] <= Widths(text)[Ink(text, n)]
  BY <1>2, WidthsGrow
<1>4. Widths(text)[Ink(text, m)] \in Nat
  BY <1>2, WidthsGrow
<1>5. Widths(text)[Ink(text, m)] <= Widths(text)[Ink(text, n)]
  BY <1>2, <1>3
<1>6. text[1] # Space /\ 1 <= n => Ink(text, n) >= 1
  BY InkEnds
<1>7. text[1] # Space /\ 1 <= n => Widths(text)[Ink(text, n)] >= 1
  BY <1>2, <1>3, <1>6
<1>8. /\ TextWidth(Stripped(text, m)) = Widths(text)[Ink(text, m)]
      /\ TextWidth(Stripped(text, n)) = Widths(text)[Ink(text, n)]
  BY <1>1
<1> QED BY <1>3, <1>4, <1>5, <1>7, <1>8

\* A text that ends in ink is stripped of nothing.
LEMMA WholeStripped ==
    ASSUME NEW text \in Seq(Nat), text # <<>>, text[Len(text)] # Space
    PROVE  TextWidth(Stripped(text, Len(text))) = TextWidth(text)
<1>1. Len(text) \in 1 .. Len(text)
  OBVIOUS
<1>2. Ink(text, Len(text)) = Len(text)
  BY <1>1, InkEnds
<1>3. Stripped(text, Len(text)) = SubSeq(text, 1, Ink(text, Len(text)))
  BY DEF Stripped, Ink
<1>4. Len(text) \in 0 .. Len(text)
  OBVIOUS
<1>5. TextWidth(SubSeq(text, 1, Len(text))) = Widths(text)[Len(text)]
  BY <1>4, PrefixWidth
<1> QED BY <1>2, <1>3, <1>5 DEF TextWidth

-----------------------------------------------------------------------------
LEMMA MiddleBetween ==
    ASSUME NEW low \in Nat, NEW high \in Nat, low < high
    PROVE  (low + high + 1) \div 2 \in low + 1 .. high
OBVIOUS

\* One round of the bisection, going on with f.
Half(text, available, f, low, high) ==
    LET middle == (low + high + 1) \div 2
    IN  IF low >= high THEN low
        ELSE IF Fits(text, middle, available) THEN f[<<middle, high>>]
        ELSE f[<<low, middle - 1>>]

\* What a half is does not depend on more of f than on shorter ranges.
LEMMA HalfShorter ==
    ASSUME NEW text \in Seq(Nat), NEW available, NEW f, NEW g,
           NEW low \in 0 .. Len(text), NEW high \in 0 .. Len(text),
           \A l, h \in 0 .. Len(text) : h - l < high - low => f[<<l, h>>] = g[<<l, h>>]
    PROVE  Half(text, available, f, low, high) = Half(text, available, g, low, high)
<1>1. CASE low >= high
  BY <1>1 DEF Half
<1>2. CASE low < high
  <2> DEFINE middle == (low + high + 1) \div 2
  <2>1. middle \in low + 1 .. high
    BY <1>2, MiddleBetween
  <2> HIDE DEF middle
  <2>2. /\ middle \in 0 .. Len(text) /\ middle - 1 \in 0 .. Len(text)
        /\ high - middle < high - low /\ (middle - 1) - low < high - low
    BY <2>1
  <2>3. f[<<middle, high>>] = g[<<middle, high>>] /\ f[<<low, middle - 1>>] = g[<<low, middle - 1>>]
    BY <2>2
  <2> QED BY <1>2, <2>3 DEF Half, middle
<1> QED BY <1>1, <1>2

\* The recursion of the bisection has a solution.
LEMMA SearchSolves ==
    ASSUME NEW text \in Seq(Nat), NEW available
    PROVE  \A low, high \in 0 .. Len(text) :
              Search(text, available)[<<low, high>>] =
                 Half(text, available, Search(text, available), low, high)
<1> DEFINE D == 0 .. Len(text)
           H(f, low, high) == Half(text, available, f, low, high)
           Round(f) == [r \in D \X D |-> H(f, r[1], r[2])]
           Agrees(f, d) == \A low, high \in D :
                              high - low <= d => f[<<low, high>>] = H(f, low, high)
           S == {d \in Nat : \E f : Agrees(f, d)}
<1>a. \A f : \A low, high \in D : Round(f)[<<low, high>>] = H(f, low, high)
  <2> HIDE DEF H
  <2> QED OBVIOUS
<1>b. \A f, d : d \in Nat /\ Agrees(f, d) => Agrees(Round(f), d + 1)
  <2> TAKE f, d
  <2> HAVE d \in Nat /\ Agrees(f, d)
  <2> DEFINE g == Round(f)
  <2>1. \A low, high \in D : g[<<low, high>>] = H(f, low, high)
    BY <1>a
  <2> HIDE DEF g
  <2>2. \A low, high \in D : high - low < d + 1 => f[<<low, high>>] = g[<<low, high>>]
    BY <2>1
  <2>3. \A low, high \in D : high - low <= d + 1 => H(f, low, high) = H(g, low, high)
    <3> SUFFICES ASSUME NEW low \in D, NEW high \in D, high - low <= d + 1
                 PROVE  Half(text, available, f, low, high) = Half(text, available, g, low, high)
      OBVIOUS
    <3>1. \A l, h \in D : h - l < high - low => f[<<l, h>>] = g[<<l, h>>]
      BY <2>2
    <3> QED BY <3>1, HalfShorter
  <2>4. Agrees(g, d + 1)
    BY <2>1, <2>3
  <2> HIDE DEF Agrees
  <2> QED BY <2>4 DEF g
<1>1. 0 \in S
  <2> DEFINE f == [r \in D \X D |-> r[1]]
  <2>1. Agrees(f, 0)
    BY DEF Half
  <2> HIDE DEF Agrees
  <2> QED BY <2>1
<1>2. ASSUME NEW d \in Nat, d \in S PROVE d + 1 \in S
  <2>1. PICK f : Agrees(f, d)
    BY <1>2
  <2>2. Agrees(Round(f), d + 1)
    BY <1>b, <2>1
  <2> HIDE DEF Agrees, Round
  <2> QED BY <2>2
<1>3. Len(text) \in S
  <2> HIDE DEF S
  <2>1. Nat \subseteq S
    BY <1>1, <1>2, SetInduction
  <2> QED BY <2>1
<1> DEFINE Solves(f) == f = Round(f)
<1>4. \E f : Solves(f)
  <2>1. PICK f : Agrees(f, Len(text))
    BY <1>3
  <2> DEFINE g == Round(f)
  <2>2. \A low, high \in D : g[<<low, high>>] = f[<<low, high>>]
    <3>1. \A low, high \in D : high - low <= Len(text)
      OBVIOUS
    <3>2. \A low, high \in D : g[<<low, high>>] = H(f, low, high)
      BY <1>a
    <3> HIDE DEF H, g
    <3> QED BY <2>1, <3>1, <3>2
  <2>3. \A r \in D \X D : H(f, r[1], r[2]) = H(g, r[1], r[2])
    <3> HIDE DEF g
    <3>3. \A low, high \in D : H(f, low, high) = H(g, low, high)
      <4> SUFFICES ASSUME NEW low \in D, NEW high \in D
                   PROVE  Half(text, available, f, low, high) = Half(text, available, g, low, high)
        OBVIOUS
      <4>1. \A l, h \in D : h - l < high - low => f[<<l, h>>] = g[<<l, h>>]
        BY <2>2
      <4> QED BY <4>1, HalfShorter
    <3> HIDE DEF H
    <3> QED BY <3>3
  <2>4. g = Round(g)
    <3> HIDE DEF H
    <3> QED BY <2>3
  <2> HIDE DEF g, Round
  <2> QED BY <2>4
<1> HIDE DEF Solves
<1>5. Solves(CHOOSE f : Solves(f))
  BY <1>4
<1>6. Search(text, available) = CHOOSE f : Solves(f)
  BY DEF Search, Solves, Half
<1>7. Search(text, available) = Round(Search(text, available))
  BY <1>5, <1>6 DEF Solves
<1> HIDE DEF Round, H
<1>8. \A low, high \in D :
         Search(text, available)[<<low, high>>] = H(Search(text, available), low, high)
  BY <1>7, <1>a
<1> QED BY <1>8 DEF H

\* The bisection ends at the last part before one that is too wide, whatever
\* is too wide.
LEMMA SearchFinds ==
    ASSUME NEW text \in Seq(Nat), NEW available
    PROVE  \A low, high \in 0 .. Len(text) : low <= high =>
              LET n == Search(text, available)[<<low, high>>]
              IN  /\ n \in low .. high
                  /\ n = low \/ Fits(text, n, available)
                  /\ n = high \/ ~Fits(text, n + 1, available)
<1> DEFINE D == 0 .. Len(text)
           s == Search(text, available)
           F(n) == Fits(text, n, available)
           Found(low, high) == /\ s[<<low, high>>] \in low .. high
                               /\ s[<<low, high>>] = low \/ F(s[<<low, high>>])
                               /\ s[<<low, high>>] = high \/ ~F(s[<<low, high>>] + 1)
           S == {d \in Nat : \A low, high \in D :
                                low <= high /\ high - low <= d => Found(low, high)}
<1>1. \A low, high \in D : s[<<low, high>>] = Half(text, available, s, low, high)
  BY SearchSolves
<1> HIDE DEF s
<1>2. \A low, high \in D : low = high => Found(low, high)
  <2> TAKE low, high \in D
  <2> HAVE low = high
  <2>1. s[<<low, high>>] = Half(text, available, s, low, high) /\ low >= high
    BY <1>1
  <2>2. s[<<low, high>>] = low
    BY <2>1 DEF Half
  <2> QED BY <2>2
<1>3. 0 \in S
  <2> HIDE DEF Found
  <2>1. \A low, high \in D : low <= high /\ high - low <= 0 => low = high
    OBVIOUS
  <2> QED BY <1>2, <2>1
<1>4. ASSUME NEW d \in Nat, d \in S PROVE d + 1 \in S
  <2> SUFFICES ASSUME NEW low \in D, NEW high \in D, low < high, high - low <= d + 1
               PROVE  Found(low, high)
    <3> HIDE DEF Found
    <3>1. \A low, high \in D : low <= high => low = high \/ low < high
      OBVIOUS
    <3> QED BY <1>2, <3>1
  <2> DEFINE middle == (low + high + 1) \div 2
  <2>1. middle \in low + 1 .. high
    BY MiddleBetween
  <2>2. s[<<low, high>>] = IF F(middle) THEN s[<<middle, high>>] ELSE s[<<low, middle - 1>>]
    <3>1. s[<<low, high>>] = Half(text, available, s, low, high)
      BY <1>1
    <3>2. ~(low >= high)
      OBVIOUS
    <3> QED BY <3>1, <3>2 DEF Half
  <2> HIDE DEF middle
  <2>3. middle \in D /\ middle <= high /\ high - middle <= d
    BY <2>1
  <2>4. middle - 1 \in D /\ low <= middle - 1 /\ (middle - 1) - low <= d
    BY <2>1
  <2>5. Found(middle, high)
    <3> HIDE DEF Found
    <3> QED BY <1>4, <2>3
  <2>6. Found(low, middle - 1)
    <3> DEFINE m == middle - 1
    <3>1. m \in D /\ low <= m /\ m - low <= d
      BY <2>4
    <3> HIDE DEF Found, m
    <3>2. Found(low, m)
      BY <1>4, <3>1
    <3> QED BY <3>2 DEF m
  <2> HIDE DEF F
  <2>7. CASE F(middle)
    <3>1. s[<<low, high>>] = s[<<middle, high>>]
      BY <2>2, <2>7
    <3> QED BY <2>1, <2>5, <2>7, <3>1
  <2>8. CASE ~F(middle)
    <3>1. s[<<low, high>>] = s[<<low, middle - 1>>]
      BY <2>2, <2>8
    <3>2. (middle - 1) + 1 = middle
      BY <2>1
    <3> QED BY <2>1, <2>6, <2>8, <3>1, <3>2
  <2> QED BY <2>7, <2>8
<1>5. Nat \subseteq S
  <2> HIDE DEF S
  <2> QED BY <1>3, <1>4, SetInduction
<1>6. Len(text) \in S /\ \A low, high \in D : high - low <= Len(text)
  <2> HIDE DEF S
  <2> QED BY <1>5
<1>7. \A low, high \in D : low <= high => Found(low, high)
  <2> HIDE DEF Found
  <2> QED BY <1>6
<1> QED BY <1>7 DEF s

LEMMA DotsWidth == TextWidth(Dots) \in Nat
<1>1. Dots \in Seq(Nat) /\ Len(Dots) \in 0 .. Len(Dots)
  BY DEF Dots
<1>2. Widths(Dots)[Len(Dots)] \in Nat
  BY <1>1, WidthsGrow
<1> QED BY <1>2 DEF TextWidth

\* Two texts one after the other are as wide as both.
LEMMA JoinedWidth ==
    ASSUME NEW left \in Seq(Nat), NEW right \in Seq(Nat)
    PROVE  TextWidth(left \o right) = TextWidth(left) + TextWidth(right)
<1> DEFINE both == left \o right
           k == Len(left)
           V == Widths(both)
           W == Widths(right)
           S == {n \in Nat : n <= Len(right) => V[k + n] = V[k] + W[n]}
<1>1. /\ both \in Seq(Nat) /\ k \in Nat /\ Len(right) \in Nat /\ Len(both) = k + Len(right)
      /\ k \in 0 .. Len(both) /\ Len(both) \in 0 .. Len(both)
  OBVIOUS
<1>2. \A n \in 1 .. Len(right) : both[k + n] = right[n]
  OBVIOUS
<1>3. SubSeq(both, 1, k) = left
  <2>1. SubSeq(both, 1, k) \in Seq(Nat) /\ Len(SubSeq(both, 1, k)) = k
    BY <1>1, SubSeqProperties
  <2>2. \A i \in 1 .. k : SubSeq(both, 1, k)[i] = left[i]
    BY <1>1, SubSeqProperties
  <2> QED BY <2>1, <2>2, SeqEqual
<1>4. V[k] = TextWidth(left)
  BY <1>1, <1>3, PrefixWidth
<1> HIDE DEF both
<1>5. \A n \in 1 .. Len(both) : V[n] = V[n - 1] + CharWidth(both[n])
  BY <1>1, WidthsStep
<1>6. W[0] = 0 /\ \A n \in 1 .. Len(right) : W[n] = W[n - 1] + CharWidth(right[n])
  BY WidthsStep
<1>7. \A n \in 0 .. Len(both) : V[n] \in Nat
  BY <1>1, WidthsGrow
<1>8. \A n \in 0 .. Len(right) : W[n] \in Nat
  BY WidthsGrow
<1>9. \A n \in 1 .. Len(right) : CharWidth(right[n]) \in Nat
  BY DEF CharWidth, Space
<1> HIDE DEF V, W, k
<1>10. 0 \in S
  BY <1>1, <1>6, <1>7
<1>11. ASSUME NEW n \in Nat, n \in S PROVE n + 1 \in S
  <2> SUFFICES ASSUME n + 1 <= Len(right) PROVE V[k + (n + 1)] = V[k] + W[n + 1]
    OBVIOUS
  <2>1. V[k + n] = V[k] + W[n]
    BY <1>1, <1>11
  <2>2. /\ k + (n + 1) \in 1 .. Len(both) /\ (k + (n + 1)) - 1 = k + n
        /\ n + 1 \in 1 .. Len(right) /\ (n + 1) - 1 = n /\ n \in 0 .. Len(right)
    BY <1>1
  <2>3. V[k + (n + 1)] = V[k + n] + CharWidth(right[n + 1])
    BY <1>2, <1>5, <2>2
  <2>4. W[n + 1] = W[n] + CharWidth(right[n + 1])
    BY <1>6, <2>2
  <2>5. V[k] \in Nat /\ W[n] \in Nat /\ CharWidth(right[n + 1]) \in Nat
    BY <1>1, <1>7, <1>8, <1>9, <2>2
  <2> QED BY <2>1, <2>3, <2>4, <2>5
<1>12. Nat \subseteq S
  <2> HIDE DEF S
  <2> QED BY <1>10, <1>11, SetInduction
<1>13. V[Len(both)] = V[k] + W[Len(right)]
  BY <1>1, <1>12
<1> QED BY <1>4, <1>13 DEF TextWidth, V, W, both

\* What a text is cut to fits, with the dots, and is the longest part of it
\* that leaves room for them.
LEMMA TruncatedLongest ==
    ASSUME NEW text \in Seq(Nat), text # <<>>, text[1] # Space, text[Len(text)] # Space,
           NEW width \in Int
    PROVE  LET shown     == Truncated(text, width)
               available == width - TextWidth(Dots)
               Longer(n) == {m \in n + 1 .. Len(text) : Fits(text, m, available)}
           IN  \/ shown = <<>> /\ Longer(0) = {}
               \/ /\ TextWidth(shown) <= width
                  /\ \/ shown = text
                     \/ \E n \in Longer(0) :
                           shown = Stripped(text, n) \o Dots /\ Longer(n) = {}
<1> DEFINE available == width - TextWidth(Dots)
           kept == Search(text, available)[<<0, Len(text)>>]
           F(n) == Fits(text, n, available)
<1>1. available \in Int /\ available <= width /\ Len(text) \in Nat /\ Len(text) >= 1
  BY DotsWidth
<1>2. \A m, n \in 0 .. Len(text) : m <= n =>
         /\ TextWidth(Stripped(text, m)) \in Nat /\ TextWidth(Stripped(text, n)) \in Nat
         /\ TextWidth(Stripped(text, m)) <= TextWidth(Stripped(text, n))
         /\ 1 <= n => TextWidth(Stripped(text, n)) >= 1
  BY StrippedWidths
<1>3. CASE TextWidth(text) <= width
  BY <1>3 DEF Truncated
<1>4. CASE ~(TextWidth(text) <= width)
  <2>1. kept \in 0 .. Len(text) /\ (kept = 0 \/ F(kept)) /\ (kept = Len(text) \/ ~F(kept + 1))
    <3> HIDE DEF available
    <3>1. 0 \in 0 .. Len(text) /\ Len(text) \in 0 .. Len(text) /\ 0 <= Len(text)
      BY <1>1
    <3> QED BY <3>1, SearchFinds
  <2>2. ~F(Len(text))
    <3>1. TextWidth(Stripped(text, Len(text))) = TextWidth(text)
      BY WholeStripped
    <3>2. TextWidth(text) \in Nat
      BY <1>1, <1>2, <3>1
    <3> QED BY <1>1, <1>4, <3>1, <3>2 DEF Fits
  <2>3. Truncated(text, width) =
           IF available <= 0 \/ kept = 0 THEN <<>> ELSE Stripped(text, kept) \o Dots
    BY <1>4 DEF Truncated
  <2> HIDE DEF kept, available
  <2>4. kept + 1 \in 1 .. Len(text) /\ ~F(kept + 1)
    BY <2>1, <2>2
  <2>5. \A m \in kept + 1 .. Len(text) : ~F(m)
    <3> TAKE m \in kept + 1 .. Len(text)
    <3>1. /\ TextWidth(Stripped(text, kept + 1)) \in Nat /\ TextWidth(Stripped(text, m)) \in Nat
          /\ TextWidth(Stripped(text, kept + 1)) <= TextWidth(Stripped(text, m))
      BY <1>2, <2>4
    <3> QED BY <1>1, <2>4, <3>1 DEF Fits
  <2>6. available <= 0 => \A m \in 1 .. Len(text) : ~F(m)
    BY <1>1, <1>2 DEF Fits
  <2>7. CASE available <= 0 \/ kept = 0
    <3>1. Truncated(text, width) = <<>>
      BY <2>3, <2>7
    <3>2. \A m \in 0 + 1 .. Len(text) : ~F(m)
      BY <2>5, <2>6, <2>7
    <3> QED BY <3>1, <3>2 DEF available
  <2>8. CASE ~(available <= 0 \/ kept = 0)
    <3>1. Truncated(text, width) = Stripped(text, kept) \o Dots
      BY <2>3, <2>8
    <3>2. kept \in 0 + 1 .. Len(text) /\ F(kept)
      BY <2>1, <2>8
    <3>3. TextWidth(Truncated(text, width)) <= width
      <4>1. Stripped(text, kept) \in Seq(Nat) /\ Dots \in Seq(Nat)
        BY <2>1, StrippedText DEF Dots
      <4>2. TextWidth(Truncated(text, width)) = TextWidth(Stripped(text, kept)) + TextWidth(Dots)
        BY <3>1, <4>1, JoinedWidth
      <4>3. TextWidth(Stripped(text, kept)) \in Nat
        BY <1>2, <2>1
      <4>4. TextWidth(Stripped(text, kept)) <= available
        BY <3>2 DEF Fits
      <4> QED BY <4>2, <4>3, <4>4, DotsWidth DEF available
    <3> QED BY <2>5, <3>1, <3>2, <3>3 DEF available
  <2> QED BY <2>7, <2>8
<1> QED BY <1>3, <1>4

-----------------------------------------------------------------------------
LEMMA DivMod ==
    ASSUME NEW n \in Nat, n > 0, NEW q \in Nat, NEW r \in 0 .. n - 1
    PROVE  (q * n + r) \div n = q /\ (q * n + r) % n = r
<1> DEFINE a == q * n + r
           d == a \div n
           m == a % n
<1>1. a \in Nat
  OBVIOUS
<1> HIDE DEF a
<1>2. d \in Int /\ m \in 0 .. n - 1 /\ a = n * d + m
  BY <1>1
<1> HIDE DEF d, m
<1>3. n * d + m = n * q + r
  BY <1>2 DEF a
<1>4. ~(d >= q + 1)
  <2> SUFFICES ASSUME d >= q + 1 PROVE FALSE
    OBVIOUS
  <2>1. n * d >= n * (q + 1)
    BY <1>2
  <2>2. n * (q + 1) = n * q + n
    OBVIOUS
  <2> QED BY <1>2, <1>3, <2>1, <2>2
<1>5. ~(q >= d + 1)
  <2> SUFFICES ASSUME q >= d + 1 PROVE FALSE
    OBVIOUS
  <2>1. n * q >= n * (d + 1)
    BY <1>2
  <2>2. n * (d + 1) = n * d + n
    BY <1>2
  <2> QED BY <1>2, <1>3, <2>1, <2>2
<1>6. d = q
  BY <1>2, <1>4, <1>5
<1>7. m = r
  BY <1>2, <1>3, <1>6
<1> QED BY <1>6, <1>7 DEF a, d, m

\* Two bytes hold a size below 65536.
LEMMA SizeReadsBack ==
    ASSUME NEW width \in Nat, NEW height \in Nat, LineBytes(width) < 65536, height < 65536
    PROVE  /\ PrinterLine(SizeBytes(width, height)) = LineBytes(width)
           /\ PrinterHeight(SizeBytes(width, height)) = height
<1>1. LineBytes(width) \in Nat
  BY DEF LineBytes
<1>2. \A a \in Nat : a < 65536 => (a % 256) + 256 * ((a \div 256) % 256) = a
  OBVIOUS
<1> QED BY <1>1, <1>2 DEF PrinterLine, PrinterHeight, SizeBytes

\* Every bit of a byte is the one that was put in.
LEMMA BitsReadBack ==
    ASSUME NEW image, NEW x \in Nat, NEW y
    PROVE  (RasterByte(image, x \div 8, y) \div Mask(x % 8)) % 2 = 1 <=> <<x, y>> \in image.black
<1> DEFINE column == x \div 8
           b == x % 8
<1>a. column \in Nat /\ b \in 0 .. 7 /\ 8 * column + b = x
  OBVIOUS
<1> HIDE DEF column, b
<1> DEFINE Bit(i) == IF <<8 * column + i, y>> \in image.black THEN 1 ELSE 0
<1>1. \A i \in 0 .. 7 : Bit(i) \in {0, 1} /\ (Bit(i) = 1 <=> <<8 * column + i, y>> \in image.black)
  OBVIOUS
<1>2. RasterByte(image, column, y) =
         128 * Bit(0) + 64 * Bit(1) + 32 * Bit(2) + 16 * Bit(3)
         + 8 * Bit(4) + 4 * Bit(5) + 2 * Bit(6) + Bit(7)
  BY DEF RasterByte, Mask
<1> HIDE DEF Bit
<1>3. \A b0, b1, b2, b3, b4, b5, b6, b7 \in {0, 1} :
         LET byte == 128 * b0 + 64 * b1 + 32 * b2 + 16 * b3 + 8 * b4 + 4 * b5 + 2 * b6 + b7
         IN  /\ (byte \div 128) % 2 = b0 /\ (byte \div 64) % 2 = b1
             /\ (byte \div 32) % 2 = b2 /\ (byte \div 16) % 2 = b3
             /\ (byte \div 8) % 2 = b4 /\ (byte \div 4) % 2 = b5
             /\ (byte \div 2) % 2 = b6 /\ (byte \div 1) % 2 = b7
  OBVIOUS
<1>4. (RasterByte(image, column, y) \div Mask(b)) % 2 = Bit(b)
  <2> DEFINE byte == RasterByte(image, column, y)
  <2>1. /\ (byte \div 128) % 2 = Bit(0) /\ (byte \div 64) % 2 = Bit(1)
        /\ (byte \div 32) % 2 = Bit(2) /\ (byte \div 16) % 2 = Bit(3)
        /\ (byte \div 8) % 2 = Bit(4) /\ (byte \div 4) % 2 = Bit(5)
        /\ (byte \div 2) % 2 = Bit(6) /\ (byte \div 1) % 2 = Bit(7)
    BY <1>1, <1>2, <1>3
  <2> HIDE DEF byte
  <2>2. b \in {0, 1, 2, 3, 4, 5, 6, 7}
    BY <1>a
  <2>3. /\ Mask(0) = 128 /\ Mask(1) = 64 /\ Mask(2) = 32 /\ Mask(3) = 16
        /\ Mask(4) = 8 /\ Mask(5) = 4 /\ Mask(6) = 2 /\ Mask(7) = 1
    BY DEF Mask
  <2> HIDE DEF Bit
  <2>4. \A i \in {0, 1, 2, 3, 4, 5, 6, 7} : (byte \div Mask(i)) % 2 = Bit(i)
    BY <2>1, <2>3, Zenon
  <2> QED BY <2>2, <2>4 DEF byte
<1>5. (RasterByte(image, column, y) \div Mask(b)) % 2 = 1 <=> <<x, y>> \in image.black
  BY <1>a, <1>1, <1>4
<1> QED BY <1>5 DEF column, b

\* Where the raster's bytes lie in the job.
LEMMA JobBytes ==
    ASSUME NEW image, LineBytes(image.width) \in Nat \ {0}, image.height \in Nat
    PROVE  LET line == LineBytes(image.width)
           IN  /\ \A i \in 1 .. 4 : Job(image)[i] = SizeBytes(image.width, image.height)[i]
               /\ \A column \in 0 .. line - 1, y \in 0 .. image.height - 1 :
                     Job(image)[5 + y * line + column] = RasterByte(image, column, y)
<1> DEFINE line == LineBytes(image.width)
           height == image.height
           size == SizeBytes(image.width, height)
           bytes == Raster(image)
           B == {RasterByte(image, (i - 1) % line, (i - 1) \div line) : i \in 1 .. line * height}
<1>1. line \in Nat \ {0} /\ height \in Nat
  OBVIOUS
<1>2. size \in Seq(Int) /\ Len(size) = 4
  <2>1. line % 256 \in Int /\ (line \div 256) % 256 \in Int
        /\ height % 256 \in Int /\ (height \div 256) % 256 \in Int
    BY <1>1
  <2> HIDE DEF line, height
  <2>2. size = <<line % 256, (line \div 256) % 256, height % 256, (height \div 256) % 256>>
    BY DEF SizeBytes, line, height
  <2> QED BY <2>1, <2>2
<1>3. bytes = [i \in 1 .. line * height |-> RasterByte(image, (i - 1) % line, (i - 1) \div line)]
  BY DEF Raster
<1> HIDE DEF line, height, size, bytes
<1>4. line * height \in Nat
  BY <1>1
<1>5. bytes \in Seq(B) /\ Len(bytes) = line * height
  <2>1. bytes \in [1 .. line * height -> B]
    BY <1>3
  <2> HIDE DEF B
  <2> QED BY <1>4, <2>1, IsASeq, LenProperties
<1>6. Job(image) = size \o bytes
  BY DEF Job, size, bytes, height
<1>7. \A i \in 1 .. Len(size) + Len(bytes) :
         (size \o bytes)[i] = IF i <= Len(size) THEN size[i] ELSE bytes[i - Len(size)]
  <2> HIDE DEF B
  <2>1. size \in Seq(Int \cup B) /\ bytes \in Seq(Int \cup B)
    BY <1>2, <1>5
  <2> QED BY <2>1, ConcatProperties
<1>8. \A i \in 1 .. 4 : Job(image)[i] = size[i]
  <2>1. \A i \in 1 .. 4 : i \in 1 .. Len(size) + Len(bytes) /\ i <= Len(size)
    BY <1>2, <1>4, <1>5
  <2> HIDE DEF B
  <2> QED BY <1>6, <1>7, <2>1
<1>9. ASSUME NEW column \in 0 .. line - 1, NEW y \in 0 .. height - 1
      PROVE  Job(image)[5 + y * line + column] = RasterByte(image, column, y)
  <2> DEFINE k == y * line + column
  <2>1. k \in Nat /\ k < line * height
    <3>1. y \in Nat /\ column \in Nat /\ y * line \in Nat
      BY <1>1
    <3>2. (y + 1) * line <= height * line
      BY <1>1
    <3>3. (y + 1) * line = y * line + line
      BY <1>1
    <3> QED BY <1>1, <3>1, <3>2, <3>3
  <2>2. k \div line = y /\ k % line = column
    BY <1>1, DivMod
  <2>3. bytes[k + 1] = RasterByte(image, k % line, k \div line)
    <3> HIDE DEF k
    <3>1. k + 1 \in 1 .. line * height /\ (k + 1) - 1 = k
      BY <1>4, <2>1
    <3> QED BY <1>3, <3>1
  <2>4. 5 + y * line + column = 5 + k
    BY <1>1
  <2> HIDE DEF k
  <2>5. /\ 5 + k \in 1 .. Len(size) + Len(bytes) /\ ~(5 + k <= Len(size))
        /\ (5 + k) - Len(size) = k + 1
    BY <1>2, <1>4, <1>5, <2>1
  <2>6. Job(image)[5 + k] = bytes[k + 1]
    BY <1>6, <1>7, <2>5
  <2> QED BY <2>2, <2>3, <2>4, <2>6
<1> QED BY <1>8, <1>9 DEF line, height, size

\* The printer reads the picture that was drawn.
LEMMA ImageReadsBack ==
    ASSUME NEW image, image.width \in Nat \ {0}, image.width % 8 = 0, image.height \in Nat \ {0},
           image.black \subseteq (0 .. image.width - 1) \X (0 .. image.height - 1),
           LineBytes(image.width) < 65536, image.height < 65536
    PROVE  Printed(Job(image)) = image.black
<1> DEFINE line == LineBytes(image.width)
           height == image.height
           job == Job(image)
           Dot(p) == (job[5 + p[2] * line + p[1] \div 8] \div Mask(p[1] % 8)) % 2 = 1
<1>1. line \in Nat \ {0} /\ 8 * line = image.width /\ height \in Nat
  BY DEF LineBytes
<1>2. /\ \A i \in 1 .. 4 : job[i] = SizeBytes(image.width, image.height)[i]
      /\ \A column \in 0 .. line - 1, y \in 0 .. height - 1 :
            job[5 + y * line + column] = RasterByte(image, column, y)
  BY <1>1, JobBytes
<1>3. PrinterLine(job) = line /\ PrinterHeight(job) = height
  <2>1. /\ PrinterLine(SizeBytes(image.width, image.height)) = line
        /\ PrinterHeight(SizeBytes(image.width, image.height)) = height
    BY <1>1, SizeReadsBack
  <2> HIDE DEF job, line, height
  <2> QED BY <1>2, <2>1 DEF PrinterLine, PrinterHeight
<1>4. Printed(job) = {p \in (0 .. 8 * line - 1) \X (0 .. height - 1) : Dot(p)}
  <2> HIDE DEF job, line, height
  <2> QED BY <1>3 DEF Printed
<1>5. ASSUME NEW x \in 0 .. 8 * line - 1, NEW y \in 0 .. height - 1
      PROVE  Dot(<<x, y>>) <=> <<x, y>> \in image.black
  <2> HIDE DEF job, line, height
  <2>1. x \div 8 \in 0 .. line - 1 /\ x \in Nat
    BY <1>1
  <2>2. job[5 + y * line + x \div 8] = RasterByte(image, x \div 8, y)
    BY <1>2, <2>1
  <2>3. Dot(<<x, y>>) <=> (RasterByte(image, x \div 8, y) \div Mask(x % 8)) % 2 = 1
    BY <2>2
  <2>4. (RasterByte(image, x \div 8, y) \div Mask(x % 8)) % 2 = 1 <=> <<x, y>> \in image.black
    BY <2>1, BitsReadBack
  <2> HIDE DEF Dot
  <2> QED BY <2>3, <2>4
<1>6. image.black \subseteq (0 .. 8 * line - 1) \X (0 .. height - 1)
  BY <1>1
<1>7. {p \in (0 .. 8 * line - 1) \X (0 .. height - 1) : Dot(p)} = image.black
  <2> HIDE DEF job, line, height, Dot
  <2> QED BY <1>5, <1>6
<1> QED BY <1>4, <1>7 DEF job

LEMMA RenderedRight == LabelTypeOK => LabelRendered
<1>a. draft = Nobody => QrInside /\ TextFits /\ JobReadsBack
  <2>1. draft = Nobody => QrInside
    BY Zenon DEF QrInside
  <2>2. draft = Nobody => TextFits
    BY Zenon DEF TextFits
  <2>3. draft = Nobody => JobReadsBack
    BY DEF JobReadsBack
  <2> QED BY <2>1, <2>2, <2>3
<1> SUFFICES ASSUME draft \in Drafts PROVE LabelRendered
  BY <1>a, Zenon DEF LabelTypeOK, LabelRendered
<1>1. QrInside
  <2> SUFFICES ASSUME draft.kind = "size", draft.width >= 24, draft.height >= 28
               PROVE  /\ QrSize(draft.width, draft.height, draft.asked) <= draft.width
                      /\ Margin + QrSize(draft.width, draft.height, draft.asked) <= draft.height
    BY DEF QrInside
  <2>1. draft.width \in Nat /\ draft.height \in Nat /\ draft.asked \in Int
    BY DraftAssumption
  <2> QED BY <2>1, QrSizeFits
<1>2. TextFits
  <2> SUFFICES ASSUME draft.kind = "text"
               PROVE  LET shown     == Truncated(draft.text, draft.width)
                          available == draft.width - TextWidth(Dots)
                          Longer(n) == {m \in n + 1 .. Len(draft.text) :
                                           Fits(draft.text, m, available)}
                      IN  \/ shown = <<>> /\ Longer(0) = {}
                          \/ /\ TextWidth(shown) <= draft.width
                             /\ \/ shown = draft.text
                                \/ \E n \in Longer(0) :
                                      /\ shown = Stripped(draft.text, n) \o Dots
                                      /\ Longer(n) = {}
    BY DEF TextFits
  <2>1. /\ draft.text \in Seq(Nat) /\ draft.text # <<>> /\ draft.width \in Int
        /\ draft.text[1] # Space /\ draft.text[Len(draft.text)] # Space
    BY DraftAssumption
  <2> QED BY <2>1, TruncatedLongest
<1>3. JobReadsBack
  <2> SUFFICES ASSUME draft.kind \in {"size", "image"},
                      LineBytes(draft.width) < 65536, draft.height < 65536
               PROVE  LET size == SizeBytes(draft.width, draft.height)
                      IN  /\ PrinterLine(size) = LineBytes(draft.width)
                          /\ PrinterHeight(size) = draft.height
                          /\ draft.kind = "image" => Printed(Job(draft)) = draft.black
    BY DEF JobReadsBack
  <2>1. draft.width \in Nat /\ draft.height \in Nat
    BY DraftAssumption
  <2>2. draft.kind = "image" => Printed(Job(draft)) = draft.black
    <3> SUFFICES ASSUME draft.kind = "image" PROVE Printed(Job(draft)) = draft.black
      OBVIOUS
    <3>1. /\ draft.width \in Nat \ {0} /\ draft.width % 8 = 0 /\ draft.height \in Nat \ {0}
          /\ draft.black \subseteq (0 .. draft.width - 1) \X (0 .. draft.height - 1)
      BY DraftAssumption
    <3> QED BY <3>1, ImageReadsBack
  <2> QED BY <2>1, <2>2, SizeReadsBack
<1> QED BY <1>1, <1>2, <1>3 DEF LabelRendered

\* Whatever is rendered, the code lies within a label of 24 by 28 or more (from
\* a smaller one it is cut off), the text fits and no longer one would have, and
\* the printer reads the picture that was drawn, of sizes its header can say.
THEOREM LabelsRendered == Spec => []LabelRendered
<1>1. LabelTypeOK /\ [Next]_vars => LabelTypeOK'
  BY LabelsBesideShell, LabelTypesKept
<1> QED BY LabelTypesInit, <1>1, RenderedRight, PTL DEF Spec

-----------------------------------------------------------------------------
\* What is proved of the shell commands holds of every behaviour of the command
\* line: only trusted programs run, none outlives its command, success is
\* earned, no stranger is signalled when a program's time is over, a card is
\* trusted for its author, and managed commands survive their carriers.
THEOREM ShellCommandsSafe ==
    Spec => [](/\ OnlyTrustedRuns /\ NothingOutlives /\ ZeroMeansDone
               /\ StrangersSpared /\ WrittenCardsVerify /\ CommandsRoundTrip)
<1>1. IInv => OnlyTrustedRuns /\ NothingOutlives /\ ZeroMeansDone
  BY DEF IInv
<1>2. IInv => StrangersSpared
  BY DEF IInv, Strangers, StrangersSpared
<1> QED BY ShellInvHolds, AuthorsTrusted, CommandsComeBack, <1>1, <1>2, PTL
=============================================================================
