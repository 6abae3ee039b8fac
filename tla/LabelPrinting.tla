---------------------------- MODULE LabelPrinting ----------------------------
(***************************************************************************)
(* `gway-rfid label`: drafts are rendered, and jobs are sent to the one    *)
(* printer chunk by chunk (linux_printing.py, printing.write_windows_usb), *)
(* by commands that know nothing of each other.                            *)
(***************************************************************************)
EXTENDS LabelImage

CONSTANTS Drafts,      \* inputs of the renderer
          Sender,      \* commands that print
          Nobody,      \* nobody's claim, no draft
          Length,      \* bytes of a job
          Chunk,       \* --chunk-bytes
          MaxPrinted   \* bound: bytes the printer takes

ASSUME PrintAssumption ==
    /\ Nobody \notin Sender
    /\ Length \in Nat \ {0} /\ Chunk \in Nat \ {0} /\ MaxPrinted \in Nat

\* A text is stripped before it is measured, and the lines of a picture are
\* whole bytes (build_qr_label_image).
ASSUME DraftAssumption ==
    \A d \in Drafts :
        /\ d.kind = "size" =>
              d.width \in Nat \ {0} /\ d.height \in Nat \ {0} /\ d.asked \in Int
        /\ d.kind = "text" =>
              /\ d.text \in Seq(Nat) \ {<<>>} /\ d.width \in Int
              /\ Space \notin {d.text[1], d.text[Len(d.text)]}
        /\ d.kind = "image" =>
              /\ d.width \in Nat \ {0} /\ d.width % 8 = 0 /\ d.height \in Nat \ {0}
              /\ d.black \subseteq (0 .. d.width - 1) \X (0 .. d.height - 1)

VARIABLES
    draft,     \* what has been rendered
    platform,
    step,      \* of each sender
    offset,    \* of its next chunk
    claim,     \* who has claimed the printer's interface
    printed,   \* the bytes the printer has taken, <<sender, position>>
    torn       \* some job ended before its last byte

labelVars == <<draft, platform, step, offset, claim, printed, torn>>

Done == {"ready", "printed", "failed"}

LabelTypeOK ==
    /\ draft \in Drafts \cup {Nobody}
    /\ platform \in {"none", "linux", "win32"}
    /\ step \in [Sender -> Done \cup {"open", "sending"}]
    /\ offset \in [Sender -> 0 .. Length - 1]
    /\ claim \in Sender \cup {Nobody}
    /\ printed \in Seq(Sender \X (1 .. Length))
    /\ torn \in BOOLEAN

LabelInit ==
    /\ draft = Nobody /\ platform = "none"
    /\ step = [s \in Sender |-> "ready"]
    /\ offset = [s \in Sender |-> 0]
    /\ claim = Nobody /\ printed = <<>> /\ torn = FALSE

-----------------------------------------------------------------------------
\* `label preview`, and what `label print` does before it looks for a printer.
Render(d) ==
    /\ draft = Nobody /\ platform = "none"
    /\ draft' = d
    /\ UNCHANGED <<platform, step, offset, claim, printed, torn>>

\* The command ends.
Discard ==
    /\ draft # Nobody
    /\ draft' = Nobody
    /\ UNCHANGED <<platform, step, offset, claim, printed, torn>>

PlugIn(system) ==
    /\ draft = Nobody /\ platform = "none"
    /\ platform' = system
    /\ UNCHANGED <<draft, step, offset, claim, printed, torn>>

Go(s, from, to) == step[s] = from /\ step' = [step EXCEPT ![s] = to]

\* Exactly one device has to match, with the endpoint asked for.
PrintLinux(s, found, usable) ==
    /\ platform = "linux" /\ Go(s, "ready", IF found = 1 /\ usable THEN "open" ELSE "failed")
    /\ UNCHANGED <<draft, platform, offset, claim, printed, torn>>

\* A path has to be given, or exactly one to be found.
PrintWindows(s, found, given) ==
    /\ platform = "win32" /\ Go(s, "ready", IF given \/ found = 1 THEN "open" ELSE "failed")
    /\ UNCHANGED <<draft, platform, offset, claim, printed, torn>>

\* Mutant: the interface is used whoever has claimed it.
ClaimAnyway(s) ==
    /\ Go(s, "open", "sending")
    /\ claim' = s
    /\ UNCHANGED <<draft, platform, offset, printed, torn>>

\* The first write of PyUSB claims the interface, until the device is given
\* up; CreateFileW opens the path to be shared.
Claim(s) ==
    /\ Go(s, "open", "sending")
    /\ platform = "linux" => claim = Nobody
    /\ claim' = IF platform = "linux" THEN s ELSE claim
    /\ UNCHANGED <<draft, platform, offset, printed, torn>>

ClaimFails(s) ==
    /\ Go(s, "open", "failed")
    /\ UNCHANGED <<draft, platform, offset, claim, printed, torn>>

Released(s) == IF claim = s THEN Nobody ELSE claim

\* The printer takes the next n bytes of s's job.
Takes(s, n) ==
    /\ Len(printed) + n <= MaxPrinted
    /\ printed' = printed \o [i \in 1 .. n |-> <<s, offset[s] + i>>]

ChunkBytes(s) == IF offset[s] + Chunk <= Length THEN Chunk ELSE Length - offset[s]

WriteChunk(s) ==
    /\ step[s] = "sending"
    /\ offset[s] + ChunkBytes(s) < Length
    /\ Takes(s, ChunkBytes(s))
    /\ offset' = [offset EXCEPT ![s] = @ + ChunkBytes(s)]
    /\ UNCHANGED <<draft, platform, step, claim, torn>>

WriteLast(s) ==
    /\ Go(s, "sending", "printed")
    /\ offset[s] + ChunkBytes(s) = Length
    /\ Takes(s, ChunkBytes(s))
    /\ claim' = Released(s)
    /\ UNCHANGED <<draft, platform, offset, torn>>

\* Mutant: what a write has taken is not compared with the chunk.
ShortUnseen(s, n) ==
    /\ step[s] = "sending"
    /\ n < ChunkBytes(s)
    /\ Takes(s, n)
    /\ step' = [step EXCEPT ![s] = IF offset[s] + ChunkBytes(s) < Length THEN @ ELSE "printed"]
    /\ offset' = [offset EXCEPT ![s] = IF @ + ChunkBytes(s) < Length THEN @ + ChunkBytes(s) ELSE @]
    /\ UNCHANGED <<draft, platform, claim, torn>>

\* A short write, a write that raises whatever it has sent, or a kill: there
\* is no next chunk, and nothing tells the printer.
JobBreaks(s, n) ==
    /\ Go(s, "sending", "failed")
    /\ n <= ChunkBytes(s)
    /\ Takes(s, n)
    /\ claim' = Released(s)
    /\ torn' = (torn \/ offset[s] + n \in 1 .. Length - 1)
    /\ UNCHANGED <<draft, platform, offset>>

\* The next command.
PrintAgain(s) ==
    /\ step[s] \in {"printed", "failed"}
    /\ step' = [step EXCEPT ![s] = "ready"]
    /\ offset' = [offset EXCEPT ![s] = 0]
    /\ UNCHANGED <<draft, platform, claim, printed, torn>>

-----------------------------------------------------------------------------
LabelNext ==
    \/ \E d \in Drafts : Render(d)
    \/ Discard
    \/ \E system \in {"linux", "win32"} : PlugIn(system)
    \/ \E s \in Sender :
          \/ \E found \in 0 .. 2, b \in BOOLEAN :
                PrintLinux(s, found, b) \/ PrintWindows(s, found, b)
          \/ Claim(s) \/ ClaimFails(s)
          \/ WriteChunk(s) \/ WriteLast(s)
          \/ \E n \in 0 .. Chunk : JobBreaks(s, n)
          \/ PrintAgain(s)
-----------------------------------------------------------------------------
\* Where s's bytes lie in what the printer has got; the one before j, and the
\* last of them.
Bytes(s) == {i \in 1 .. Len(printed) : printed[i][1] = s}

NextOf(s, i, j) == i < j /\ \A m \in Bytes(s) : m <= i \/ j <= m

EndsWith(s, n) == \E j \in Bytes(s) : printed[j][2] = n /\ \A i \in Bytes(s) : i <= j

\* A command that reports its job written has had every byte of it taken, once
\* and in order, and the printer is given nothing after a write that fell
\* short: a byte follows the one before it, or begins a job
\* (linux_printing.py:75-84, printing.py:360-386).
InOrder ==
    \A s \in Sender :
        /\ step[s] = "printed" => EndsWith(s, Length)
        /\ \A j \in Bytes(s) :
              \/ printed[j][2] = 1
              \/ \E i \in Bytes(s) : NextOf(s, i, j) /\ printed[j][2] = printed[i][2] + 1

\* Where one printer's interface is claimed, its stream of bytes is a stream of
\* whole labels until a job breaks off: from then on what it takes for the
\* rest of that label is the beginning of the next (linux_printing.py:79).
Unmixed ==
    platform = "linux" /\ ~torn =>
        \A i \in 1 .. Len(printed) - 1 :
            printed[i][2] < Length =>
                printed[i + 1] = <<printed[i][1], printed[i][2] + 1>>

\* Both: a label that is reported is the one that was printed.
JobsReachPrinter == InOrder /\ Unmixed

-----------------------------------------------------------------------------
\* A QR code asked for at any size lies within a label of 24 by 28 or more
\* (build_qr_label_image, lines 101-103).
QrInside ==
    draft # Nobody /\ draft.kind = "size" /\ draft.width >= 24 /\ draft.height >= 28 =>
        LET size == QrSize(draft.width, draft.height, draft.asked)
        IN  size <= draft.width /\ Margin + size <= draft.height

\* What is left of a text fits, and is all of it, or its longest part that
\* leaves room for the dots; bisection assumes that it can be found by halves
\* (_truncate_to_width).
TextFits ==
    draft # Nobody /\ draft.kind = "text" =>
        LET shown     == Truncated(draft.text, draft.width)
            available == draft.width - TextWidth(Dots)
            Longer(n) == {m \in n + 1 .. Len(draft.text) : Fits(draft.text, m, available)}
        IN  \/ shown = <<>> /\ Longer(0) = {}
            \/ /\ TextWidth(shown) <= draft.width
               /\ \/ shown = draft.text
                  \/ \E n \in Longer(0) :
                        shown = Stripped(draft.text, n) \o Dots /\ Longer(n) = {}

\* The printer reads the picture that was drawn, and as many bytes as follow,
\* up to the sizes its two bytes can say (build_phomemo_m220_job).
JobReadsBack ==
    draft # Nobody /\ draft.kind \in {"size", "image"}
        /\ LineBytes(draft.width) < 65536 /\ draft.height < 65536 =>
        LET size == SizeBytes(draft.width, draft.height)
        IN  /\ PrinterLine(size) = LineBytes(draft.width) /\ PrinterHeight(size) = draft.height
            /\ draft.kind = "image" => Printed(Job(draft)) = draft.black

\* What is sent to the printer is the label that was asked for.
LabelRendered == QrInside /\ TextFits /\ JobReadsBack
=============================================================================
