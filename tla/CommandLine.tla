----------------------------- MODULE CommandLine -----------------------------
(***************************************************************************)
(* The two groups of subcommands of `gway-rfid` (label_cli.run).  They     *)
(* share nothing, so a behaviour is one of shell commands or of labels.    *)
(***************************************************************************)
EXTENDS ShellCommand, LabelPrinting

vars == <<shellVars, labelVars>>

TypeOK == ShellTypeOK /\ LabelTypeOK

Init == ShellInit /\ LabelInit

\* Of one group, as long as nothing of the other has begun.
Command(A) == A /\ draft = Nobody /\ platform = "none" /\ UNCHANGED labelVars
Label(A)   == pc = "idle" /\ card = Blank /\ A /\ UNCHANGED shellVars

Next == Command(ShellNext) \/ Label(LabelNext)

\* The command is scheduled and time passes; nothing is asked of the program
\* a card holds, nor of whoever interrupts.
Fairness == WF_vars(Command(CommandStep)) /\ WF_vars(Command(Tick))

Spec == Init /\ [][Next]_vars /\ Fairness
==============================================================================
