---------------------------- MODULE ProgramStore ----------------------------
(***************************************************************************)
(* What writing shell cards promises: the card holds one program, whole,   *)
(* or none.  One program never turns into another; there is a time without *)
(* any between them, and what appears is something a command was asked     *)
(* to write, or what was there when the story began.                       *)
(***************************************************************************)
CONSTANTS Program, NoProgram

VARIABLES stored,  \* the program on the card, or NoProgram
          asked    \* the programs that may appear

Init ==
    /\ asked \subseteq Program \cup {NoProgram}
    /\ stored \in asked \cup {NoProgram}

Ask(p) == asked' = asked \cup {p} /\ UNCHANGED stored
Lose == stored' = NoProgram /\ UNCHANGED asked
Store(p) == stored = NoProgram /\ p \in asked /\ stored' = p /\ UNCHANGED asked

Next ==
    \/ \E p \in Program \cup {NoProgram} : Ask(p) \/ Store(p)
    \/ Lose

Spec == Init /\ [][Next]_<<stored, asked>>
=============================================================================
