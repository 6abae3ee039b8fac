\* Two commands one after the other on a card, and every fault.
SPECIFICATION Spec
CONSTANTS
    Medium = "card"
    Chunk = {a, b}
    Blank = blank
    Torn = torn
    NumBlocks = 2
    Program <- MCProgram
    NoProgram = noprogram
    Digest <- MCDigest
    NoId = noid
    Fault = {"crash", "raises", "silent", "torn", "unread", "removed"}
    Cli = {c1, c2}
CHECK_DEADLOCK FALSE
SYMMETRY Symmetry
INVARIANTS TypeOK AcceptedWasWritten WrittenIsStored
PROPERTY CardIsAStore
