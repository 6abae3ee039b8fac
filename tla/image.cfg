\* Two commands at once on an image file.
SPECIFICATION Spec
CONSTANTS
    Medium = "image"
    Chunk = {a, b}
    Blank = blank
    Torn = torn
    NumBlocks = 2
    Program <- MCProgram
    NoProgram = noprogram
    Digest <- MCDigest
    NoId = noid
    Fault = {"crash", "raises"}
    Cli = {c1, c2}
CHECK_DEADLOCK FALSE
SYMMETRY Symmetry
INVARIANTS AcceptedWasWritten WrittenIsStored
