CONSTANTS
    i1 = i1
    i2 = i2
    k1 = k1
    k2 = k2
    NoKey = NoKey
    Blank = Blank
    Issuer <- MCIssuer
    Key <- MCKey
    Timeout <- MCTimeout
    Cards <- MCCards
    MaxMembers = 2
    Drafts <- MCDrafts
    s1 = s1
    s2 = s2
    Sender <- MCSender
    Nobody = Nobody
    Length = 3
    Chunk = 2
    MaxPrinted = 6
SPECIFICATION Spec
INVARIANTS
    TypeOK
    OnlyTrustedRuns
    NothingOutlives
    ZeroMeansDone
    StrangersSpared
    WrittenCardsVerify
    CommandsRoundTrip
    JobsReachPrinter
    LabelRendered
PROPERTY CommandReturns
