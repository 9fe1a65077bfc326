CONSTANTS
    c0 = c0
    c1 = c1
    c2 = c2
    c3 = c3
    Cpus = {c0, c1, c2, c3}
    LabelWidth = 2
    Edits <- MCEdits
    Sectors <- MCSectors
    Word = 4
    FontWidth = 3
    Xorigin = 4
    Ncols = 5
    Nrows = 3
    Nplanes = 2
    Font <- MCFont
    Attrs <- MCAttrs
    Texts <- MCTexts
    MaxDraws = 1
    Size4 = 2
    Size8 = 4
    Colours = {1}
    Fifo = 2
    Deltas = {"press"}
    Times <- MCTimes
    Base <- MCBase
    LineLen = 5
    LcdWidth = 2
    MaxBufLen = 3
    Message1 <- MCMessage1
    Message2 <- MCMessage2
    Chars = {"a", "b"}
    MaxOps = 3
SPECIFICATION DevicesSpec
INVARIANTS
    DevicesTypeOK HatchExclusive NoEarlyStart LabelSurvives ReadersAgree DisplayShowsText
    CopyIsShown FindsReports TimeIsKept RestoreShowsMessages
PROPERTIES ProcessorsStart
CHECK_DEADLOCK FALSE
