\* Numbers, texts and format strings, and the buffers they are put into.
SPECIFICATION Spec
CONSTANTS
    WordBits = 14
    Digs = 2
    BigPows = 3
    StepPow = 1
    PowMax = 8
    PowTable <- MCPowTable
    Mantissa = 5
    ExpMax = 31
    MantWords = 5
    MinExp10 <- MCMinExp10
    MaxExp10 = 5
    IntBits = 8
    TypeMax = 63
    Behind = "0"
    CharOf <- MCCharOf
    Jobs <- MCJobs
    Given <- MCGiven
    Unprintable <- MCUnprintable
    WideCodes <- MCWideCodes
    Forms <- MCForms
    Appended = {1, 2, 3, 6}
    MaxSize = 15
    StepCount = 6
    NarrowBits = 5
    WideBits = 8
INVARIANTS
    TypeOK
    ShowExact
    ReadsBack
    ReadExact
    ConversionsExact
    TextsExact
    WordsExact
    FormatExact
    CheckedNeverFails
    BufferExact
CHECK_DEADLOCK FALSE
