SPECIFICATION Spec
CONSTANTS
    Cases <- ObjCases
    Unknown = {"u", "v"}
    After = 2
    Defs <- DslDefs
    Readers = {"json", "json_general", "msgpack"}
    MaxDocs = 4
    MaxCalls = 3
    Libs = {"zlib", "bz2", "zstd"}
    Texts <- ComprTexts
    Incrs = {1, 2, 5}
    Bits = 2
    MaxText = 2
    MaxElms = 2
    NNodes = 4
    MaxSearches = 2
    CKeys = {"a", "b", "c"}
    Costs = {1, 2}
    LruCaps = {1, 2, 4}
INVARIANTS ReadsWhatWasWritten FindsThePlace
\* What was read, searched or written to its end takes no further step.
CHECK_DEADLOCK FALSE
