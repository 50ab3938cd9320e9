\* A number that a request leaves out.
CONSTANTS
    Registry <- MCRegistry
    Trimmed <- MCTrimmed
    Lowered <- MCTrimmed
    Uppered <- MCTrimmed
    Numerals <- MCNumerals
    NameEnds <- MCNameEnds
    VersionSegments = {"v1", "v2"}
    DirNames <- MCDirNames
    Programs <- OptionalPrograms
    Data <- MCData
    UrlTexts <- MCUrlTexts
    PartTypes <- MCPartTypes
    JsValues <- MCJsValues
    Stack = 20
SPECIFICATION Spec
INVARIANT OptionalMayBeAbsent
CHECK_DEADLOCK FALSE
