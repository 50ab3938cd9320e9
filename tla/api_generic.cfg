\* Two instances of a generic type under one name.
CONSTANTS
    Registry <- MCRegistry
    Trimmed <- MCTrimmed
    Lowered <- MCTrimmed
    Uppered <- MCTrimmed
    Numerals <- MCNumerals
    NameEnds <- MCNameEnds
    VersionSegments = {"v1", "v2"}
    DirNames <- MCDirNames
    Programs <- PagePrograms
    Data <- MCData
    UrlTexts <- MCUrlTexts
    PartTypes <- MCPartTypes
    JsValues <- MCJsValues
    Stack = 20
SPECIFICATION Spec
INVARIANT InstancesTold
CHECK_DEADLOCK FALSE
