\* The three outputs for small programs, files and maps in any order.
CONSTANTS
    Registry <- MCRegistry
    Trimmed <- MCTrimmed
    Lowered <- MCTrimmed
    Uppered <- MCTrimmed
    Numerals <- MCNumerals
    NameEnds <- MCNameEnds
    VersionSegments = {"v1", "v2"}
    DirNames <- MCDirNames
    Programs <- MCPrograms
    Data <- MCData
    UrlTexts <- MCUrlTexts
    PartTypes <- MCPartTypes
    JsValues <- MCJsValues
    Stack = 20
SPECIFICATION Spec
INVARIANTS HandlersChecked CallsBound DocumentFaithful RoutesReachable SdkFaithful
CHECK_DEADLOCK FALSE
