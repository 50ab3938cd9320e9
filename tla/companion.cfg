CONSTANTS
    Registry  <- MCRegistry
    Trimmed   <- MCTrimmed
    Lowered   <- MCLowered
    Uppered   <- MCUppered
    Numerals  <- MCNumerals
    TypeNames <- MCTypes
    Inputs    <- MCInputs
    MaxCalls  = 3
    PartTypes <- MCPartTypes
    JsValues  <- MCJsValues
    Stack     = 20
    Validated  <- ValidateFunction
    Serialized <- SerializeFunction
SPECIFICATION Spec
INVARIANTS
    GuardExact
    ValidateSound
    ValuesAccepted
    AssertExact
    ResponseConveys
PROPERTY AcceptedIsFinal
CHECK_DEADLOCK FALSE
