CONSTANTS
    Registry  <- MCRegistry
    Trimmed   <- MCTrimmed
    Lowered   <- MCLowered
    Uppered   <- MCUppered
    Numerals  <- MCNumerals
    TypeNames <- UnionTypes
    Inputs    <- MCInputs
    MaxCalls  = 3
    PartTypes <- MCPartTypes
    JsValues  <- MCJsValues
    Stack     = 20
    Validated  <- ValidateFunction
    Serialized <- SerializeFunction
SPECIFICATION Spec
INVARIANT ValidateAcceptsAll
CHECK_DEADLOCK FALSE
