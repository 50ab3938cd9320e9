\* The walker on small programs, annotations and declarations in any order.
CONSTANTS
    Graph <- MCGraph
    Capitalized <- MCCapitalized
    Programs <- MCPrograms
    Passing <- MCPassing
    NumericBound <- MCNumericBound
    MaxWalkDepth = 20
    MaxTotalTypes = 14
SPECIFICATION Spec
INVARIANTS TypesOK Faithful Discriminates RefsResolve 
PROPERTY RegistryStable
CHECK_DEADLOCK FALSE
