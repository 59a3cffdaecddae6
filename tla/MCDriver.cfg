SPECIFICATION Spec
CONSTANT
    Invocations <- MCInvocations
INVARIANTS
    EveryFindingOnce
    ExitCodeTellsTheResult
    DumpedConfigIsTheConfig
CHECK_DEADLOCK FALSE
