SPECIFICATION Spec
CONSTANTS
    Calls = {1, 2, 3}
    Mixes <- MCMixes
    Permits <- MCPermits
    Attempts <- MCAttempts
INVARIANTS
    PermitsConserved
    OutcomeOfLastAnswer
PROPERTY
    CallsEnd
CHECK_DEADLOCK FALSE
