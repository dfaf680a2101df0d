SPECIFICATION FairSpec
CONSTANTS
    v1 = v1
    v2 = v2
    v3 = v3
    Validator = {v1, v2, v3}
    Threshold = 2
    Modes = {"local", "remote"}
    Conducts <- MCConducts
    MaxSessions = 2
    FaultBudget <- TwoFaults
INVARIANT TypeOK
INVARIANT OneKey
INVARIANT ServedKeyIsHeld
INVARIANT NoPartialKeys
INVARIANT RegistryMatches
PROPERTY NetworkComesUp
\* The backend serves for ever, or waits for an operator.
CHECK_DEADLOCK FALSE
