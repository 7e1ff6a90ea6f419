\* Idle timeouts with signals interrupting select(2): is the limit still
\* enforced?
CONSTANTS
    ClientIdleLimit = 2
    ClientIdleLimitInRecovery = 1
    SignalsDelivered = TRUE
SPECIFICATION Spec
INVARIANT IdleLimitEnforced
