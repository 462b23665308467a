SPECIFICATION Spec
CONSTANTS
    MaxClients = 1
    Quota <- MCQuotaOne
INVARIANTS
    RelayFaithful
CHECK_DEADLOCK FALSE
