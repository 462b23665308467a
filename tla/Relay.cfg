SPECIFICATION Spec
CONSTANTS
    MaxClients = 2
    Quota <- MCQuota
INVARIANTS
    TypeOK
    RelayInOrder
    FaithfulUnlessShort
PROPERTIES
    ClientServed
    Delivered
    Released
CHECK_DEADLOCK FALSE
