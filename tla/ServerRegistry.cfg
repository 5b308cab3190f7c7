SPECIFICATION RegistrySpec
CONSTANTS
    Ids = {a}
    Tasks = {t1, t2}
    MaxInst = 2
    MaxVersion = 1
    Limit = 1
    NoServer = NoServer
INVARIANTS RegistryTypeOK NoOrphanConnection TriggersFresh RegistryMatchesConfig
CHECK_DEADLOCK FALSE
