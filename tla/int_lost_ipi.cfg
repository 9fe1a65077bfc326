SPECIFICATION FairSpec
CONSTANTS
    c0 = c0
    c1 = c1
    ddb = ddb
    notify = notify
    Nobody = Nobody
    Cpus = {c0, c1}
    Master = c0
    Senders = {c1}
    Bits = {ddb, notify}
    Sources = {}
    BaseLevels = {0}
PROPERTIES EveryIpiHandled
