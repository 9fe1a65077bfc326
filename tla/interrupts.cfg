SPECIFICATION MCSpec
CONSTANTS
    c0 = c0
    c1 = c1
    notify = notify
    Nobody = Nobody
    Cpus = {c0, c1}
    Master = c0
    Senders = {}
    Bits = {}
    Sources = {3, 5, 6}
    BaseLevels = {0, 7}
INVARIANTS FramesBounded DriversExclude
PROPERTIES InterruptsServed MCEveryIpiHandled
