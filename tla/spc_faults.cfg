SPECIFICATION Spec
CONSTANTS
    a1 = a1
    a2 = a2
    l1 = l1
    l2 = l2
    NoAcb = NoAcb
    NoLun = NoLun
    NoMsg = NoMsg
    Acb = {a1,a2}
    Lun = {l1,l2}
    Openings = 2
    Env = {"disconnect", "check", "timeout", "race", "retry", "poll", "unexpected"}
SYMMETRY Symmetry
INVARIANTS Conserved TimerOnlyWhilePending
PROPERTIES HonestCompletion
CHECK_DEADLOCK FALSE
