SPECIFICATION Spec
CONSTANTS
    a1 = a1
    a2 = a2
    a3 = a3
    l1 = l1
    l2 = l2
    NoAcb = NoAcb
    NoLun = NoLun
    NoMsg = NoMsg
    Acb = {a1,a2,a3}
    Lun = {l1,l2}
    Openings = 2
    Env = {"msgout", "disconnect", "check", "noselect"}
SYMMETRY Symmetry
INVARIANTS
    TypeOK QueuesAgree
PROPERTIES SenseFirst
CHECK_DEADLOCK FALSE
