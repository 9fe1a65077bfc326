SPECIFICATION FairSpec
CONSTANTS
    a1 = a1
    a2 = a2
    l1 = l1
    l2 = l2
    NoAcb = NoAcb
    NoLun = NoLun
    NoMsg = NoMsg
    Acb = {a1,a2}
    Lun = {l1,l2}
    Openings = 2
    Env = {"disconnect", "check", "noselect", "resetcmd"}

PROPERTIES Submitted
CHECK_DEADLOCK FALSE
