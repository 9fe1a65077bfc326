SPECIFICATION Spec
CONSTANTS
    a1 = a1
    l1 = l1
    NoAcb = NoAcb
    NoLun = NoLun
    NoMsg = NoMsg
    Acb = {a1}
    Lun = {l1}
    Openings = 2
    Env = {"msgout", "disconnect", "badmsg", "parity", "badresel", "busreset", "badphase", "tmode"}

INVARIANTS MessagesAnswered
CHECK_DEADLOCK FALSE
