------------------------------ MODULE BootScsi ------------------------------
(***************************************************************************)
(* The boot loader's polled SCSI driver (src/stand/boot/sc.c) under its    *)
(* disk driver (src/stand/boot/sd.c).  One command runs at a time: scrun() *)
(* selects the target, the caller polls scintr() until sc_lock leaves      *)
(* SC_IN_PROGRESS and SC_DISCONNECTED, and scfinish() takes the status.    *)
(* The transfer loops and the bytes they move are left out.  The target    *)
(* and the chip are the environment.                                       *)
(***************************************************************************)
EXTENDS Integers

CONSTANTS
    Tries,  \* the 10 of sdident()
    ScsiEnv \* what targets do: subset of {"check", "disconnect", "drop", "fast", "slow", "nodisk"}

ASSUME TriesAssumption == Tries \in Nat
ASSUME EnvAssumption == ScsiEnv \subseteq {"check", "disconnect", "drop", "fast", "slow", "nodisk"}

VARIABLES
    sd,     \* where sd.c is: the command it waits for, or between two
    tries,
    call,   \* "start", "run" or "done", or "none" outside of the SCSI functions
    ret,    \* what the SCSI function returned
    lock,   \* *sc_lock
    phase,  \* sc_phase
    stat,   \* sc_stat
    msg,    \* sc_msg[0]
    selTimeout, \* SC_SEL_TIMEOUT in sc_flags
    ints,   \* external: the chip's interrupt sense register
    asks,   \* external: what the connected target asks for
    away,   \* external: the target has disconnected and will reselect
    sent    \* history: the status byte that the target has sent for this command

sdVars  == <<sd, tries>>
scVars  == <<call, ret, lock, phase, stat, msg, selTimeout>>
busVars == <<ints, asks, away, sent>>
scsiVars == <<sdVars, scVars, busVars>>

Commands == {"ready", "sense", "inquiry", "capacity", "label", "io"}
Locks    == {"IN_PROGRESS", "IO_COMPLETE", "DISCONNECTED", "IO_FAILED", "DEV_NOT_FOUND"}
Statuses == {"GOOD", "CHECK"}
Messages == {"CMD_COMPLETE", "DISCONNECT", "IDENTIFY"}
Asks     == {"CMD", "DATA", "STATUS"} \cup Messages
Phases   == {"BUS_FREE", "ARB_SEL", "CMD", "DATA", "STATUS", "MESG_IN"}
Failed   == "FAILED"    \* -1

TypeOK ==
    /\ sd \in Commands \cup {"closed", "open"} /\ tries \in 0..Tries
    /\ call \in {"none", "start", "run", "done"}
    /\ ret \in Statuses \cup Locks \cup {Failed}
    /\ lock \in Locks /\ phase \in Phases /\ stat \in Statuses /\ msg \in Messages
    /\ selTimeout \in BOOLEAN
    /\ ints \subseteq {"RESEL", "DISCON", "CMD_DONE", "SRV_REQ", "TIMEOUT"}
    /\ asks \in Asks \cup {"nothing", "selection"} /\ away \in BOOLEAN
    /\ sent \in Statuses \cup {"nothing"}

\* scinit(), screset()
Init ==
    /\ sd = "closed" /\ tries = Tries /\ call = "none" /\ ret = Failed
    /\ lock = "IO_FAILED" /\ phase = "BUS_FREE" /\ stat = "GOOD" /\ msg = "CMD_COMPLETE"
    /\ selTimeout = FALSE
    /\ ints = {} /\ asks = "nothing" /\ away = FALSE /\ sent = "nothing"

-----------------------------------------------------------------------------
(* The bus.  "selection" stands for the chip selecting.                     *)

\* what a target asks for next; it disconnects once per command
Following(p) ==
    CASE p = "CMD"      -> {"DATA", "STATUS"} \cup {m \in {"DISCONNECT"} : "disconnect" \in ScsiEnv}
      [] p = "IDENTIFY" -> {"DATA", "STATUS"}
      [] p = "DATA"     -> {"STATUS"}
      [] p = "STATUS"   -> {"CMD_COMPLETE"}

PhaseOf(p) == IF p \in Messages THEN "MESG_IN" ELSE p

\* A target answers the selection
Answer ==
    /\ asks = "selection"
    /\ asks' = "CMD" /\ ints' = ints \cup {"CMD_DONE"}
    /\ UNCHANGED <<sdVars, scVars, away, sent>>

\* ... or the chip gives up, twice before the driver does
SelectionTimeout ==
    /\ asks = "selection" /\ "slow" \in ScsiEnv /\ "TIMEOUT" \notin ints
    /\ ints' = ints \cup {"TIMEOUT"}
    /\ UNCHANGED <<sdVars, scVars, asks, away, sent>>

\* A target that is to be served leaves the bus without a message
Drop ==
    /\ "drop" \in ScsiEnv /\ asks \in {"CMD", "DATA", "STATUS"}
    /\ asks' = "nothing" /\ ints' = ints \cup {"DISCON"}
    /\ UNCHANGED <<sdVars, scVars, away, sent>>

Reselect ==
    /\ away /\ asks = "nothing"
    /\ away' = FALSE /\ asks' = "IDENTIFY" /\ ints' = ints \cup {"RESEL"}
    /\ UNCHANGED <<sdVars, scVars, sent>>

-----------------------------------------------------------------------------
(* sc.c                                                                    *)

\* issue_select()
IssueSelect == asks' = "selection" /\ sent' = "nothing"

\* scrun(): 0 in sc_msg[0] is the code of COMMAND COMPLETE, 0 in sc_stat that of GOOD
Scrun ==
    /\ call = "start"
    /\ IF asks # "nothing"
       THEN /\ call' = "done" /\ ret' = Failed
            /\ UNCHANGED <<lock, phase, stat, msg, selTimeout, asks, sent>>
       ELSE /\ call' = "run" /\ lock' = "IN_PROGRESS" /\ phase' = "ARB_SEL"
            /\ stat' = "GOOD" /\ msg' = "CMD_COMPLETE" /\ selTimeout' = FALSE
            /\ IssueSelect
            /\ UNCHANGED ret
    /\ UNCHANGED <<sdVars, ints, away>>

Polling == call = "run" /\ lock \in {"IN_PROGRESS", "DISCONNECTED"} /\ ints # {}

\* "Next SCSI Transfer": wait for REQ and serve the phase the target asks for
Transfer ==
    /\ asks \in Asks
    /\ phase' = PhaseOf(asks)
    /\ msg' = IF asks \in Messages THEN asks ELSE msg
    /\ \E s \in IF "check" \in ScsiEnv THEN Statuses ELSE {"GOOD"} :
          IF asks = "STATUS" THEN stat' = s /\ sent' = s ELSE UNCHANGED <<stat, sent>>
    /\ ints' = {"CMD_DONE"}
    /\ asks' \in IF asks \in Messages THEN {asks} ELSE Following(asks)
    /\ UNCHANGED away

\* scabort(): the target is told to leave the bus and does
Scabort ==
    /\ asks' = "nothing" /\ away' = (away /\ asks # "IDENTIFY")
    /\ ints' \in IF asks \in Asks THEN {{}, {"DISCON"}} ELSE {{}}
\* abort:
Abort == Scabort /\ lock' = "IO_FAILED" /\ UNCHANGED <<stat, msg, selTimeout, phase, sent>>

IntrResel ==
    /\ Polling /\ "RESEL" \in ints
    /\ IF phase = "BUS_FREE" THEN lock' = "IN_PROGRESS" /\ Transfer /\ UNCHANGED selTimeout ELSE Abort
    /\ UNCHANGED <<sdVars, call, ret>>

\* INTS_DISCON
IntrDiscon ==
    /\ Polling /\ "DISCON" \in ints /\ "RESEL" \notin ints
    /\ IF msg \in {"CMD_COMPLETE", "DISCONNECT"}
       THEN /\ phase' = "BUS_FREE" /\ ints' = {}
            /\ lock' = IF msg = "CMD_COMPLETE" THEN "IO_COMPLETE" ELSE "DISCONNECTED"
            /\ UNCHANGED <<stat, msg, selTimeout, asks, away, sent>>
       ELSE Abort
    /\ UNCHANGED <<sdVars, call, ret>>

\* what PSNS shows when ACK has been reset: the message, or what follows it
Seen(p) == {"MESG_IN"} \cup {q \in {p} : "fast" \in ScsiEnv}

\* a message is acknowledged
Acknowledge ==
    /\ IF asks = "IDENTIFY"
       THEN asks' \in Following(asks) /\ ints' = {"SRV_REQ"} /\ phase' \in Seen(asks')
       ELSE asks' = "nothing" /\ ints' = {"DISCON"} /\ phase' \in Seen("DATA")
    /\ away' = (asks = "DISCONNECT")
    /\ UNCHANGED <<lock, stat, msg, selTimeout, sent>>

\* INTS_CMD_DONE: after a message; any other transfer is followed by one
IntrCmdDone ==
    /\ Polling /\ "CMD_DONE" \in ints /\ ints \cap {"RESEL", "DISCON"} = {}
    /\ CASE phase = "BUS_FREE" -> Abort
         [] phase = "MESG_IN"  -> Acknowledge
         [] OTHER              -> Transfer /\ selTimeout' = FALSE /\ UNCHANGED lock
    /\ UNCHANGED <<sdVars, call, ret>>

IntrSrvReq ==
    /\ Polling /\ "SRV_REQ" \in ints /\ ints \cap {"RESEL", "DISCON", "CMD_DONE"} = {}
    /\ IF phase = "MESG_IN" THEN Transfer /\ UNCHANGED <<lock, selTimeout>> ELSE Abort
    /\ UNCHANGED <<sdVars, call, ret>>


\* INTS_TIMEOUT, once more and then for good
IntrTimeout ==
    /\ Polling /\ ints = {"TIMEOUT"}
    /\ CASE phase # "ARB_SEL" -> Abort
         [] phase = "ARB_SEL" /\ selTimeout ->
                /\ selTimeout' = FALSE /\ phase' = "BUS_FREE" /\ lock' = "DEV_NOT_FOUND"
                /\ asks' = "nothing" /\ ints' = {}
                /\ UNCHANGED <<stat, msg, away, sent>>
         [] OTHER ->
                /\ selTimeout' = TRUE /\ ints' = {}
                /\ UNCHANGED <<phase, lock, stat, msg, asks, away, sent>>
    /\ UNCHANGED <<sdVars, call, ret>>

Scintr == IntrResel \/ IntrDiscon \/ IntrCmdDone \/ IntrSrvReq \/ IntrTimeout

\* scfinish() that returns sc_stat after it has been cleared
ScfinishWrong ==
    /\ call = "run" /\ lock \notin {"IN_PROGRESS", "DISCONNECTED"}
    /\ call' = "done" /\ ret' = IF lock = "IO_COMPLETE" THEN "GOOD" ELSE lock
    /\ phase' = "BUS_FREE" /\ stat' = "GOOD" /\ msg' = "CMD_COMPLETE" /\ selTimeout' = FALSE
    /\ UNCHANGED <<sdVars, lock, busVars>>

\* what the SCSI function returns
Result == IF lock = "IO_COMPLETE" THEN stat ELSE lock

\* scfinish() and the return of the SCSI function
Scfinish ==
    /\ call = "run" /\ lock \notin {"IN_PROGRESS", "DISCONNECTED"}
    /\ call' = "done" /\ ret' = Result
    /\ phase' = "BUS_FREE" /\ stat' = "GOOD" /\ msg' = "CMD_COMPLETE" /\ selTimeout' = FALSE
    /\ UNCHANGED <<sdVars, lock, busVars>>

-----------------------------------------------------------------------------
(* sd.c                                                                    *)

\* what sdident(), sdinit() and sdstrategy() do next
Issue(cmd) ==
    /\ sd' = cmd /\ call' = "start"
    /\ UNCHANGED <<ret, lock, phase, stat, msg, selTimeout, busVars>>
Settle(outcome) ==
    /\ sd' = outcome /\ call' = "none"
    /\ UNCHANGED <<ret, lock, phase, stat, msg, selTimeout, busVars, tries>>

\* screset(): the chip forgets its connection
Screset == ints' = {} /\ asks' = "nothing" /\ UNCHANGED <<away, sent>>
\* scinit()
Scinit ==
    /\ phase' = "BUS_FREE" /\ stat' = "GOOD" /\ msg' = "CMD_COMPLETE" /\ selTimeout' = FALSE
    /\ Screset

\* sdopen(), sdinit(), and sdident(), which begins with scinit()
SdOpen ==
    /\ sd = "closed" /\ sd' = "ready" /\ tries' = Tries /\ call' = "start"
    /\ Scinit
    /\ UNCHANGED <<ret, lock>>

\* sdident(): test_unit_rdy until the unit is ready, senses in between
SdReady ==
    /\ sd = "ready" /\ call = "done"
    /\ \/ ret = "GOOD" /\ Issue("inquiry") /\ UNCHANGED tries
       \/ ret = "CHECK" /\ tries > 0 /\ Issue("sense") /\ tries' = tries - 1
       \/ ret \notin Statuses /\ Settle("closed")
       \/ ret = "CHECK" /\ tries = 0 /\ Settle("closed")
SdSense ==
    /\ sd = "sense" /\ call = "done"
    /\ Issue("ready") /\ UNCHANGED tries
\* scsi_immed_command() twice, then the type and the block size
SdIdentify ==
    /\ sd \in {"inquiry", "capacity"} /\ call = "done"
    /\ \/ ret # "GOOD" /\ Settle("closed")
       \/ ret = "GOOD" /\ sd = "inquiry" /\ Issue("capacity") /\ UNCHANGED tries
       \/ ret = "GOOD" /\ sd = "capacity" /\ "nodisk" \in ScsiEnv /\ Settle("closed")
       \/ ret = "GOOD" /\ sd = "capacity" /\ Issue("label") /\ UNCHANGED tries
\* readdisklabel() complains, and the disk is open
SdLabel == sd = "label" /\ call = "done" /\ Settle("open")
\* sdstrategy(); its caller learns nothing of ret
SdStrategy == sd = "open" /\ Issue("io") /\ UNCHANGED tries
SdDone     == sd = "io" /\ call = "done" /\ Settle("open")
SdClose    == sd = "open" /\ Settle("closed")

Bus  == Answer \/ SelectionTimeout \/ Drop \/ Reselect
Loader ==
    \/ Scrun \/ Scintr \/ Scfinish
    \/ SdOpen \/ SdReady \/ SdSense \/ SdIdentify \/ SdLabel \/ SdStrategy \/ SdDone \/ SdClose
Next == Bus \/ Loader

ScsiFairness == WF_scsiVars(Bus) /\ WF_scsiVars(Scrun \/ Scintr \/ Scfinish)

Spec == Init /\ [][Next]_scsiVars /\ ScsiFairness

-----------------------------------------------------------------------------
\* CHECK CONDITION never becomes GOOD on its way from the target to sd.c, whatever
\* drops, aborts and interrupts of an earlier command come between.
CheckIsReported == call = "done" /\ sent = "CHECK" => ret # "GOOD"

\* Every command comes to an end: scintr() leaves SC_IN_PROGRESS or is called again
\* for a target that reselects.
CommandsReturn == call = "run" ~> call = "done"

\* "SCSI IO complete": a command is reported good when its target has said so, and
\* not for an interrupt of the command before it or a target that has gone.
GoodIsHonest == call = "done" /\ ret = "GOOD" => sent = "GOOD"
=============================================================================
