-------------------------------- MODULE Spc --------------------------------
(***************************************************************************)
(* The MB89352 SCSI host adapter driver (src/dev/mb89352.c): its command   *)
(* queues, the interrupt/protocol engine, the message machinery and the    *)
(* timeout path.                                                           *)
(*                                                                         *)
(* spc_intr() is a loop: once a target is connected it polls the chip and  *)
(* serves one bus phase per pass, at splbio, until the bus goes free or    *)
(* the message phase ends.  `intr' is TRUE between two passes, and while   *)
(* it is TRUE nothing that needs splbio (spc_scsi_cmd, spc_timeout) runs.  *)
(* Targets, the chip and the SCSI mid layer are the environment: Env names *)
(* what they are allowed to do in an instance.  Data pointers and byte     *)
(* counts are left out: no decision of the engine reads them.              *)
(***************************************************************************)
EXTENDS Naturals, FiniteSets, SequencesExt

CONSTANTS
    Acb,        \* the command blocks, sc_acb[]
    Lun,        \* target/lun pairs on the bus
    Env,        \* what the environment may do, a subset of AllEnv
    Openings,   \* sc_link.openings: commands the mid layer queues per lun
    NoAcb, NoLun, NoMsg

AllEnv == {
    "msgout",      \* targets enter MESSAGE OUT although ATN is not asserted
    "disconnect",  \* targets disconnect and reselect
    "check",       \* CHECK CONDITION, BUSY and reserved status bytes
    "noselect",    \* selection timeouts
    "unexpected",  \* bus free in the middle of a command
    "timeout",     \* per-command timeouts expire
    "race",        \* ... and interrupts run between softclock and splbio()
    "badmsg",      \* unknown messages, MESSAGE REJECT, long messages
    "parity",      \* parity errors on either side
    "badresel",    \* reselection without IDENTIFY or without a command
    "busreset",    \* RST asserted by another device
    "badphase",    \* an information phase the state does not allow
    "tmode",       \* another initiator selects the adapter as a target
    "resetcmd",    \* SCSI_RESET transfers from the mid layer
    "poll",        \* SCSI_POLL transfers from the mid layer
    "retry" }      \* the mid layer resubmits a finished xfer with its acb

States  == {"IDLE", "SELECTING", "RESELECTED", "CONNECTED", "DISCONNECT",
            "CMDCOMPLETE"}
Msg     == {"DEV_RESET", "PARITY_ERROR", "INIT_DET_ERR", "REJECT",
            "IDENTIFY", "ABORT"}
Flag    == {"NEXUS", "SENSE", "ABORT", "RESET"}
Error   == {"NOERROR", "STUFFUP", "SENSE", "BUSY", "SELTIMEOUT", "TIMEOUT"}
Status  == {"OK", "CHECK", "BUSY", "OTHER"}
Phase   == {"INVALID", "MSGOUT", "MSGIN", "DATA", "STAT"}
Owner   == {"free", "held", "drv", "done"}

ASSUME EnvAssumption == Env \subseteq AllEnv
ASSUME OpeningsAssumption == Openings \in Nat \ {0}
ASSUME NullAssumption == NoAcb \notin Acb /\ NoLun \notin Lun /\ NoMsg \notin Msg

VARIABLES
    state,      \* sc_state (SPC_INIT and SPC_CLEANING exist only inside spc_init)
    nexus,      \* sc_nexus
    ready,      \* ready_list
    nexusq,     \* nexus_list
    lubusy,     \* the luns whose tinfo.lubusy bit is set
    own,        \* who has the acb: free_list, mid layer, driver, mid layer again
    lun,        \* acb->xs->sc_link
    flags,      \* acb->flags
    sensing,    \* the acbs in use whose scsi_cmd spc_sense() has made a REQUEST SENSE
    error,      \* acb->xs->error
    stat,       \* acb->target_stat
    timer,      \* the acbs whose xs->stimeout is armed
    fired,      \* the acb whose spc_timeout() softclock is in, before splbio()
    polled,     \* the acbs whose xs has SCSI_POLL
    msgpriq, msgoutq, lastmsg,
    omsg,       \* the message with bytes left in sc_omess (sc_omp # sc_omess)
    aborting,   \* SPC_ABORTING in sc_flags
    drop,       \* SPC_DROP_MSGIN in sc_flags
    prevphase,  \* sc_prevphase
    intr,       \* spc_intr() is between two passes of its loop
    poller,     \* the acb spc_scsi_cmd() polls for
    polltry,    \* how many spc_timeout() calls that poll has made
    arb,        \* external: a SELECT command is outstanding in the chip
    bus,        \* external: the lun connected to us
    disc,       \* external: the luns holding a disconnected command
    atn,        \* external: the ATN line
    gotstat     \* external: this connection has sent its status byte

queueVars == <<nexus, ready, nexusq, lubusy>>
acbVars   == <<own, lun, flags, sensing, error, stat, timer, fired, polled>>
msgVars   == <<msgpriq, msgoutq, lastmsg, omsg, aborting, drop>>
ctlVars   == <<state, prevphase, intr, poller, polltry>>
busVars   == <<arb, bus, disc, atn, gotstat>>
vars      == <<queueVars, acbVars, msgVars, ctlVars, busVars>>

-----------------------------------------------------------------------------
(* Queue operations *)

(* Operators named ...Wrong are faulted forms of the operator after them:   *)
(* plausible mistakes in that code, used to show which property catches    *)
(* them.  No action uses them.                                             *)

\* TAILQ_REMOVE forgotten
UnlinkWrong(q, a) == q

\* TAILQ_REMOVE: the element leaves the list it is linked on
Unlink(q, a) ==
    IF \E i \in DOMAIN q : q[i] = a
    THEN RemoveAt(q, CHOOSE i \in DOMAIN q : q[i] = a)
    ELSE q

\* the command is not put back
PushLosesWrong(a, q) == q

\* TAILQ_INSERT_TAIL instead of _HEAD
PushWrong(a, q) == Append(q, a)

\* TAILQ_INSERT_HEAD
Push(a, q) == <<a>> \o q

\* spc_select(acb): start the chip
Select(a) == nexus' = a /\ state' = "SELECTING" /\ arb' = TRUE

\* spc_sched() without the test of lubusy
SchedWrong(q, b, n) ==
    \/ q = <<>> /\ nexus' = n /\ state' = "IDLE" /\ ready' = q /\ UNCHANGED arb
    \/ q # <<>> /\ Select(q[1]) /\ ready' = RemoveAt(q, 1)

\* spc_sched() at SPC_IDLE with ready_list q, lubusy b and sc_nexus n: select
\* the first command whose lun is not busy
Sched(q, b, n) ==
    LET idle == {i \in DOMAIN q : lun[q[i]] \notin b} IN
    \/ /\ idle = {}
       /\ nexus' = n /\ state' = "IDLE" /\ ready' = q
       /\ arb' = (arb /\ state = "IDLE")
    \/ \E i \in idle :
          /\ \A j \in idle : i <= j
          /\ Select(q[i])
          /\ ready' = RemoveAt(q, i)

\* a lun that stays busy
ReleaseWrong(a) == lubusy
\* lubusy without the lun of acb, when the acb holds a nexus
Release(a) == IF "NEXUS" \in flags[a] THEN lubusy \ {lun[a]} ELSE lubusy

\* spc_sense() on the current nexus: turn it into REQUEST SENSE and select again
Sense(a) ==
    /\ flags' = [flags EXCEPT ![a] = @ \cup {"SENSE"}]
    /\ sensing' = sensing \cup {a}
    /\ lubusy' = Release(a)
    /\ Select(a)
    /\ UNCHANGED <<ready, own, error>>

\* no default case in the switch on target_stat
VerdictWrong(a, e) ==
    IF e # "NOERROR" THEN e
    ELSE IF "ABORT" \in flags[a] THEN "STUFFUP"
    ELSE IF "SENSE" \in flags[a] THEN "SENSE"
    ELSE "NOERROR"

\* what spc_done() makes of a command that comes in with xs->error = e
Verdict(a, e) ==
    IF e # "NOERROR" THEN e
    ELSE IF "ABORT" \in flags[a] THEN "STUFFUP"
    ELSE IF "SENSE" \in flags[a] THEN "SENSE"
    ELSE IF stat[a] = "BUSY" THEN "BUSY"
    ELSE IF stat[a] = "OK" THEN "NOERROR"
    ELSE "STUFFUP"

\* the status that sends spc_done() to spc_sense() instead of completing
NeedsSense(a, e) ==
    e = "NOERROR" /\ flags[a] \cap {"ABORT", "SENSE"} = {} /\ stat[a] = "CHECK"

\* a completion that leaves the timeout running
TimeoutDelWrong(a) == timer

\* timeout_del(&xs->stimeout)
TimeoutDel(a) == timer \ {a}

\* spc_intr's "finish": timeout_del() and spc_done() on the current nexus
Finish(a, e) ==
    /\ timer' = TimeoutDel(a)
    /\ \/ NeedsSense(a, e) /\ Sense(a)
       \/ /\ ~NeedsSense(a, e)
          /\ error' = [error EXCEPT ![a] = Verdict(a, e)]
          /\ own' = [own EXCEPT ![a] = "done"]
          /\ lubusy' = Release(a)
          /\ Sched(ready, lubusy', NoAcb)
          /\ UNCHANGED <<flags, sensing>>
    /\ UNCHANGED <<nexusq, lun, stat, fired, polled>>

\* spc_sched_msgout(): ATN is raised only when nothing was scheduled before
SchedMsgout(ms) ==
    /\ msgpriq' = msgpriq \cup ms
    /\ atn' = (atn \/ msgpriq = {})
    /\ UNCHANGED <<msgoutq, lastmsg, omsg, aborting>>

-----------------------------------------------------------------------------
(* Calls from the mid layer *)

\* spc_acb_alloc(), for a transfer the mid layer addresses to lun l
AcbAlloc(a, l) ==
    /\ own[a] = "free"
    /\ own' = [own EXCEPT ![a] = "held"]
    /\ lun' = [lun EXCEPT ![a] = l]
    /\ UNCHANGED <<queueVars, flags, sensing, error, stat, timer, fired, polled, msgVars,
                   ctlVars, busVars>>

\* spc_acb_free() without acb->flags = 0
AcbFreeWrong(a) ==
    /\ own[a] = "done" /\ a # poller
    /\ own' = [own EXCEPT ![a] = "free"]
    /\ lun' = [lun EXCEPT ![a] = NoLun]
    /\ error' = [error EXCEPT ![a] = "NOERROR"]
    /\ sensing' = sensing \ {a} /\ polled' = polled \ {a}
    /\ UNCHANGED <<queueVars, flags, stat, timer, fired, msgVars, ctlVars, busVars>>

\* spc_acb_free(); the xs goes back to its pool as well
AcbFree(a) ==
    /\ own[a] = "done" /\ a # poller
    /\ own' = [own EXCEPT ![a] = "free"]
    /\ flags' = [flags EXCEPT ![a] = {}]
    /\ lun' = [lun EXCEPT ![a] = NoLun]
    /\ error' = [error EXCEPT ![a] = "NOERROR"]
    /\ sensing' = sensing \ {a} /\ polled' = polled \ {a}
    /\ UNCHANGED <<queueVars, stat, timer, fired, msgVars, ctlVars, busVars>>

\* the mid layer keeps the acb of a finished xfer for another attempt
Retry(a) ==
    /\ "retry" \in Env
    /\ own[a] = "done" /\ a # poller
    /\ own' = [own EXCEPT ![a] = "held"]
    /\ UNCHANGED <<queueVars, lun, flags, sensing, error, stat, timer, fired, polled, msgVars,
                   ctlVars, busVars>>

\* spc_scsi_cmd(): xs->error comes in as XS_NOERROR; acb->flags is not cleared
ScsiCmd(a, rst, pl) ==
    /\ ~intr
    /\ own[a] = "held"
    /\ Cardinality({b \in Acb : own[b] = "drv" /\ lun[b] = lun[a]}) < Openings
    /\ rst => "resetcmd" \in Env
    /\ pl => "poll" \in Env /\ poller = NoAcb
    /\ own' = [own EXCEPT ![a] = "drv"]
    /\ flags' = [flags EXCEPT ![a] = IF rst THEN @ \cup {"RESET"} ELSE @]
    /\ error' = [error EXCEPT ![a] = "NOERROR"]
    /\ stat' = [stat EXCEPT ![a] = "OK"]
    /\ sensing' = sensing \ {a}
    /\ polled' = IF pl THEN polled \cup {a} ELSE polled \ {a}
    /\ poller' = IF pl THEN a ELSE poller
    /\ polltry' = IF pl THEN 0 ELSE polltry
    /\ \/ state = "IDLE" /\ Sched(Append(ready, a), lubusy, nexus)
       \/ /\ state # "IDLE"
          /\ ready' = Append(ready, a)
          /\ UNCHANGED <<nexus, state, arb>>
    /\ UNCHANGED <<nexusq, lubusy, lun, timer, fired, msgVars, prevphase, intr, bus,
                   disc, atn, gotstat>>

-----------------------------------------------------------------------------
(* Timeouts *)

\* spc_abort(): a command on a queue is put in front of the ready list
Abort(a) ==
    /\ flags' = [flags EXCEPT ![a] = @ \cup {"ABORT"}]
    /\ \/ /\ a = nexus
          /\ IF state = "CONNECTED" THEN SchedMsgout({"ABORT"})
                                    ELSE UNCHANGED <<msgpriq, atn>>
          /\ UNCHANGED <<nexus, ready, nexusq, state, arb>>
       \/ /\ a # nexus
          /\ nexusq' = Unlink(nexusq, a)
          /\ LET q == Push(a, Unlink(ready, a)) IN
             \/ state = "IDLE" /\ Sched(q, lubusy, nexus)
             \/ state # "IDLE" /\ ready' = q /\ UNCHANGED <<nexus, state, arb>>
          /\ UNCHANGED <<msgpriq, atn>>
    /\ UNCHANGED <<msgoutq, lastmsg, omsg, aborting>>

\* spc_timeout() from splbio() on; a command that is being aborted is left alone
TimeoutBody(a) ==
    /\ \/ /\ "ABORT" \in flags[a]
          /\ UNCHANGED <<queueVars, flags, error, msgVars, state, arb, atn>>
       \/ /\ "ABORT" \notin flags[a]
          /\ error' = [error EXCEPT ![a] = "TIMEOUT"]
          /\ Abort(a)
          /\ UNCHANGED <<lubusy, drop>>
    /\ UNCHANGED <<own, lun, sensing, stat, polled, prevphase, intr, bus, disc, gotstat>>

\* softclock runs with the kernel lock held and below splbio
SoftclockRuns == ~intr /\ poller = NoAcb

\* the timeout expires and nothing interrupts spc_timeout() before splbio()
Timeout(a) ==
    /\ "timeout" \in Env /\ SoftclockRuns /\ fired = NoAcb
    /\ a \in timer /\ timer' = timer \ {a}
    /\ TimeoutBody(a)
    /\ UNCHANGED <<fired, poller, polltry>>

\* softclock takes the timeout off its wheel and calls spc_timeout() ...
TimeoutFire(a) ==
    /\ "race" \in Env /\ SoftclockRuns /\ fired = NoAcb
    /\ a \in timer /\ timer' = timer \ {a}
    /\ fired' = a
    /\ UNCHANGED <<queueVars, own, lun, flags, sensing, error, stat, polled, msgVars,
                   ctlVars, busVars>>

\* ... which gets to splbio() after interrupts have run.  An acb that has left
\* the driver in between is used after it was freed: FiredTimeoutIsLive says
\* that this does not happen, and what it would do is not followed further.
TimeoutRun ==
    /\ SoftclockRuns /\ fired # NoAcb
    /\ own[fired] = "drv"
    /\ TimeoutBody(fired)
    /\ fired' = NoAcb
    /\ UNCHANGED <<timer, poller, polltry>>

\* spc_poll() has counted down: spc_scsi_cmd() calls spc_timeout() and polls
\* once more, then calls it again and returns
PollExpire ==
    /\ ~intr /\ poller # NoAcb
    /\ own[poller] = "drv"
    /\ TimeoutBody(poller)
    /\ polltry' = 1 - polltry
    /\ poller' = IF polltry = 0 THEN poller ELSE NoAcb
    /\ UNCHANGED <<timer, fired>>

\* spc_poll() sees ITSDONE
PollDone ==
    /\ ~intr /\ poller # NoAcb
    /\ own[poller] = "done"
    /\ poller' = NoAcb
    /\ polltry' = 0
    /\ UNCHANGED <<queueVars, acbVars, msgVars, state, prevphase, intr, busVars>>

-----------------------------------------------------------------------------
(* spc_init() after the first time: the chip and the bus are reset and the *)
(* active commands cancelled, the current one first.  spc_done() on it     *)
(* runs spc_sched() before the state is forced to SPC_IDLE at the end.     *)

\* spc_done() on the nexus_list, after the current nexus has been finished
Cancelled == (IF nexus = NoAcb THEN {} ELSE {nexus}) \cup ToSet(nexusq)

SpcInit ==
    /\ own' = [a \in Acb |-> IF a \in Cancelled THEN "done" ELSE own[a]]
    /\ error' = [a \in Acb |-> IF a \in Cancelled THEN "STUFFUP" ELSE error[a]]
    /\ timer' = timer \ Cancelled
    /\ lubusy' = lubusy \ {lun[a] : a \in {b \in Cancelled : "NEXUS" \in flags[b]}}
    /\ nexusq' = <<>>
    /\ \/ /\ nexus # NoAcb
          /\ LET idle == {i \in DOMAIN ready : lun[ready[i]] \notin Release(nexus)} IN
             \/ /\ idle = {}
                /\ nexus' = NoAcb /\ ready' = ready /\ arb' = FALSE
             \/ \E i \in idle :
                   /\ \A j \in idle : i <= j
                   /\ nexus' = ready[i] /\ ready' = RemoveAt(ready, i) /\ arb' = TRUE
       \/ nexus = NoAcb /\ arb' = FALSE /\ UNCHANGED <<nexus, ready>>
    /\ state' = "IDLE" /\ prevphase' = "INVALID" /\ intr' = FALSE
    /\ bus' = NoLun /\ disc' = {} /\ atn' = FALSE /\ gotstat' = FALSE
    /\ UNCHANGED <<lun, flags, sensing, stat, fired, polled, msgVars, poller, polltry>>

-----------------------------------------------------------------------------
(* spc_intr() at SPC_IDLE or SPC_SELECTING: a new interrupt *)

AtRest == ~intr /\ state \in {"IDLE", "SELECTING"} /\ bus = NoLun

\* "Turn off selection stuff": sc_flags and sc_prevphase are reset
NewConnection ==
    /\ aborting' = FALSE /\ drop' = FALSE
    /\ prevphase' = "INVALID" /\ intr' = TRUE

\* the command pushed back although none was being selected
IntrReselectedWrong(l) ==
    /\ AtRest /\ l \in disc
    /\ ready' = Push(nexus, ready) /\ nexus' = NoAcb
    /\ state' = "RESELECTED"
    /\ NewConnection
    /\ bus' = l /\ disc' = disc \ {l} /\ arb' = FALSE /\ gotstat' = FALSE
    /\ UNCHANGED <<nexusq, lubusy, acbVars, msgpriq, msgoutq, lastmsg, omsg,
                   poller, polltry, atn>>

\* INTS_RESEL: push our own command back, remember who it is
IntrReselected(l) ==
    /\ AtRest /\ (l \in disc \/ "badresel" \in Env)
    /\ \/ /\ state = "SELECTING"
          /\ ready' = Push(nexus, ready)
          /\ nexus' = NoAcb
       \/ state = "IDLE" /\ UNCHANGED <<ready, nexus>>
    /\ state' = "RESELECTED"
    /\ NewConnection
    /\ bus' = l /\ disc' = disc \ {l} /\ arb' = FALSE /\ gotstat' = FALSE
    /\ UNCHANGED <<nexusq, lubusy, acbVars, msgpriq, msgoutq, lastmsg, omsg,
                   poller, polltry, atn>>

\* INTS_CMD_DONE: the selection has succeeded
IntrSelected ==
    /\ AtRest /\ arb /\ state = "SELECTING"
    /\ msgpriq' = {"IDENTIFY"} \cup
                  (IF "RESET" \in flags[nexus] THEN {"DEV_RESET"}
                   ELSE flags[nexus] \cap {"ABORT"})
    /\ flags' = [flags EXCEPT ![nexus] = @ \cup {"NEXUS"}]
    /\ lubusy' = lubusy \cup {lun[nexus]}
    /\ timer' = IF nexus \in polled THEN timer ELSE timer \cup {nexus}
    /\ state' = "CONNECTED"
    /\ NewConnection
    /\ bus' = lun[nexus] /\ arb' = FALSE /\ gotstat' = FALSE
    /\ UNCHANGED <<nexus, ready, nexusq, own, lun, sensing, error, stat, fired, polled,
                   msgoutq, lastmsg, omsg, poller, polltry, disc, atn>>

\* INTS_TIMEOUT: nobody answered
IntrSelTimeout ==
    /\ "noselect" \in Env
    /\ AtRest /\ arb /\ state = "SELECTING"
    /\ Finish(nexus, "SELTIMEOUT")
    /\ UNCHANGED <<msgVars, prevphase, intr, poller, polltry, bus, disc, atn,
                   gotstat>>

\* INTS_CMD_DONE or INTS_TIMEOUT when sc_state is not SPC_SELECTING
IntrSelectWhileIdle ==
    /\ AtRest /\ arb /\ state = "IDLE"
    /\ SpcInit

\* INTS_SEL: target mode is not supported, so just schedule
IntrTargetMode ==
    /\ "tmode" \in Env
    /\ AtRest
    /\ Sched(ready, lubusy, nexus)
    /\ UNCHANGED <<nexusq, lubusy, acbVars, msgVars, prevphase, intr, poller,
                   polltry, bus, disc, atn, gotstat>>

\* any other interrupt at SPC_IDLE (at SPC_SELECTING nothing is done)
IntrBusFree ==
    /\ AtRest /\ state = "IDLE"
    /\ Sched(ready, lubusy, nexus)
    /\ UNCHANGED <<nexusq, lubusy, acbVars, msgVars, prevphase, intr, poller,
                   polltry, bus, disc, atn, gotstat>>

\* INTS_RST
IntrReset == "busreset" \in Env /\ SpcInit

-----------------------------------------------------------------------------
(* spc_intr() with a target on the bus.  The first pass of a new interrupt *)
(* and every later pass come here.                                         *)

Pass == bus # NoLun /\ (intr \/ state \in {"RESELECTED", "DISCONNECT", "CMDCOMPLETE"})

\* the message phase has ended: INTS_CMD_DONE after MESSAGE IN leaves the handler
IntrReturn ==
    /\ intr /\ prevphase = "MSGIN" /\ state # "CONNECTED"
    /\ intr' = FALSE
    /\ UNCHANGED <<queueVars, acbVars, msgVars, state, prevphase, poller, polltry,
                   busVars>>

\* a parity error latched in SERR, seen before the phase is served
IntrParity ==
    /\ "parity" \in Env /\ Pass
    /\ IF prevphase = "MSGIN"
       THEN drop' = TRUE /\ SchedMsgout({"PARITY_ERROR"})
       ELSE UNCHANGED drop /\ SchedMsgout({"INIT_DET_ERR"})
    /\ intr' = TRUE
    /\ UNCHANGED <<queueVars, acbVars, state, prevphase, poller, polltry, arb, bus,
                   disc, gotstat>>

\* INTS_DISCON: bus free
Disconnected ==
    /\ Pass
    /\ bus' = NoLun /\ atn' = FALSE /\ gotstat' = FALSE /\ intr' = FALSE
    /\ UNCHANGED <<msgVars, prevphase, poller, polltry>>

\* a reselection that came to nothing
DisconReselected ==
    /\ state = "RESELECTED" /\ (aborting \/ "badresel" \in Env)
    /\ Disconnected
    /\ Sched(ready, lubusy, nexus)
    /\ UNCHANGED <<nexusq, lubusy, acbVars, disc>>

\* the target has dropped a command nobody asked it to drop
DisconUnexpected ==
    /\ "unexpected" \in Env
    /\ state = "CONNECTED" /\ ~aborting
    /\ Disconnected
    /\ Sense(nexus)
    /\ UNCHANGED <<nexusq, lun, stat, timer, fired, polled, disc>>

\* the target has obeyed ABORT or BUS DEVICE RESET
DisconAborted ==
    /\ state = "CONNECTED" /\ aborting
    /\ Disconnected
    /\ Finish(nexus, "STUFFUP")
    /\ UNCHANGED disc

\* after a DISCONNECT message
DisconDisconnect ==
    /\ state = "DISCONNECT"
    /\ Disconnected
    /\ nexusq' = Push(nexus, nexusq)
    /\ Sched(ready, lubusy, NoAcb)
    /\ disc' = disc \cup {bus}
    /\ UNCHANGED <<lubusy, acbVars>>

\* after a COMMAND COMPLETE message
DisconComplete ==
    /\ state = "CMDCOMPLETE"
    /\ Disconnected
    /\ Finish(nexus, error[nexus])
    /\ UNCHANGED disc

-----------------------------------------------------------------------------
(* One information phase per pass *)

InPhase(p, ss) ==
    /\ Pass /\ state \in ss
    /\ prevphase' = p /\ intr' = TRUE
    /\ UNCHANGED <<poller, polltry, arb, bus, disc>>

\* the order in which spc_msgout() picks scheduled messages: lowest bit first
Rank == [m \in Msg |->
    CASE m = "DEV_RESET" -> 1 [] m = "PARITY_ERROR" -> 2 [] m = "INIT_DET_ERR" -> 3
      [] m = "REJECT" -> 4 [] m = "IDENTIFY" -> 5 [] m = "ABORT" -> 6]

\* send the messages of pri in order until the last or, if cut, until the
\* target leaves MESSAGE OUT with message m picked but not sent; out and last
\* are what has been sent before
Burst(pri, out, last) ==
    \E m \in pri, cut \in BOOLEAN :
        LET picked == {x \in pri : Rank[x] <= Rank[m]}
            sent   == IF cut THEN picked \ {m} ELSE picked IN
        /\ cut \/ picked = pri
        /\ msgpriq' = pri \ picked
        /\ msgoutq' = out \cup picked
        /\ omsg' = IF cut THEN m ELSE NoMsg
        /\ \/ sent = {} /\ lastmsg' = last
           \/ \E x \in sent : (\A y \in sent : Rank[y] <= Rank[x]) /\ lastmsg' = x
        /\ aborting' = (aborting \/ picked \cap {"DEV_RESET", "ABORT"} # {})
        /\ atn' = (cut /\ (atn \/ prevphase = "MSGOUT"))

\* spc_msgout(): continue the message that was cut, or send again what the
\* target did not accept, or send what is scheduled; a NOOP if that is nothing
PhaseMsgOut ==
    /\ "msgout" \in Env \/ atn
    /\ InPhase("MSGOUT", {"CONNECTED", "RESELECTED"})
    /\ LET continue == prevphase = "MSGOUT" /\ omsg # NoMsg
           again    == prevphase = "MSGOUT" /\ omsg = NoMsg
           pri      == IF again THEN msgpriq \cup msgoutq ELSE msgpriq IN
       \/ continue /\ UNCHANGED <<msgpriq, msgoutq, lastmsg, omsg, aborting, atn>>
       \/ /\ continue /\ msgpriq = {}
          /\ lastmsg' = omsg /\ omsg' = NoMsg /\ atn' = FALSE
          /\ UNCHANGED <<msgpriq, msgoutq, aborting>>
       \/ continue /\ msgpriq # {} /\ Burst(msgpriq, msgoutq, omsg)
       \/ /\ ~continue /\ pri = {}
          /\ msgoutq' = {} /\ lastmsg' = NoMsg /\ omsg' = NoMsg /\ atn' = FALSE
          /\ UNCHANGED <<msgpriq, aborting>>
       \/ ~continue /\ pri # {} /\ Burst(pri, {}, NoMsg)
    /\ UNCHANGED <<queueVars, acbVars, state, drop, gotstat>>

\* COMMAND, DATA OUT and DATA IN
PhaseData ==
    /\ ~gotstat
    /\ InPhase("DATA", {"CONNECTED"})
    /\ UNCHANGED <<queueVars, acbVars, msgVars, state, atn, gotstat>>

\* STATUS
PhaseStat(s) ==
    /\ ~gotstat /\ (s # "OK" => "check" \in Env)
    /\ InPhase("STAT", {"CONNECTED"})
    /\ stat' = [stat EXCEPT ![nexus] = s]
    /\ gotstat' = TRUE
    /\ UNCHANGED <<queueVars, own, lun, flags, sensing, error, timer, fired, polled,
                   msgVars, state, atn>>

\* a phase that the state does not allow
PhaseUnexpected ==
    /\ "badphase" \in Env
    /\ Pass /\ state # "CONNECTED"
    /\ SpcInit

\* MESSAGE IN: a new phase ends the discarding of a garbled message
MsgIn(ss) ==
    /\ InPhase("MSGIN", ss)
    /\ UNCHANGED <<acbVars, gotstat>>

Dropping == drop /\ prevphase = "MSGIN"

MsgAccepted(ss) == ~Dropping /\ MsgIn(ss) /\ drop' = FALSE

\* message bytes discarded after a parity error or an overlong message
MsgInDropped ==
    /\ Dropping
    /\ MsgIn({"CONNECTED", "RESELECTED"})
    /\ UNCHANGED <<queueVars, msgVars, state, atn>>

\* a parity error in the message itself: discard it and ask for it again
MsgInGarbled ==
    /\ "parity" \in Env
    /\ MsgIn({"CONNECTED", "RESELECTED"})
    /\ drop' = TRUE
    /\ SchedMsgout({"PARITY_ERROR"})
    /\ UNCHANGED <<queueVars, state>>

\* an overlong message discarded without an answer
MsgInTooLongWrong ==
    /\ "badmsg" \in Env /\ ~Dropping
    /\ MsgIn({"CONNECTED", "RESELECTED"})
    /\ drop' = TRUE
    /\ UNCHANGED <<queueVars, state, msgpriq, msgoutq, lastmsg, omsg, aborting, atn>>

\* more than SPC_MAX_MSG_LEN bytes
MsgInTooLong ==
    /\ "badmsg" \in Env /\ ~Dropping
    /\ MsgIn({"CONNECTED", "RESELECTED"})
    /\ drop' = TRUE
    /\ SchedMsgout({"REJECT"})
    /\ UNCHANGED <<queueVars, state>>

\* COMMAND COMPLETE
MsgInCmdComplete ==
    /\ gotstat
    /\ MsgAccepted({"CONNECTED"})
    /\ state' = "CMDCOMPLETE"
    /\ UNCHANGED <<queueVars, msgpriq, msgoutq, lastmsg, omsg, aborting, atn>>

\* DISCONNECT
MsgInDisconnect ==
    /\ "disconnect" \in Env /\ ~gotstat
    /\ MsgAccepted({"CONNECTED"})
    /\ state' = "DISCONNECT"
    /\ UNCHANGED <<queueVars, msgpriq, msgoutq, lastmsg, omsg, aborting, atn>>

\* MESSAGE PARITY ERROR: send the last message again
MsgInParityError ==
    /\ "parity" \in Env
    /\ MsgAccepted({"CONNECTED"})
    /\ SchedMsgout({lastmsg} \ {NoMsg})
    /\ UNCHANGED <<queueVars, state>>

\* MESSAGE REJECT: only a rejected INITIATOR DETECTED ERROR is acted on
MsgInMessageReject ==
    /\ "badmsg" \in Env
    /\ MsgAccepted({"CONNECTED"})
    /\ IF lastmsg = "INIT_DET_ERR"
       THEN SchedMsgout({"ABORT"})
       ELSE UNCHANGED <<msgpriq, msgoutq, lastmsg, omsg, aborting, atn>>
    /\ UNCHANGED <<queueVars, state>>

\* NOOP, SAVE DATA POINTER, RESTORE POINTERS
MsgInPointers ==
    /\ MsgAccepted({"CONNECTED"})
    /\ UNCHANGED <<queueVars, state, msgpriq, msgoutq, lastmsg, omsg, aborting, atn>>

\* an extended or unknown message
MsgInUnknown ==
    /\ "badmsg" \in Env
    /\ MsgAccepted({"CONNECTED"})
    /\ SchedMsgout({"REJECT"})
    /\ UNCHANGED <<queueVars, state>>

\* a second message after DISCONNECT or COMMAND COMPLETE in the same phase
MsgInUnexpected ==
    /\ "badmsg" \in Env /\ intr /\ prevphase = "MSGIN"
    /\ MsgAccepted({"DISCONNECT", "CMDCOMPLETE"})
    /\ SchedMsgout({"DEV_RESET"})
    /\ UNCHANGED <<queueVars, state>>

\* the IDENTIFY of a reselecting target, spc_reselect()
MsgInIdentify(l) ==
    /\ l = bus
    /\ MsgAccepted({"RESELECTED"})
    /\ \/ \E i \in DOMAIN nexusq :
             /\ lun[nexusq[i]] = l
             /\ \A j \in DOMAIN nexusq : j < i => lun[nexusq[j]] # l
             /\ nexus' = nexusq[i]
             /\ nexusq' = RemoveAt(nexusq, i)
             /\ state' = "CONNECTED"
             /\ lubusy' = lubusy \cup {l}
             /\ LET m == IF "RESET" \in flags[nexusq[i]] THEN {"DEV_RESET"}
                         ELSE flags[nexusq[i]] \cap {"ABORT"} IN
                IF m # {} THEN SchedMsgout(m)
                ELSE UNCHANGED <<msgpriq, msgoutq, lastmsg, omsg, aborting, atn>>
       \/ /\ \A i \in DOMAIN nexusq : lun[nexusq[i]] # l
          /\ SchedMsgout({"ABORT"})
          /\ UNCHANGED <<nexus, nexusq, lubusy, state>>
    /\ UNCHANGED ready

\* reselected without an IDENTIFY, or with an invalid selection ID
MsgInNotIdentify ==
    /\ "badresel" \in Env
    /\ MsgAccepted({"RESELECTED"})
    /\ SchedMsgout({"DEV_RESET"})
    /\ UNCHANGED <<queueVars, state>>

-----------------------------------------------------------------------------
Init ==
    /\ state = "IDLE" /\ nexus = NoAcb
    /\ ready = <<>> /\ nexusq = <<>> /\ lubusy = {}
    /\ own = [a \in Acb |-> "free"]
    /\ lun = [a \in Acb |-> NoLun]
    /\ flags = [a \in Acb |-> {}] /\ sensing = {}
    /\ error = [a \in Acb |-> "NOERROR"]
    /\ stat = [a \in Acb |-> "OK"]
    /\ timer = {} /\ fired = NoAcb
    /\ polled = {}
    /\ msgpriq = {} /\ msgoutq = {} /\ lastmsg = NoMsg /\ omsg = NoMsg
    /\ aborting = FALSE /\ drop = FALSE
    /\ prevphase = "INVALID" /\ intr = FALSE
    /\ poller = NoAcb /\ polltry = 0
    /\ arb = FALSE /\ bus = NoLun /\ disc = {} /\ atn = FALSE /\ gotstat = FALSE

MidLayer ==
    \E a \in Acb :
        \/ \E l \in Lun : AcbAlloc(a, l)
        \/ AcbFree(a) \/ Retry(a)
        \/ \E rst, pl \in BOOLEAN : ScsiCmd(a, rst, pl)

Clock ==
    \/ \E a \in Acb : Timeout(a) \/ TimeoutFire(a)
    \/ TimeoutRun \/ PollExpire \/ PollDone

Selection ==
    \/ IntrSelected \/ IntrSelTimeout \/ IntrSelectWhileIdle
    \/ IntrTargetMode \/ IntrBusFree \/ IntrReset
    \/ \E l \in Lun : IntrReselected(l)

BusFree ==
    \/ DisconReselected \/ DisconUnexpected \/ DisconAborted
    \/ DisconDisconnect \/ DisconComplete

Information ==
    \/ IntrReturn \/ IntrParity
    \/ PhaseMsgOut \/ PhaseData \/ PhaseUnexpected
    \/ \E s \in Status : PhaseStat(s)

MessageIn ==
    \/ MsgInDropped \/ MsgInGarbled \/ MsgInTooLong \/ MsgInCmdComplete
    \/ MsgInDisconnect \/ MsgInParityError \/ MsgInMessageReject
    \/ MsgInPointers \/ MsgInUnknown \/ MsgInUnexpected \/ MsgInNotIdentify
    \/ \E l \in Lun : MsgInIdentify(l)

Next == MidLayer \/ Clock \/ Selection \/ BusFree \/ Information \/ MessageIn

Spec == Init /\ [][Next]_vars
=============================================================================
