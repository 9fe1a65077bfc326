------------------------ MODULE SpcPropertiesProofs ------------------------
(***************************************************************************)
(* More proofs about the SCSI driver, for any number of command blocks and *)
(* luns: that it loses no command, answers what it discards, completes     *)
(* honestly, and implements ScsiPort.  They use the invariant of           *)
(* SpcProofs; what a theorem does not hold of is excluded by a named       *)
(* assumption on Env.                                                      *)
(***************************************************************************)
EXTENDS SpcRefinement, SpcProofs

-----------------------------------------------------------------------------
(* No command is lost *)

\* nothing makes spc_init() cancel commands, and nobody selects the adapter
NoRestart == Env \cap {"busreset", "badphase", "tmode"} = {}

\* The chip is selecting only in SPC_SELECTING: otherwise the interrupt of a
\* finished selection would restart the driver.
SelectionIsOurs == arb => state = "SELECTING"

ConInv == Conserved /\ SelectionIsOurs

\* spc_sched() without a nexus keeps every command of its list, and leaves the
\* nexus where the state says
LEMMA SchedKeeps ==
    ASSUME NEW q \in Seq(Acb), IsInjective(q), NEW b, Sched(q, b, NoAcb), SelectionIsOurs
    PROVE  /\ ToSet(q) \subseteq ToSet(ready') \cup {nexus'}
           /\ NexusMatchesState' /\ SelectionIsOurs'
<1>1. /\ \/ ready' = q /\ nexus' = NoAcb /\ state' = "IDLE"
         \/ /\ state' = "SELECTING" /\ nexus' \in ToSet(q)
            /\ ToSet(ready') = ToSet(q) \ {nexus'}
    BY SchedStep
<1>2. arb' => state' = "SELECTING"
    BY DEF Sched, Select, SelectionIsOurs
<1>3. NoAcb \notin ToSet(q)
    BY Listed
<1> QED BY <1>1, <1>2, <1>3 DEF NexusMatchesState, SelectionIsOurs

\* a step that leaves the lists, the nexus and the chip alone
LEMMA ConQuiet ==
    ASSUME ConInv, UNCHANGED <<nexus, ready, nexusq, arb>>,
           \A a \in Acb : own'[a] = "drv" => own[a] = "drv",
           state' = state \/ (Connected /\ state' \in {"CONNECTED", "DISCONNECT", "CMDCOMPLETE"})
    PROVE  ConInv'
BY DEF ConInv, Conserved, NothingLost, NexusMatchesState, SelectionIsOurs, Queued, Connected

LEMMA ConMidLayer == ASSUME IInv, ConInv, MidLayer PROVE ConInv'
<1> USE DEF IInv, QueueType
<1>1. ASSUME NEW a \in Acb, AcbFree(a) \/ Retry(a) \/ \E l \in Lun : AcbAlloc(a, l)
      PROVE  ConInv'
    BY <1>1, ConQuiet DEF AcbAlloc, AcbFree, Retry, queueVars, ctlVars, busVars
<1>2. ASSUME NEW a \in Acb, NEW rst \in BOOLEAN, NEW pl \in BOOLEAN, ScsiCmd(a, rst, pl)
      PROVE  ConInv'
    <2> DEFINE q == Append(ready, a)
    <2>1. own[a] = "held" /\ own' = [own EXCEPT ![a] = "drv"] /\ nexusq' = nexusq
        BY <1>2 DEF ScsiCmd
    <2>2. q \in Seq(Acb) /\ IsInjective(q) /\ ToSet(q) = ToSet(ready) \cup {a}
        BY <2>1, NotQueued, AppendSet DEF Exclusive
    <2> HIDE DEF q
    <2>3. \A c \in Acb : own'[c] = "drv" => c \in ToSet(q) \cup ToSet(nexusq) \cup {nexus}
        BY <2>1, <2>2 DEF ConInv, Conserved, NothingLost, Queued
    <2>4. CASE state = "IDLE" /\ Sched(q, lubusy, nexus)
        <3>1. nexus = NoAcb
            BY <2>4 DEF ConInv, Conserved, NexusMatchesState
        <3>2. /\ ToSet(q) \subseteq ToSet(ready') \cup {nexus'}
              /\ NexusMatchesState' /\ SelectionIsOurs'
            BY <2>2, <2>4, <3>1, SchedKeeps DEF ConInv
        <3> QED
            BY <2>1, <2>3, <3>1, <3>2, NullAssumption DEF ConInv, Conserved, NothingLost, Queued
    <2>5. CASE ready' = q /\ UNCHANGED <<nexus, state, arb>>
        BY <2>1, <2>3, <2>5 DEF ConInv, Conserved, NothingLost, Queued, NexusMatchesState,
                                SelectionIsOurs
    <2> QED BY <1>2, <2>4, <2>5 DEF ScsiCmd, q
<1> QED BY <1>1, <1>2 DEF MidLayer

LEMMA ConTimeout ==
    ASSUME IInv, ConInv, NEW a \in Acb, TimeoutBody(a) PROVE ConInv'
<1> USE DEF IInv, QueueType
<1>1. own' = own
    BY DEF TimeoutBody
<1>2. CASE UNCHANGED <<nexus, ready, nexusq, state, arb>>
    BY <1>1, <1>2, ConQuiet
<1>3. CASE a # nexus /\ Abort(a)
    <2> DEFINE q == Push(a, Unlink(ready, a))
    <2>1. /\ Unlink(ready, a) \in Seq(Acb) /\ IsInjective(Unlink(ready, a))
          /\ ToSet(Unlink(ready, a)) = ToSet(ready) \ {a}
        BY UnlinkSet DEF Exclusive
    <2>2. q \in Seq(Acb) /\ IsInjective(q) /\ ToSet(q) = ToSet(ready) \cup {a}
        BY <2>1, PushSet
    <2>3. nexusq' = Unlink(nexusq, a) /\ ToSet(nexusq') = ToSet(nexusq) \ {a}
        BY <1>3, UnlinkSet DEF Exclusive, Abort
    <2> HIDE DEF q
    <2>4. \A c \in Acb : own'[c] = "drv" => c \in ToSet(q) \cup ToSet(nexusq') \cup {nexus}
        BY <1>1, <2>2, <2>3 DEF ConInv, Conserved, NothingLost, Queued
    <2>5. CASE state = "IDLE" /\ Sched(q, lubusy, nexus)
        <3>1. nexus = NoAcb
            BY <2>5 DEF ConInv, Conserved, NexusMatchesState
        <3>2. /\ ToSet(q) \subseteq ToSet(ready') \cup {nexus'}
              /\ NexusMatchesState' /\ SelectionIsOurs'
            BY <2>2, <2>5, <3>1, SchedKeeps DEF ConInv
        <3> QED BY <2>4, <3>1, <3>2, NullAssumption DEF ConInv, Conserved, NothingLost, Queued
    <2>6. CASE ready' = q /\ UNCHANGED <<nexus, state, arb>>
        BY <2>4, <2>6 DEF ConInv, Conserved, NothingLost, Queued, NexusMatchesState, SelectionIsOurs
    <2> QED BY <1>3, <2>5, <2>6 DEF Abort, q
<1> QED BY <1>2, <1>3 DEF TimeoutBody, Abort, queueVars

\* timeout_del() and spc_done(): the one command that leaves the lists is done
LEMMA ConFinish ==
    ASSUME IInv, ConInv, NEW e, Finish(nexus, e), state = "SELECTING" \/ Connected
    PROVE  ConInv'
<1> USE DEF IInv, QueueType
<1>1. nexusq' = nexusq /\ nexus \in Acb
    BY DEF Finish, NexusHeld
<1>2. CASE Sense(nexus)
    BY <1>1, <1>2, NullAssumption DEF Sense, Select, ConInv, Conserved, NothingLost, Queued,
        NexusMatchesState, SelectionIsOurs
<1>3. CASE own' = [own EXCEPT ![nexus] = "done"] /\ Sched(ready, lubusy', NoAcb)
    <2>1. /\ ToSet(ready) \subseteq ToSet(ready') \cup {nexus'}
          /\ NexusMatchesState' /\ SelectionIsOurs'
        BY <1>3, SchedKeeps DEF ConInv, Exclusive
    <2> QED BY <1>1, <1>3, <2>1 DEF ConInv, Conserved, NothingLost, Queued
<1> QED BY <1>2, <1>3 DEF Finish

LEMMA ConSelection == ASSUME NoRestart, IInv, ConInv, Selection PROVE ConInv'
<1> USE DEF IInv, QueueType
<1>1. CASE IntrSelected
    BY <1>1, NullAssumption DEF IntrSelected, ConInv, Conserved, NothingLost, Queued, NexusMatchesState,
        SelectionIsOurs
<1>2. CASE IntrSelTimeout
    BY <1>2, ConFinish DEF IntrSelTimeout
<1>3. ~IntrSelectWhileIdle /\ ~IntrTargetMode /\ ~IntrReset
    BY DEF IntrSelectWhileIdle, IntrTargetMode, IntrReset, NoRestart, ConInv, SelectionIsOurs
<1>4. CASE IntrBusFree
    <2>1. state = "IDLE" /\ nexus = NoAcb /\ Sched(ready, lubusy, NoAcb) /\ own' = own /\ nexusq' = nexusq
        BY <1>4 DEF IntrBusFree, acbVars, ConInv, Conserved, NexusMatchesState
    <2>2. /\ ToSet(ready) \subseteq ToSet(ready') \cup {nexus'}
          /\ NexusMatchesState' /\ SelectionIsOurs'
        BY <2>1, SchedKeeps DEF ConInv, Exclusive
    <2> QED BY <2>1, <2>2, NullAssumption DEF ConInv, Conserved, NothingLost, Queued
<1>5. ASSUME NEW l \in Lun, IntrReselected(l) PROVE ConInv'
    <2>1. state' = "RESELECTED" /\ arb' = FALSE /\ own' = own /\ nexusq' = nexusq
        BY <1>5 DEF IntrReselected, acbVars
    <2>2. CASE state = "SELECTING" /\ ready' = Push(nexus, ready) /\ nexus' = NoAcb
        <3>1. nexus \in Acb /\ nexus \notin ToSet(ready)
            BY <2>2 DEF NexusHeld, Exclusive
        <3>2. ToSet(ready') = ToSet(ready) \cup {nexus}
            BY <2>2, <3>1, PushSet DEF Exclusive
        <3> QED BY <2>1, <2>2, <3>2 DEF ConInv, Conserved, NothingLost, Queued, NexusMatchesState,
                                       SelectionIsOurs
    <2>3. CASE state = "IDLE" /\ UNCHANGED <<ready, nexus>>
        BY <2>1, <2>3 DEF ConInv, Conserved, NothingLost, Queued, NexusMatchesState, SelectionIsOurs
    <2> QED BY <1>5, <2>2, <2>3 DEF IntrReselected
<1> QED BY <1>1, <1>2, <1>3, <1>4, <1>5 DEF Selection

LEMMA ConBusFree == ASSUME IInv, ConInv, BusFree PROVE ConInv'
<1> USE DEF IInv, QueueType
<1>1. CASE DisconReselected
    <2>1. nexus = NoAcb /\ Sched(ready, lubusy, NoAcb) /\ own' = own /\ nexusq' = nexusq
        BY <1>1 DEF DisconReselected, acbVars, ConInv, Conserved, NexusMatchesState
    <2>2. /\ ToSet(ready) \subseteq ToSet(ready') \cup {nexus'}
          /\ NexusMatchesState' /\ SelectionIsOurs'
        BY <2>1, SchedKeeps DEF ConInv, Exclusive
    <2> QED BY <2>1, <2>2, NullAssumption DEF ConInv, Conserved, NothingLost, Queued
<1>2. CASE DisconUnexpected
    BY <1>2, NullAssumption DEF DisconUnexpected, Sense, Select, ConInv, Conserved, NothingLost,
        Queued, NexusMatchesState, SelectionIsOurs
<1>3. CASE DisconAborted
    BY <1>3, ConFinish DEF DisconAborted, Connected
<1>4. CASE DisconComplete
    BY <1>4, ConFinish DEF DisconComplete, Connected
<1>5. CASE DisconDisconnect
    <2>1. nexus \in Acb /\ nexus \notin ToSet(nexusq)
        BY <1>5 DEF DisconDisconnect, NexusHeld, Connected, Exclusive
    <2>2. ToSet(nexusq') = ToSet(nexusq) \cup {nexus} /\ own' = own
        BY <1>5, <2>1, PushSet DEF DisconDisconnect, acbVars, Exclusive
    <2>3. /\ ToSet(ready) \subseteq ToSet(ready') \cup {nexus'}
          /\ NexusMatchesState' /\ SelectionIsOurs'
        BY <1>5, SchedKeeps DEF DisconDisconnect, ConInv, Exclusive
    <2> QED BY <2>2, <2>3 DEF ConInv, Conserved, NothingLost, Queued
<1> QED BY <1>1, <1>2, <1>3, <1>4, <1>5 DEF BusFree

LEMMA ConMessageIn == ASSUME IInv, ConInv, MessageIn PROVE ConInv'
<1> USE DEF IInv, QueueType
<1>1. own' = own /\ arb' = arb
    BY DEF MessageIn, MsgInDropped, MsgInGarbled, MsgInTooLong, MsgInCmdComplete, MsgInDisconnect,
        MsgInParityError, MsgInMessageReject, MsgInPointers, MsgInUnknown, MsgInUnexpected,
        MsgInNotIdentify, MsgInIdentify, MsgAccepted, MsgIn, InPhase, acbVars
<1>2. CASE UNCHANGED <<nexus, ready, nexusq, state>>
    BY <1>1, <1>2, ConQuiet
<1>3. CASE MsgInCmdComplete \/ MsgInDisconnect
    BY <1>1, <1>3, ConQuiet DEF MsgInCmdComplete, MsgInDisconnect, MsgAccepted, MsgIn, InPhase,
        Connected, queueVars
<1>4. ASSUME NEW l \in Lun, NEW i \in DOMAIN nexusq, nexus' = nexusq[i],
             nexusq' = RemoveAt(nexusq, i), state = "RESELECTED", state' = "CONNECTED", ready' = ready
      PROVE  ConInv'
    <2>1. ToSet(nexusq') = ToSet(nexusq) \ {nexus'}
        BY <1>4, RemoveAtSet DEF Exclusive
    <2>2. nexus' \in ToSet(nexusq) /\ nexus' # NoAcb /\ nexus = NoAcb
        BY <1>4, Listed DEF ToSet, ConInv, Conserved, NexusMatchesState
    <2> QED BY <1>1, <1>4, <2>1, <2>2, NullAssumption DEF ConInv, Conserved, NothingLost, Queued,
        NexusMatchesState, SelectionIsOurs
<1>5. ASSUME NEW l \in Lun, MsgInIdentify(l) PROVE ConInv'
    BY <1>2, <1>4, <1>5 DEF MsgInIdentify, MsgAccepted, MsgIn, InPhase
<1> QED
    BY <1>2, <1>3, <1>5 DEF MessageIn, MsgInDropped, MsgInGarbled, MsgInTooLong,
        MsgInParityError, MsgInMessageReject, MsgInPointers, MsgInUnknown, MsgInUnexpected,
        MsgInNotIdentify, queueVars

(***************************************************************************)
(* Between resets, and while nobody selects the adapter as a target, every *)
(* command the driver has accepted is on a list or is the nexus, and the   *)
(* state tells which: selection races, backoffs, senses, aborts, timeouts  *)
(* and unexpected disconnections lose none (spc_sched, spc_intr,           *)
(* spc_abort, spc_done).                                                   *)
(***************************************************************************)
THEOREM NoCommandIsLost == ASSUME NoRestart PROVE Spec => []Conserved
<1>1. Init => ConInv
    BY DEF Init, ConInv, Conserved, NothingLost, NexusMatchesState, SelectionIsOurs
<1>2. TypeOK /\ IInv /\ ConInv /\ [Next]_vars => ConInv'
    <2> SUFFICES ASSUME TypeOK, IInv, ConInv, [Next]_vars PROVE ConInv'
        OBVIOUS
    <2>1. CASE Clock
        <3>1. CASE UNCHANGED <<nexus, ready, nexusq, arb, own, state>>
            BY <3>1, ConQuiet
        <3>2. ASSUME NEW a \in Acb, Timeout(a) PROVE ConInv'
            BY <3>2, ConTimeout DEF Timeout
        <3>3. CASE TimeoutRun \/ PollExpire
            BY <3>3, ConTimeout DEF TimeoutRun, PollExpire, TypeOK
        <3> QED BY <2>1, <3>1, <3>2, <3>3 DEF Clock, TimeoutFire, PollDone, queueVars, acbVars,
                                             ctlVars, busVars
    <2>2. CASE Information
        <3>1. ~PhaseUnexpected
            BY DEF PhaseUnexpected, NoRestart
        <3>2. UNCHANGED <<nexus, ready, nexusq, arb, own, state>>
            BY <2>2, <3>1 DEF Information, IntrReturn, IntrParity, PhaseMsgOut, PhaseData, PhaseStat,
                InPhase, queueVars, acbVars, busVars
        <3> QED BY <3>2, ConQuiet
    <2>3. CASE UNCHANGED vars
        BY <2>3, ConQuiet DEF vars, queueVars, acbVars, ctlVars, busVars
    <2> QED BY <2>1, <2>2, <2>3, ConMidLayer, ConSelection, ConBusFree, ConMessageIn DEF Next
<1>3. ConInv => Conserved
    BY DEF ConInv
<1> QED BY <1>1, <1>2, <1>3, Invariance, PTL DEF Spec
-----------------------------------------------------------------------------
(* What a command is reported as *)

\* A command that the driver has carries no error but that of its own timeout,
\* COMMAND COMPLETE has been preceded by a status byte, and a block whose command is
\* now a REQUEST SENSE says so in its flags.
HonInv ==
    /\ \A a \in Acb : own[a] = "drv" => error[a] \in {"NOERROR", "TIMEOUT"}
    /\ state = "CMDCOMPLETE" => gotstat
    /\ \A a \in sensing : "SENSE" \in flags[a]

\* spc_done() makes a command good only if its status is good, and says SENSE only of
\* one whose REQUEST SENSE was its last
LEMMA VerdictHonest ==
    ASSUME NEW a, NEW e \in {"NOERROR", "TIMEOUT", "STUFFUP", "SELTIMEOUT"}
    PROVE  /\ Verdict(a, e) = "NOERROR" => e = "NOERROR" /\ stat[a] = "OK"
           /\ Verdict(a, e) = "NOERROR" => "SENSE" \notin flags[a]
           /\ Verdict(a, e) = "SENSE" => e = "NOERROR" /\ "SENSE" \in flags[a]
BY DEF Verdict

\* the completions, and what they report
LEMMA FinishHonest ==
    ASSUME TypeOK, IInv, HonInv, NEW e \in {"NOERROR", "TIMEOUT", "STUFFUP", "SELTIMEOUT"},
           Finish(nexus, e), state = "SELECTING" \/ Connected
    PROVE  /\ \A a \in Acb : own'[a] = "drv" => own[a] = "drv" /\ error'[a] = error[a]
           /\ state' \in {"IDLE", "SELECTING"}
           /\ \A a \in Acb : own[a] = "drv" /\ own'[a] = "done" =>
                 /\ a = nexus
                 /\ error'[a] = "NOERROR" =>
                       e = "NOERROR" /\ stat[a] = "OK" /\ "SENSE" \notin flags[a]
                 /\ error'[a] = "SENSE" => e = "NOERROR" /\ "SENSE" \in flags[a]
           /\ \A a \in sensing' : "SENSE" \in flags'[a]
<1>1. /\ nexus \in Acb /\ own \in [Acb -> Owner] /\ error \in [Acb -> Error]
      /\ flags \in [Acb -> SUBSET Flag] /\ sensing \subseteq Acb
    BY DEF IInv, QueueType, NexusHeld, TypeOK
<1>2. CASE Sense(nexus)
    BY <1>1, <1>2 DEF Sense, Select, HonInv
<1>3. CASE /\ own' = [own EXCEPT ![nexus] = "done"]
           /\ error' = [error EXCEPT ![nexus] = Verdict(nexus, e)]
           /\ Sched(ready, lubusy', NoAcb)
           /\ UNCHANGED <<flags, sensing>>
    <2>1. state' \in {"IDLE", "SELECTING"}
        BY <1>3 DEF Sched, Select
    <2>2. ASSUME NEW a \in Acb, a # nexus PROVE own'[a] = own[a] /\ error'[a] = error[a]
        BY <1>1, <1>3, <2>2
    <2>3. own'[nexus] = "done" /\ error'[nexus] = Verdict(nexus, e)
        BY <1>1, <1>3
    <2> QED BY <1>3, <2>1, <2>2, <2>3, VerdictHonest DEF HonInv
<1> QED BY <1>2, <1>3 DEF Finish

\* every step keeps HonInv and reports only what has happened
Reported ==
    \A a \in Acb : own[a] = "drv" /\ own'[a] = "done" =>
          /\ error'[a] = "NOERROR" =>
                state = "CMDCOMPLETE" /\ stat[a] = "OK" /\ gotstat /\ a \notin sensing
          /\ error'[a] = "SENSE" => state = "CMDCOMPLETE" /\ gotstat /\ "SENSE" \in flags[a]

LEMMA HonestStep == ASSUME TypeOK, IInv, HonInv, Next PROVE HonInv' /\ Reported
<1>0. /\ own \in [Acb -> Owner] /\ error \in [Acb -> Error]
      /\ flags \in [Acb -> SUBSET Flag] /\ sensing \subseteq Acb
    BY DEF TypeOK
<1>1. ASSUME NEW a \in Acb, TimeoutBody(a) PROVE HonInv' /\ Reported
    <2>1. own' = own /\ gotstat' = gotstat /\ (state' = "CMDCOMPLETE" => state = "CMDCOMPLETE")
        BY <1>1 DEF TimeoutBody, Abort, Sched, Select
    <2>2. error' = error \/ error' = [error EXCEPT ![a] = "TIMEOUT"]
        BY <1>1 DEF TimeoutBody
    <2>3. sensing' = sensing /\ \A b \in Acb : flags[b] \subseteq flags'[b]
        BY <1>0, <1>1 DEF TimeoutBody, Abort
    <2> QED BY <1>0, <2>1, <2>2, <2>3 DEF HonInv, Reported
<1>2. CASE MidLayer
    <2>1. ASSUME NEW a \in Acb, NEW rst \in BOOLEAN, NEW pl \in BOOLEAN, ScsiCmd(a, rst, pl)
          PROVE  HonInv' /\ Reported
        <3>1. /\ own' = [own EXCEPT ![a] = "drv"] /\ error' = [error EXCEPT ![a] = "NOERROR"]
              /\ gotstat' = gotstat /\ (state' = "CMDCOMPLETE" => state = "CMDCOMPLETE")
              /\ sensing' = sensing \ {a} /\ \A b \in Acb : flags[b] \subseteq flags'[b]
            BY <1>0, <2>1 DEF ScsiCmd, Sched, Select
        <3> QED BY <1>0, <3>1 DEF HonInv, Reported
    <2>2. ASSUME NEW a \in Acb, AcbFree(a) PROVE HonInv' /\ Reported
        BY <1>0, <2>2 DEF AcbFree, ctlVars, busVars, HonInv, Reported
    <2>3. ASSUME NEW a \in Acb, NEW l \in Lun, AcbAlloc(a, l) PROVE HonInv' /\ Reported
        BY <1>0, <2>3 DEF AcbAlloc, ctlVars, busVars, HonInv, Reported
    <2>4. ASSUME NEW a \in Acb, Retry(a) PROVE HonInv' /\ Reported
        BY <1>0, <2>4 DEF Retry, ctlVars, busVars, HonInv, Reported
    <2> QED BY <1>2, <2>1, <2>2, <2>3, <2>4 DEF MidLayer
<1>3. CASE Clock
    <2>1. ASSUME NEW a \in Acb, TimeoutFire(a) PROVE HonInv' /\ Reported
        BY <2>1 DEF TimeoutFire, ctlVars, busVars, HonInv, Reported
    <2>2. CASE PollDone
        BY <2>2 DEF PollDone, acbVars, busVars, HonInv, Reported
    <2>3. ASSUME NEW a \in Acb, Timeout(a) PROVE HonInv' /\ Reported
        BY <1>1, <2>3 DEF Timeout
    <2>4. CASE TimeoutRun \/ PollExpire
        BY <1>1, <2>4 DEF TimeoutRun, PollExpire, TypeOK
    <2> QED BY <1>3, <2>1, <2>2, <2>3, <2>4 DEF Clock
<1>4. ASSUME SpcInit PROVE HonInv' /\ Reported
    BY <1>4 DEF SpcInit, HonInv, Reported
<1>5. ASSUME NEW e \in {"NOERROR", "TIMEOUT", "STUFFUP", "SELTIMEOUT"}, Finish(nexus, e),
             state = "SELECTING" \/ Connected, e = "NOERROR" => state = "CMDCOMPLETE"
      PROVE  HonInv' /\ Reported
    BY <1>5, FinishHonest DEF HonInv, Reported
<1>6. CASE Selection
    <2>1. CASE IntrSelected
        BY <1>0, <2>1 DEF IntrSelected, HonInv, Reported
    <2>2. CASE IntrSelTimeout
        BY <1>5, <2>2 DEF IntrSelTimeout
    <2>3. CASE IntrSelectWhileIdle \/ IntrReset
        BY <1>4, <2>3 DEF IntrSelectWhileIdle, IntrReset
    <2>4. CASE IntrTargetMode \/ IntrBusFree
        BY <2>4 DEF IntrTargetMode, IntrBusFree, Sched, Select, acbVars, HonInv, Reported
    <2>5. ASSUME NEW l \in Lun, IntrReselected(l) PROVE HonInv' /\ Reported
        BY <2>5 DEF IntrReselected, acbVars, HonInv, Reported
    <2> QED BY <1>6, <2>1, <2>2, <2>3, <2>4, <2>5 DEF Selection
<1>7. CASE BusFree
    <2>1. CASE DisconReselected \/ DisconDisconnect
        BY <2>1 DEF DisconReselected, DisconDisconnect, Sched, Select, acbVars, HonInv, Reported
    <2>2. CASE DisconUnexpected
        <3>1. nexus \in Acb
            BY <2>2 DEF DisconUnexpected, IInv, NexusHeld, Connected, TypeOK
        <3> QED BY <1>0, <2>2, <3>1 DEF DisconUnexpected, Sense, Select, HonInv, Reported
    <2>3. CASE DisconAborted
        BY <1>5, <2>3 DEF DisconAborted, Connected
    <2>4. CASE DisconComplete
        <3>1. nexus \in Acb /\ own[nexus] = "drv"
            BY <2>4 DEF DisconComplete, IInv, QueueType, NexusHeld, Connected, Exclusive, Queued
        <3>2. error[nexus] \in {"NOERROR", "TIMEOUT"} /\ state = "CMDCOMPLETE" /\ Connected
            BY <2>4, <3>1 DEF DisconComplete, HonInv, Connected
        <3> QED BY <1>5, <2>4, <3>2 DEF DisconComplete
    <2> QED BY <1>7, <2>1, <2>2, <2>3, <2>4 DEF BusFree
<1>8. CASE Information
    <2>1. CASE PhaseUnexpected
        BY <1>4, <2>1 DEF PhaseUnexpected
    <2>2. ASSUME NEW s \in Status, PhaseStat(s) PROVE HonInv' /\ Reported
        BY <2>2 DEF PhaseStat, HonInv, Reported
    <2>3. CASE IntrReturn \/ IntrParity \/ PhaseMsgOut \/ PhaseData
        BY <2>3 DEF IntrReturn, IntrParity, PhaseMsgOut, PhaseData, acbVars, busVars, HonInv, Reported
    <2> QED BY <1>8, <2>1, <2>2, <2>3 DEF Information
<1>9. CASE MessageIn
    <2>1. UNCHANGED <<own, error, flags, sensing, gotstat>>
        BY <1>9 DEF MessageIn, MsgInDropped, MsgInGarbled, MsgInTooLong, MsgInCmdComplete,
            MsgInDisconnect, MsgInParityError, MsgInMessageReject, MsgInPointers, MsgInUnknown,
            MsgInUnexpected, MsgInNotIdentify, MsgInIdentify, MsgAccepted, MsgIn, acbVars
    <2>2. state' = "CMDCOMPLETE" => state = "CMDCOMPLETE" \/ gotstat
        BY <1>9 DEF MessageIn, MsgInDropped, MsgInGarbled, MsgInTooLong, MsgInCmdComplete,
            MsgInDisconnect, MsgInParityError, MsgInMessageReject, MsgInPointers, MsgInUnknown,
            MsgInUnexpected, MsgInNotIdentify, MsgInIdentify
    <2> QED BY <2>1, <2>2 DEF HonInv, Reported
<1> QED BY <1>2, <1>3, <1>6, <1>7, <1>8, <1>9 DEF Next

\* the invariant behind what commands are reported as, and what a completion says
LEMMA HonestInvariant == Spec => [](TypeOK /\ IInv /\ HonInv) /\ [][Reported]_vars
<1>1. Init => HonInv
    BY DEF Init, HonInv
<1>2. TypeOK /\ IInv /\ HonInv /\ [Next]_vars => HonInv' /\ [Reported]_vars
    <2>1. ASSUME UNCHANGED vars, HonInv PROVE HonInv'
        BY <2>1 DEF vars, acbVars, ctlVars, busVars, HonInv
    <2> QED BY <2>1, HonestStep
<1> QED BY <1>1, <1>2, Invariance, PTL DEF Spec

(***************************************************************************)
(* Whatever targets, timeouts and the mid layer do, a command is reported  *)
(* good only after its own status GOOD and COMMAND COMPLETE, not after     *)
(* those of a REQUEST SENSE (spc_done, spc_intr "finish").                 *)
(***************************************************************************)
THEOREM CompletionIsHonest == Spec => HonestCompletion
<1>1. Spec => [](TypeOK /\ IInv /\ HonInv) /\ [][Reported]_vars
    BY HonestInvariant
<1>2. Reported => \A a \in Acb : own[a] = "drv" /\ own'[a] = "done" /\ error'[a] = "NOERROR" =>
          state = "CMDCOMPLETE" /\ stat[a] = "OK" /\ gotstat /\ a \notin sensing
    BY DEF Reported
<1> QED BY <1>1, <1>2, PTL DEF HonestCompletion

\* a block that is free or new to the driver has no flags, and ACB_SENSE of an
\* accepted command is that of the REQUEST SENSE in its block
FreshInv ==
    \A a \in Acb :
        /\ own[a] \in {"free", "held"} => flags[a] = {}
        /\ own[a] = "drv" /\ "SENSE" \in flags[a] => a \in sensing

\* the mid layer gives a block back before it uses it for another command
NoResubmit == "retry" \notin Env

LEMMA FreshStep == ASSUME NoResubmit, TypeOK, IInv, FreshInv, Next PROVE FreshInv'
<1>0. /\ own \in [Acb -> Owner] /\ flags \in [Acb -> SUBSET Flag] /\ sensing \subseteq Acb
      /\ \A a \in Acb : Queued(a) => own[a] = "drv"
    BY DEF TypeOK, IInv, Exclusive
<1>1. ASSUME UNCHANGED <<own, flags, sensing>> PROVE FreshInv'
    BY <1>1 DEF FreshInv
<1>2. ASSUME NEW a \in Acb, TimeoutBody(a), own[a] = "drv" PROVE FreshInv'
    <2>1. /\ UNCHANGED <<own, sensing>>
          /\ flags' = flags \/ flags' = [flags EXCEPT ![a] = @ \cup {"ABORT"}]
        BY <1>2 DEF TimeoutBody, Abort
    <2> QED BY <1>0, <1>2, <2>1 DEF FreshInv
<1>3. CASE MidLayer
    <2>1. ASSUME NEW a \in Acb, NEW rst \in BOOLEAN, NEW pl \in BOOLEAN, ScsiCmd(a, rst, pl)
          PROVE  FreshInv'
        <3>1. /\ own[a] = "held" /\ own' = [own EXCEPT ![a] = "drv"] /\ sensing' = sensing \ {a}
              /\ flags' = [flags EXCEPT ![a] = IF rst THEN @ \cup {"RESET"} ELSE @]
            BY <2>1 DEF ScsiCmd
        <3> QED BY <1>0, <3>1 DEF FreshInv
    <2>2. ASSUME NEW a \in Acb, AcbFree(a) PROVE FreshInv'
        BY <1>0, <2>2 DEF AcbFree, FreshInv
    <2>3. ASSUME NEW a \in Acb, NEW l \in Lun, AcbAlloc(a, l) PROVE FreshInv'
        BY <1>0, <2>3 DEF AcbAlloc, FreshInv
    <2>4. ASSUME NEW a \in Acb PROVE ~Retry(a)
        BY DEF Retry, NoResubmit
    <2> QED BY <1>3, <2>1, <2>2, <2>3, <2>4 DEF MidLayer
<1>4. CASE Clock
    <2>1. CASE PollDone \/ \E a \in Acb : TimeoutFire(a)
        BY <1>1, <2>1 DEF PollDone, TimeoutFire, acbVars
    <2>2. ASSUME NEW a \in Acb, Timeout(a) PROVE FreshInv'
        BY <1>2, <2>2 DEF Timeout, IInv, TimerOnlyWhilePending
    <2>3. CASE TimeoutRun \/ PollExpire
        BY <1>2, <2>3 DEF TimeoutRun, PollExpire, TypeOK
    <2> QED BY <1>4, <2>1, <2>2, <2>3 DEF Clock
<1>5. ASSUME SpcInit PROVE FreshInv'
    <2>1. /\ UNCHANGED <<flags, sensing>>
          /\ \A a \in Acb : own'[a] = own[a] \/ own'[a] = "done"
        BY <1>5 DEF SpcInit
    <2> QED BY <1>0, <2>1 DEF FreshInv
<1>6. state = "SELECTING" \/ Connected => nexus \in Acb /\ own[nexus] = "drv"
    BY <1>0 DEF IInv, NexusHeld, Queued, TypeOK
<1>7. ASSUME Sense(nexus), state = "SELECTING" \/ Connected PROVE FreshInv'
    BY <1>0, <1>6, <1>7 DEF Sense, FreshInv
<1>8. ASSUME NEW e, Finish(nexus, e), state = "SELECTING" \/ Connected PROVE FreshInv'
    <2>1. CASE own' = [own EXCEPT ![nexus] = "done"] /\ UNCHANGED <<flags, sensing>>
        BY <1>0, <2>1 DEF FreshInv
    <2> QED BY <1>7, <1>8, <2>1 DEF Finish
<1>9. CASE Selection
    <2>1. CASE IntrSelected
        <3>1. /\ UNCHANGED <<own, sensing>> /\ state = "SELECTING"
              /\ flags' = [flags EXCEPT ![nexus] = @ \cup {"NEXUS"}]
            BY <2>1 DEF IntrSelected
        <3> QED BY <1>0, <1>6, <3>1 DEF FreshInv
    <2>2. CASE IntrSelTimeout
        BY <1>8, <2>2 DEF IntrSelTimeout
    <2>3. CASE IntrSelectWhileIdle \/ IntrReset
        BY <1>5, <2>3 DEF IntrSelectWhileIdle, IntrReset
    <2>4. CASE IntrTargetMode \/ IntrBusFree \/ \E l \in Lun : IntrReselected(l)
        BY <1>1, <2>4 DEF IntrTargetMode, IntrBusFree, IntrReselected, acbVars
    <2> QED BY <1>9, <2>1, <2>2, <2>3, <2>4 DEF Selection
<1>10. CASE BusFree
    <2>1. CASE DisconReselected \/ DisconDisconnect
        BY <1>1, <2>1 DEF DisconReselected, DisconDisconnect, acbVars
    <2>2. CASE DisconUnexpected
        BY <1>7, <2>2 DEF DisconUnexpected, Connected
    <2>3. CASE DisconAborted \/ DisconComplete
        BY <1>8, <2>3 DEF DisconAborted, DisconComplete, Connected
    <2> QED BY <1>10, <2>1, <2>2, <2>3 DEF BusFree
<1>11. CASE Information
    <2>1. CASE PhaseUnexpected
        BY <1>5, <2>1 DEF PhaseUnexpected
    <2> QED BY <1>1, <1>11, <2>1 DEF Information, PhaseStat, IntrReturn, IntrParity, PhaseMsgOut,
                                     PhaseData, acbVars
<1>12. CASE MessageIn
    BY <1>1, <1>12 DEF MessageIn, MsgInDropped, MsgInGarbled, MsgInTooLong, MsgInCmdComplete,
        MsgInDisconnect, MsgInParityError, MsgInMessageReject, MsgInPointers, MsgInUnknown,
        MsgInUnexpected, MsgInNotIdentify, MsgInIdentify, MsgAccepted, MsgIn, acbVars
<1> QED BY <1>3, <1>4, <1>9, <1>10, <1>11, <1>12 DEF Next

(***************************************************************************)
(* When every command comes in a block that spc_acb_alloc() has handed     *)
(* out, XS_SENSE is reported only after a REQUEST SENSE for that command   *)
(* has run to status and COMMAND COMPLETE, through backoffs, aborts,       *)
(* unexpected bus frees and resets: sense data is not left over            *)
(* (spc_sense, spc_done).  The assumption is needed, as spc_scsi_cmd()     *)
(* takes the flags of a block over that is submitted again.                *)
(***************************************************************************)
THEOREM SenseIsOfThisCommand == ASSUME NoResubmit PROVE Spec => SenseIsFresh
<1>1. Init => FreshInv
    BY DEF Init, FreshInv
<1>2. TypeOK /\ IInv /\ FreshInv /\ [Next]_vars => FreshInv'
    <2>1. ASSUME UNCHANGED vars, FreshInv PROVE FreshInv'
        BY <2>1 DEF vars, acbVars, FreshInv
    <2> QED BY <2>1, FreshStep
<1>3. Spec => [](TypeOK /\ IInv /\ HonInv) /\ [][Reported]_vars
    BY HonestInvariant
<1>4. FreshInv /\ Reported =>
          \A a \in Acb : own[a] = "drv" /\ own'[a] = "done" /\ error'[a] = "SENSE" =>
              state = "CMDCOMPLETE" /\ gotstat /\ a \in sensing
    BY DEF FreshInv, Reported
<1> QED BY <1>1, <1>2, <1>3, <1>4, PTL DEF Spec, SenseIsFresh

-----------------------------------------------------------------------------
(* Messages *)

\* the message that was cut short belongs to the burst too
MsgInv == MessagesAnswered /\ (omsg # NoMsg => omsg \in msgoutq)

\* spc_sched_msgout() keeps what has been sent; the discarding of a message is
\* answered if it goes on or the answer is scheduled
LEMMA AnswerStep ==
    ASSUME MsgInv, NEW ms, SchedMsgout(ms),
           drop' /\ prevphase' = "MSGIN" =>
               (drop /\ prevphase = "MSGIN") \/ ms \cap {"PARITY_ERROR", "REJECT"} # {}
    PROVE  MsgInv'
BY DEF MsgInv, MessagesAnswered, DropIsReported, LastMsgWasSent, SchedMsgout

LEMMA MsgQuiet ==
    ASSUME MsgInv, UNCHANGED <<msgpriq, msgoutq, lastmsg, omsg>>,
           drop' /\ prevphase' = "MSGIN" => drop /\ prevphase = "MSGIN"
    PROVE  MsgInv'
BY DEF MsgInv, MessagesAnswered, DropIsReported, LastMsgWasSent

LEMMA MessageOutStep == ASSUME TypeOK, MsgInv, PhaseMsgOut PROVE MsgInv'
<1>1. prevphase' = "MSGOUT"
    BY DEF PhaseMsgOut, InPhase
<1>2. ASSUME NEW pri \in SUBSET Msg, NEW out, NEW last, Burst(pri, out, last), last # NoMsg => last \in out
      PROVE  MsgInv'
    <2>1. PICK m \in pri, cut \in BOOLEAN :
            LET picked == {x \in pri : Rank[x] <= Rank[m]}
                sent   == IF cut THEN picked \ {m} ELSE picked IN
            /\ cut \/ picked = pri
            /\ msgoutq' = out \cup picked
            /\ omsg' = IF cut THEN m ELSE NoMsg
            /\ \/ sent = {} /\ lastmsg' = last
               \/ \E x \in sent : lastmsg' = x
        BY <1>2 DEF Burst
    <2>2. lastmsg' # NoMsg => lastmsg' \in msgoutq'
        BY <1>2, <2>1
    <2>3. omsg' # NoMsg => omsg' \in msgoutq'
        <3>1. \A x \in Msg : Rank[x] \in Nat
            BY DEF Rank, Msg
        <3> QED BY <2>1, <3>1
    <2> QED BY <1>1, <2>2, <2>3 DEF MsgInv, MessagesAnswered, DropIsReported, LastMsgWasSent
<1>3. CASE UNCHANGED <<msgoutq, lastmsg, omsg>>
    BY <1>1, <1>3 DEF MsgInv, MessagesAnswered, DropIsReported, LastMsgWasSent
<1>4. CASE lastmsg' = omsg /\ omsg' = NoMsg /\ msgoutq' = msgoutq
    BY <1>1, <1>4 DEF MsgInv, MessagesAnswered, DropIsReported, LastMsgWasSent
<1>5. CASE Burst(msgpriq, msgoutq, omsg)
    BY <1>2, <1>5 DEF MsgInv, TypeOK
<1>6. CASE msgoutq' = {} /\ lastmsg' = NoMsg /\ omsg' = NoMsg
    BY <1>1, <1>6 DEF MsgInv, MessagesAnswered, DropIsReported, LastMsgWasSent
<1>7. CASE \E pri \in SUBSET Msg : Burst(pri, {}, NoMsg)
    BY <1>2, <1>7
<1>8. msgpriq \in SUBSET Msg /\ msgpriq \cup msgoutq \in SUBSET Msg
    BY DEF TypeOK
<1> QED BY <1>3, <1>4, <1>5, <1>6, <1>7, <1>8 DEF PhaseMsgOut

LEMMA MessagesStep == ASSUME TypeOK, MsgInv, Next PROVE MsgInv'
<1>1. ASSUME NEW a, TimeoutBody(a) PROVE MsgInv'
    <2>1. drop' = drop /\ prevphase' = prevphase
        BY <1>1 DEF TimeoutBody, msgVars
    <2>2. CASE UNCHANGED <<queueVars, flags, error, msgVars, state, arb, atn>>
        BY <2>1, <2>2, MsgQuiet DEF msgVars
    <2>3. CASE Abort(a)
        BY <2>1, <2>3, AnswerStep, MsgQuiet DEF Abort
    <2> QED BY <1>1, <2>2, <2>3 DEF TimeoutBody
<1>2. CASE MidLayer
    <2>1. UNCHANGED <<msgVars, prevphase>>
        BY <1>2 DEF MidLayer, AcbAlloc, AcbFree, Retry, ScsiCmd, ctlVars
    <2> QED BY <2>1, MsgQuiet DEF msgVars
<1>3. CASE Clock
    <2>1. CASE TimeoutRun \/ PollExpire \/ \E a \in Acb : Timeout(a)
        BY <1>1, <2>1 DEF Timeout, TimeoutRun, PollExpire
    <2>2. CASE PollDone \/ \E a \in Acb : TimeoutFire(a)
        BY <2>2, MsgQuiet DEF TimeoutFire, PollDone, msgVars, ctlVars
    <2> QED BY <1>3, <2>1, <2>2 DEF Clock
<1>4. ASSUME SpcInit PROVE MsgInv'
    BY <1>4, MsgQuiet DEF SpcInit, msgVars
<1>5. CASE Selection
    <2>1. CASE IntrSelected
        BY <2>1 DEF IntrSelected, NewConnection, MsgInv, MessagesAnswered, DropIsReported,
            LastMsgWasSent
    <2>2. CASE IntrSelTimeout \/ IntrTargetMode \/ IntrBusFree
        BY <2>2, MsgQuiet DEF IntrSelTimeout, IntrTargetMode, IntrBusFree, msgVars
    <2>3. CASE IntrSelectWhileIdle \/ IntrReset
        BY <1>4, <2>3 DEF IntrSelectWhileIdle, IntrReset
    <2>4. ASSUME NEW l \in Lun, IntrReselected(l) PROVE MsgInv'
        BY <2>4, MsgQuiet DEF IntrReselected, NewConnection
    <2> QED BY <1>5, <2>1, <2>2, <2>3, <2>4 DEF Selection
<1>6. CASE BusFree
    BY <1>6, MsgQuiet DEF BusFree, DisconReselected, DisconUnexpected, DisconAborted,
        DisconDisconnect, DisconComplete, Disconnected, msgVars
<1>7. CASE Information
    <2>1. CASE IntrReturn
        BY <2>1, MsgQuiet DEF IntrReturn, msgVars
    <2>2. CASE IntrParity
        BY <2>2, AnswerStep DEF IntrParity
    <2>3. CASE PhaseData \/ \E s \in Status : PhaseStat(s)
        BY <2>3, MsgQuiet DEF PhaseData, PhaseStat, InPhase, msgVars
    <2>4. CASE PhaseUnexpected
        BY <1>4, <2>4 DEF PhaseUnexpected
    <2> QED BY <1>7, <2>1, <2>2, <2>3, <2>4, MessageOutStep DEF Information
<1>8. CASE MessageIn
    <2>1. CASE drop' = FALSE
        <3>1. UNCHANGED <<msgpriq, msgoutq, lastmsg, omsg>> \/ \E ms : SchedMsgout(ms)
            BY <1>8 DEF MessageIn, MsgInDropped, MsgInGarbled, MsgInTooLong, MsgInCmdComplete,
                MsgInDisconnect, MsgInParityError, MsgInMessageReject, MsgInPointers,
                MsgInUnknown, MsgInUnexpected, MsgInNotIdentify, MsgInIdentify, msgVars
        <3> QED BY <2>1, <3>1, AnswerStep, MsgQuiet
    <2>2. CASE MsgInDropped
        BY <2>2, MsgQuiet DEF MsgInDropped, Dropping, MsgIn, InPhase, msgVars
    <2>3. CASE MsgInGarbled
        BY <2>3, AnswerStep DEF MsgInGarbled
    <2>4. CASE MsgInTooLong
        BY <2>4, AnswerStep DEF MsgInTooLong
    <2> QED BY <1>8, <2>1, <2>2, <2>3, <2>4 DEF MessageIn, MsgInCmdComplete, MsgInDisconnect,
        MsgInParityError, MsgInMessageReject, MsgInPointers, MsgInUnknown, MsgInUnexpected,
        MsgInNotIdentify, MsgInIdentify, MsgAccepted
<1> QED BY <1>2, <1>3, <1>5, <1>6, <1>7, <1>8 DEF Next

(***************************************************************************)
(* In every environment an answer is scheduled while message bytes are     *)
(* discarded, and sc_lastmsg, which a target's REJECT and PARITY ERROR are *)
(* about, is a message of the burst that may be repeated (spc_msgin,       *)
(* spc_msgout).                                                            *)
(***************************************************************************)
THEOREM MessagesAreAnswered == Spec => []MessagesAnswered
<1>1. Init => MsgInv
    BY DEF Init, MsgInv, MessagesAnswered, DropIsReported, LastMsgWasSent
<1>2. TypeOK /\ MsgInv /\ [Next]_vars => MsgInv'
    BY MessagesStep, MsgQuiet DEF vars, msgVars, ctlVars
<1>3. MsgInv => MessagesAnswered
    BY DEF MsgInv
<1> QED BY <1>1, <1>2, <1>3, Invariance, PTL DEF Spec

(***************************************************************************)
(* A target that stays in MESSAGE OUT after a whole burst gets every       *)
(* message of it again (spc_msgout, "if the previous phase was MSGOUT").   *)
(***************************************************************************)
THEOREM BurstsAreRepeated == Spec => RetransmitsAll
<1> DEFINE Again == prevphase = "MSGOUT" /\ prevphase' = "MSGOUT" /\ omsg = NoMsg =>
                        msgoutq \subseteq msgpriq' \cup msgoutq'
<1>1. ASSUME Next PROVE Again
    <2>1. CASE UNCHANGED msgoutq \/ prevphase' # "MSGOUT"
        BY <2>1
    <2>2. CASE PhaseMsgOut
        BY <2>2 DEF PhaseMsgOut, Burst
    <2>3. CASE MidLayer \/ Clock
        BY <2>1, <2>3 DEF MidLayer, AcbAlloc, AcbFree, Retry, ScsiCmd, Clock, Timeout,
            TimeoutFire, TimeoutRun, PollExpire, PollDone, TimeoutBody, Abort, msgVars
    <2>4. CASE Selection
        BY <2>1, <2>4 DEF Selection, IntrSelected, IntrSelTimeout, IntrSelectWhileIdle, SpcInit,
            IntrTargetMode, IntrBusFree, IntrReset, IntrReselected, msgVars
    <2>5. CASE BusFree
        BY <2>1, <2>5 DEF BusFree, DisconReselected, DisconUnexpected, DisconAborted,
            DisconDisconnect, DisconComplete, Disconnected, msgVars
    <2>6. CASE Information
        BY <2>1, <2>2, <2>6 DEF Information, IntrReturn, IntrParity, SchedMsgout, PhaseData, PhaseStat,
            PhaseUnexpected, SpcInit, msgVars
    <2>7. CASE MessageIn
        BY <2>1, <2>7 DEF MessageIn, MsgInDropped, MsgInGarbled, MsgInTooLong, MsgInCmdComplete,
            MsgInDisconnect, MsgInParityError, MsgInMessageReject, MsgInPointers,
            MsgInUnknown, MsgInUnexpected, MsgInNotIdentify, MsgInIdentify, MsgAccepted, MsgIn, InPhase
    <2> QED BY <1>1, <2>3, <2>4, <2>5, <2>6, <2>7 DEF Next
<1>2. [Next]_vars => [Again]_vars
    BY <1>1
<1>3. Spec => [][Again]_vars
    BY <1>2, PTL DEF Spec
<1> QED BY <1>3 DEF RetransmitsAll

-----------------------------------------------------------------------------
(* What each step does to the established commands *)

Same      == UNCHANGED <<own, lun>> /\ Established' = Established
MidOnly   == MidLayer /\ Established' = Established
GivenUp   == \E a \in Established : UNCHANGED <<own, lun>> /\ Established' = Established \ {a}
NowHeld   == /\ own[nexus] = "drv" /\ UNCHANGED <<own, lun>>
             /\ \A b \in Established : lun[b] # lun[nexus]
             /\ Established' = Established \cup {nexus}
Completed(S) ==
    /\ S # {} /\ \A a \in S : own[a] = "drv"
    /\ own' = [a \in Acb |-> IF a \in S THEN "done" ELSE own[a]]
    /\ lun' = lun /\ Established' = Established \ S

EstablishedStep ==
    \/ Same \/ MidOnly \/ GivenUp
    \/ nexus \in Acb /\ NowHeld
    \/ \E S \in SUBSET Acb : Completed(S)

\* spc_sched() leaves nothing connected
LEMMA SchedDisconnects ==
    ASSUME NEW q, NEW b, NEW n, Sched(q, b, n)
    PROVE  ~Connected' /\ Established' = ToSet(nexusq')
BY DEF Sched, Select, Connected, Established

\* the nexus is not one of the disconnected commands
LEMMA ConnectedSplit ==
    ASSUME IInv
    PROVE  /\ Established \subseteq Acb /\ ToSet(nexusq) \subseteq Established
           /\ ToSet(nexusq) = Established \ {nexus}
           /\ Connected => nexus \in Acb /\ nexus \in Established
           /\ ~Connected => Established = ToSet(nexusq)
           /\ \A a \in Established : own[a] = "drv"
BY Listed DEF IInv, QueueType, Exclusive, Queued, Established, NexusHeld

LEMMA MidEstablished == ASSUME IInv, MidLayer PROVE MidOnly
<1>1. ASSUME NEW a \in Acb, NEW rst \in BOOLEAN, NEW pl \in BOOLEAN, ScsiCmd(a, rst, pl)
      PROVE  Established' = Established
    <2>1. nexusq' = nexusq
        BY <1>1 DEF ScsiCmd
    <2>2. CASE state = "IDLE" /\ Sched(Append(ready, a), lubusy, nexus)
        BY <2>1, <2>2, SchedDisconnects DEF Established, Connected
    <2>3. CASE UNCHANGED <<nexus, state>>
        BY <2>1, <2>3 DEF Established, Connected
    <2> QED BY <1>1, <2>2, <2>3 DEF ScsiCmd
<1>2. CASE UNCHANGED <<queueVars, state>>
    BY <1>2 DEF queueVars, Established, Connected, MidOnly
<1> QED BY <1>1, <1>2 DEF MidLayer, AcbAlloc, AcbFree, Retry, ctlVars, MidOnly

LEMMA TimeoutEstablished ==
    ASSUME IInv, NEW a \in Acb, TimeoutBody(a) PROVE Same \/ GivenUp
<1>1. UNCHANGED <<own, lun>>
    BY DEF TimeoutBody
<1>2. CASE UNCHANGED <<nexus, nexusq, state>>
    BY <1>1, <1>2 DEF Same, Established, Connected
<1>3. CASE a # nexus /\ Abort(a)
    <2>1. ToSet(nexusq') = ToSet(nexusq) \ {a}
        BY <1>3, UnlinkSet DEF Abort, IInv, QueueType, Exclusive
    <2>2. CASE state = "IDLE" /\ Sched(Push(a, Unlink(ready, a)), lubusy, nexus)
        BY <1>1, <2>1, <2>2, SchedDisconnects DEF Same, GivenUp, Established, Connected
    <2>3. CASE UNCHANGED <<nexus, state>>
        <3>1. Established' = Established \ {a}
            BY <1>3, <2>1, <2>3 DEF Established, Connected
        <3> QED BY <1>1, <3>1 DEF Same, GivenUp
    <2> QED BY <1>3, <2>2, <2>3 DEF Abort
<1> QED BY <1>2, <1>3 DEF TimeoutBody, Abort, queueVars

LEMMA SenseEstablished ==
    ASSUME IInv, Connected, Sense(nexus), UNCHANGED <<nexusq, lun>> PROVE GivenUp
<1>1. Established' = ToSet(nexusq) /\ UNCHANGED <<own, lun>>
    BY DEF Sense, Select, Established, Connected
<1> QED BY <1>1, ConnectedSplit DEF GivenUp

LEMMA FinishEstablished ==
    ASSUME IInv, NEW e, Finish(nexus, e), Connected \/ (state = "SELECTING" /\ e # "NOERROR")
    PROVE  GivenUp \/ Completed({nexus})
<1>1. nexus \in Acb /\ own[nexus] = "drv" /\ own \in [Acb -> Owner]
    BY DEF IInv, QueueType, Exclusive, NexusHeld, Queued
<1>2. CASE NeedsSense(nexus, e) /\ Sense(nexus)
    BY <1>2, SenseEstablished DEF NeedsSense, Finish
<1>3. CASE own' = [own EXCEPT ![nexus] = "done"] /\ Sched(ready, lubusy', NoAcb)
    <2>1. Established' = ToSet(nexusq) /\ lun' = lun
        BY <1>3, SchedDisconnects DEF Finish
    <2>2. own' = [a \in Acb |-> IF a \in {nexus} THEN "done" ELSE own[a]]
        BY <1>1, <1>3
    <2> QED BY <1>1, <2>1, <2>2, ConnectedSplit DEF Completed
<1> QED BY <1>2, <1>3 DEF Finish

LEMMA InitEstablished ==
    ASSUME IInv, SpcInit PROVE Same \/ (Completed(Cancelled) /\ Cancelled \subseteq Acb)
<1>1. /\ own' = [a \in Acb |-> IF a \in Cancelled THEN "done" ELSE own[a]]
      /\ lun' = lun /\ Established' = {}
    <2>1. ToSet(<<>>) = {}
        BY DEF ToSet
    <2> QED BY <2>1 DEF SpcInit, Established, Connected
<1>2. Established \subseteq Cancelled /\ Cancelled \subseteq Acb /\ \A a \in Cancelled : own[a] = "drv"
    <2>1. Established \subseteq Cancelled
        BY ConnectedSplit, NullAssumption DEF Cancelled, Established
    <2>2. Cancelled \subseteq Acb
        BY ConnectedSplit DEF Cancelled, IInv, QueueType
    <2> QED BY <2>1, <2>2 DEF Cancelled, IInv, Exclusive, Queued
<1>3. CASE Cancelled = {}
    <2>1. own' = own
        BY <1>1, <1>3 DEF IInv, QueueType
    <2> QED BY <1>1, <1>2, <1>3, <2>1 DEF Same
<1>4. CASE Cancelled # {}
    BY <1>1, <1>2, <1>4 DEF Completed
<1> QED BY <1>3, <1>4

LEMMA SelectionEstablished == ASSUME IInv, Selection PROVE EstablishedStep
<1> USE DEF EstablishedStep
<1>1. AtRest => ~Connected
    BY DEF AtRest, Connected
<1>2. CASE IntrSelected
    <2>1. /\ state = "SELECTING" /\ state' = "CONNECTED" /\ ~Connected
          /\ UNCHANGED <<nexus, nexusq, own, lun>>
        BY <1>1, <1>2 DEF IntrSelected
    <2>2. nexus \in Acb /\ own[nexus] = "drv"
        BY <2>1 DEF IInv, QueueType, NexusHeld, Exclusive, Queued
    <2>3. Established' = Established \cup {nexus}
        BY <2>1 DEF Established, Connected
    <2>4. \A b \in Established : lun[b] # lun[nexus]
        BY <2>1, <2>2, NullAssumption DEF IInv, EstablishedIsBusy, PendingIsFree
    <2> QED BY <2>1, <2>2, <2>3, <2>4 DEF NowHeld
<1>3. CASE IntrSelTimeout
    <2>1. GivenUp \/ Completed({nexus})
        BY <1>3, FinishEstablished DEF IntrSelTimeout
    <2> QED BY <1>3, <2>1 DEF IntrSelTimeout, IInv, QueueType, NexusHeld
<1>4. CASE IntrSelectWhileIdle \/ IntrReset
    BY <1>4, InitEstablished DEF IntrSelectWhileIdle, IntrReset
<1>5. CASE IntrTargetMode \/ IntrBusFree
    BY <1>1, <1>5, SchedDisconnects, ConnectedSplit DEF IntrTargetMode, IntrBusFree, acbVars, Same
<1>6. ASSUME NEW l \in Lun, IntrReselected(l) PROVE Same
    BY <1>1, <1>6 DEF IntrReselected, acbVars, Same, Established, Connected
<1> QED BY <1>2, <1>3, <1>4, <1>5, <1>6 DEF Selection

LEMMA BusFreeEstablished == ASSUME IInv, BusFree PROVE EstablishedStep
<1> USE DEF EstablishedStep
<1>1. CASE DisconReselected
    BY <1>1, SchedDisconnects, ConnectedSplit DEF DisconReselected, acbVars, Same, Connected
<1>2. CASE DisconUnexpected
    BY <1>2, SenseEstablished DEF DisconUnexpected, Connected
<1>3. CASE DisconAborted \/ DisconComplete
    BY <1>3, FinishEstablished, ConnectedSplit DEF DisconAborted, DisconComplete, Connected
<1>4. CASE DisconDisconnect
    <2>1. nexus \in Acb /\ nexus \notin ToSet(nexusq) /\ Established = ToSet(nexusq) \cup {nexus}
        BY <1>4 DEF DisconDisconnect, Connected, Established, IInv, QueueType, Exclusive, NexusHeld
    <2>2. ToSet(nexusq') = Established
        BY <1>4, <2>1, PushSet DEF DisconDisconnect, IInv, QueueType, Exclusive
    <2> QED BY <1>4, <2>2, SchedDisconnects DEF DisconDisconnect, acbVars, Same
<1> QED BY <1>1, <1>2, <1>3, <1>4 DEF BusFree

LEMMA MessageInEstablished == ASSUME IInv, MessageIn PROVE Same
<1>1. UNCHANGED <<own, lun>>
    BY DEF MessageIn, MsgInDropped, MsgInGarbled, MsgInTooLong, MsgInCmdComplete,
        MsgInDisconnect, MsgInParityError, MsgInMessageReject, MsgInPointers, MsgInUnknown,
        MsgInUnexpected, MsgInNotIdentify, MsgInIdentify, MsgAccepted, MsgIn, acbVars
<1>2. CASE UNCHANGED <<nexus, nexusq>> /\ (Connected' <=> Connected)
    BY <1>1, <1>2 DEF Same, Established
<1>3. ASSUME NEW l \in Lun, MsgInIdentify(l) PROVE Same
    <2>1. state = "RESELECTED"
        BY <1>3 DEF MsgInIdentify, MsgAccepted, MsgIn, InPhase
    <2>2. CASE UNCHANGED <<nexus, nexusq, state>>
        BY <1>2, <2>2 DEF Connected
    <2>3. ASSUME NEW i \in DOMAIN nexusq, nexus' = nexusq[i], nexusq' = RemoveAt(nexusq, i),
                 state' = "CONNECTED"
          PROVE  Same
        <3>1. ToSet(nexusq') = ToSet(nexusq) \ {nexusq[i]}
            BY <2>3, RemoveAtSet DEF IInv, QueueType, Exclusive
        <3>2. nexusq[i] \in ToSet(nexusq)
            BY <2>3 DEF ToSet
        <3> QED BY <1>1, <2>1, <2>3, <3>1, <3>2 DEF Same, Established, Connected
    <2> QED BY <1>3, <2>2, <2>3 DEF MsgInIdentify
<1>4. CASE MsgInCmdComplete \/ MsgInDisconnect
    BY <1>2, <1>4 DEF MsgInCmdComplete, MsgInDisconnect, MsgAccepted, MsgIn, InPhase, queueVars,
        Connected
<1>5. CASE UNCHANGED <<queueVars, state>>
    BY <1>2, <1>5 DEF queueVars, Connected
<1> QED BY <1>3, <1>4, <1>5 DEF MessageIn, MsgInDropped, MsgInGarbled, MsgInTooLong,
    MsgInParityError, MsgInMessageReject, MsgInPointers, MsgInUnknown, MsgInUnexpected,
    MsgInNotIdentify

\* Every step establishes a command on a lun that had none, lets go of one, completes
\* some, or does none of this.
LEMMA NextEstablished == ASSUME TypeOK, IInv, Next PROVE EstablishedStep
<1> USE DEF EstablishedStep
<1>1. CASE MidLayer
    BY <1>1, MidEstablished
<1>2. CASE Clock
    <2>1. ASSUME NEW a \in Acb, Timeout(a) PROVE EstablishedStep
        BY <2>1, TimeoutEstablished DEF Timeout
    <2>2. CASE TimeoutRun \/ PollExpire
        BY <2>2, TimeoutEstablished DEF TimeoutRun, PollExpire, TypeOK
    <2>3. CASE PollDone \/ \E a \in Acb : TimeoutFire(a)
        BY <2>3 DEF TimeoutFire, PollDone, queueVars, acbVars, ctlVars, Same, Established, Connected
    <2> QED BY <1>2, <2>1, <2>2, <2>3 DEF Clock
<1>3. CASE Information
    <2>1. CASE PhaseUnexpected
        BY <2>1, InitEstablished DEF PhaseUnexpected
    <2>2. CASE UNCHANGED <<nexus, nexusq, own, lun, state>>
        BY <2>2 DEF Same, Established, Connected
    <2> QED BY <1>3, <2>1, <2>2 DEF Information, IntrReturn, IntrParity, PhaseMsgOut, PhaseData,
        PhaseStat, queueVars, acbVars
<1> QED BY <1>1, <1>2, <1>3, SelectionEstablished, BusFreeEstablished, MessageInEstablished DEF Next

-----------------------------------------------------------------------------
(* The driver implements ScsiPort *)

\* choosing the one member of a set that is on a lun
LEMMA TheOneOn ==
    ASSUME NEW E, NEW f, \A a, b \in E : f[a] = f[b] => a = b
    PROVE  \A l : \A a \in E : f[a] = l => (CHOOSE b \in E : f[b] = l) = a
OBVIOUS

\* the holders, before and after a step: what is established says who they are
Holders == [l \in Lun |-> HolderOf(l)]

LEMMA SameHolders ==
    ASSUME Established' = Established, \A a \in Established : lun'[a] = lun[a]
    PROVE  Holders' = Holders
<1>1. ASSUME NEW l PROVE HolderOf(l)' = HolderOf(l)
    <2>1. (\E a \in Established' : lun'[a] = l) <=> \E a \in Established : lun[a] = l
        OBVIOUS
    <2>2. (CHOOSE a \in Established' : lun'[a] = l) = CHOOSE a \in Established : lun[a] = l
        OBVIOUS
    <2> QED BY <2>1, <2>2 DEF HolderOf
<1> QED BY <1>1 DEF Holders

\* a lun is held by the command established on it, if there is one
LEMMA HolderNow ==
    ASSUME IInv
    PROVE  /\ \A a \in Established : HolderOf(lun[a]) = a
           /\ \A l : (\A a \in Established : lun[a] # l) => HolderOf(l) = NoAcb
<1> USE DEF IInv, OneNexusPerLun, HolderOf
<1>1. \A a \in Established : HolderOf(lun[a]) = a
    BY TheOneOn
<1>2. \A l : (\A a \in Established : lun[a] # l) => HolderOf(l) = NoAcb
    BY TheOneOn
<1> QED BY <1>1, <1>2

\* and so it is after a step
LEMMA HolderAfter ==
    ASSUME IInv', lun' = lun
    PROVE  /\ \A a \in Established' : HolderOf(lun[a])' = a
           /\ \A l : (\A a \in Established' : lun[a] # l) => HolderOf(l)' = NoAcb
<1> USE DEF IInv, OneNexusPerLun, HolderOf
<1>1. \A a \in Established' : HolderOf(lun[a])' = a
    BY TheOneOn
<1>2. \A l : (\A a \in Established' : lun[a] # l) => HolderOf(l)' = NoAcb
    BY TheOneOn
<1> QED BY <1>1, <1>2

\* the steps of the port, one by one
LEMMA PortMidLayer ==
    ASSUME TypeOK, Addressed, IInv, MidLayer PROVE Port!Next
<1>1. Established' = Established
    BY MidEstablished DEF MidOnly
<1>2. ASSUME NEW a \in Acb, own[a] # "drv", \A b \in Acb \ {a} : lun'[b] = lun[b]
      PROVE  Holders' = Holders
    BY <1>1, <1>2, SameHolders, ConnectedSplit
<1>3. ASSUME NEW a \in Acb, NEW l \in Lun, AcbAlloc(a, l) PROVE Port!Allocate(a, l)
    <2>1. Holders' = Holders
        BY <1>2, <1>3 DEF AcbAlloc, TypeOK
    <2> QED BY <1>3, <2>1 DEF AcbAlloc, Port!Allocate, Holders
<1>4. ASSUME NEW a \in Acb, AcbFree(a) PROVE Port!Free(a)
    <2>1. Holders' = Holders
        BY <1>2, <1>4 DEF AcbFree, TypeOK
    <2> QED BY <1>4, <2>1 DEF AcbFree, Port!Free, Holders
<1>5. ASSUME NEW a \in Acb, Retry(a) PROVE Port!Again(a)
    <2>1. Holders' = Holders
        BY <1>2, <1>5 DEF Retry
    <2> QED BY <1>5, <2>1 DEF Retry, Port!Again, Holders
<1>6. ASSUME NEW a \in Acb, NEW rst \in BOOLEAN, NEW pl \in BOOLEAN, ScsiCmd(a, rst, pl)
      PROVE  Port!Submit(a)
    <2>1. Holders' = Holders
        BY <1>2, <1>6 DEF ScsiCmd
    <2>2. /\ own[a] = "held" /\ own' = [own EXCEPT ![a] = "drv"] /\ lun' = lun
          /\ Cardinality({b \in Acb : own[b] = "drv" /\ lun[b] = lun[a]}) < Openings
        BY <1>6, Zenon DEF ScsiCmd
    <2> QED BY <2>1, <2>2, Zenon DEF Port!Submit, Holders, Cardinality, Port!Cardinality
<1> QED BY <1>3, <1>4, <1>5, <1>6 DEF MidLayer, Port!Next

LEMMA PortGiveUp ==
    ASSUME Addressed, IInv, IInv', GivenUp PROVE Port!Next
<1>1. PICK a \in Established : UNCHANGED <<own, lun>> /\ Established' = Established \ {a}
    BY DEF GivenUp
<1>2. a \in Acb /\ own[a] = "drv" /\ lun[a] \in Lun /\ HolderOf(lun[a]) = a
    BY <1>1, ConnectedSplit, HolderNow DEF Addressed
<1>3. ASSUME NEW l \in Lun PROVE HolderOf(l)' = IF l = lun[a] THEN NoAcb ELSE HolderOf(l)
    <2>1. CASE \E b \in Established' : lun[b] = l
        <3>1. PICK b \in Established' : lun[b] = l
            BY <2>1
        <3>2. b \in Established /\ b # a /\ HolderOf(l)' = b /\ HolderOf(l) = b
            BY <1>1, <3>1, HolderNow, HolderAfter
        <3> QED BY <1>2, <3>2
    <2>2. CASE ~ \E b \in Established' : lun[b] = l
        BY <1>1, <2>2, HolderNow, HolderAfter
    <2> QED BY <2>1, <2>2
<1>4. Holders' = [Holders EXCEPT ![lun[a]] = NoAcb]
    BY <1>2, <1>3 DEF Holders
<1>5. Port!GiveUp(a)
    BY <1>1, <1>2, <1>4 DEF Port!GiveUp, Holders
<1> QED BY <1>2, <1>5 DEF Port!Next

LEMMA PortEstablish ==
    ASSUME Addressed, IInv, IInv', nexus \in Acb, NowHeld PROVE Port!Next
<1>1. lun[nexus] \in Lun /\ HolderOf(lun[nexus]) = NoAcb
    BY HolderNow DEF NowHeld, Addressed
<1>2. ASSUME NEW l \in Lun PROVE HolderOf(l)' = IF l = lun[nexus] THEN nexus ELSE HolderOf(l)
    <2>1. CASE l = lun[nexus]
        BY <2>1, HolderAfter DEF NowHeld
    <2>2. CASE l # lun[nexus] /\ \E b \in Established : lun[b] = l
        BY <2>2, HolderNow, HolderAfter DEF NowHeld
    <2>3. CASE l # lun[nexus] /\ ~ \E b \in Established : lun[b] = l
        BY <2>3, HolderNow, HolderAfter DEF NowHeld
    <2> QED BY <2>1, <2>2, <2>3
<1>3. Holders' = [Holders EXCEPT ![lun[nexus]] = nexus]
    BY <1>1, <1>2 DEF Holders
<1>4. Port!Establish(nexus)
    BY <1>1, <1>3 DEF Port!Establish, Holders, NowHeld
<1> QED BY <1>4 DEF Port!Next

LEMMA PortComplete ==
    ASSUME IInv, IInv', NEW S \in SUBSET Acb, Completed(S) PROVE Port!Next
<1>1. ASSUME NEW l \in Lun PROVE HolderOf(l)' = IF HolderOf(l) \in S THEN NoAcb ELSE HolderOf(l)
    <2>1. CASE \E b \in Established' : lun[b] = l
        BY <2>1, HolderNow, HolderAfter DEF Completed
    <2>2. CASE \E b \in Established \cap S : lun[b] = l
        <3>1. PICK b \in Established \cap S : lun[b] = l
            BY <2>2
        <3>2. \A c \in Established' : lun[c] # l
            BY <3>1 DEF Completed, IInv, OneNexusPerLun
        <3> QED BY <3>1, <3>2, HolderNow, HolderAfter DEF Completed
    <2>3. CASE ~ \E b \in Established : lun[b] = l
        BY <2>3, HolderNow, HolderAfter, NullAssumption DEF Completed
    <2> QED BY <2>1, <2>2, <2>3 DEF Completed
<1>2. Holders' = [l \in Lun |-> IF Holders[l] \in S THEN NoAcb ELSE Holders[l]]
    BY <1>1 DEF Holders
<1>3. Port!Complete(S)
    BY <1>2 DEF Port!Complete, Holders, Completed
<1> QED BY <1>3 DEF Port!Next

(***************************************************************************)
(* Whatever the bus, the targets, the clock and the mid layer do, a step   *)
(* of the driver is one step of ScsiPort or none: commands are completed   *)
(* once and only while they are the driver's, and a nexus is established   *)
(* only on a lun that has none.                                            *)
(***************************************************************************)
THEOREM DriverImplementsPort == Spec => ImplementsPort
<1>1. Init => Port!Init
    <2>1. ASSUME Init PROVE Established = {}
        <3>1. ToSet(<<>>) = {}
            BY DEF ToSet
        <3> QED BY <2>1, <3>1 DEF Init, Established, Connected
    <2>2. ASSUME Init PROVE Holders = [l \in Lun |-> NoAcb]
        BY <2>1, <2>2 DEF Holders, HolderOf
    <2> QED BY <2>2 DEF Init, Port!Init, Holders
<1>2. TypeOK /\ Addressed /\ IInv /\ IInv' /\ [Next]_vars => [Port!Next]_(Port!vars)
    <2> SUFFICES ASSUME TypeOK, Addressed, IInv, IInv', [Next]_vars
                 PROVE  Port!Next \/ UNCHANGED Port!vars
        OBVIOUS
    <2>1. CASE Same
        <3>1. Holders' = Holders
            BY <2>1, SameHolders DEF Same
        <3> QED BY <2>1, <3>1 DEF Same, Port!vars, Holders
    <2>2. CASE UNCHANGED vars
        <3>1. Same
            BY <2>2 DEF vars, queueVars, acbVars, ctlVars, Same, Established, Connected
        <3> QED BY <2>1, <3>1
    <2>3. CASE Next
        BY <2>1, <2>3, NextEstablished, PortMidLayer, PortGiveUp, PortEstablish, PortComplete
           DEF EstablishedStep, MidOnly
    <2> QED BY <2>2, <2>3
<1> QED BY <1>1, <1>2, Invariance, PTL DEF Spec, ImplementsPort, Port!Spec

-----------------------------------------------------------------------------
(* The records of where commands are *)

\* no timeout runs
NoTimeouts == Env \cap {"timeout", "race", "poll"} = {}

\* what the agreement of the records rests on: the lun on the bus is the nexus's, not a
\* disconnected one, and timeouts are those of established commands unless a target
\* drops a command in the middle
AgreeInv ==
    /\ BusyIffEstablished /\ ReselectionIsExpected
    /\ "unexpected" \notin Env => timer \subseteq Established
    /\ fired = NoAcb /\ poller = NoAcb
    /\ bus \notin disc
    /\ Connected => bus = lun[nexus]

\* a step that keeps the established commands and does not lose one of nexus_list
LEMMA AgreeKept ==
    ASSUME AgreeInv, Established' = Established, lubusy' = lubusy,
           \A a \in Established : lun'[a] = lun[a],
           ToSet(nexusq) \subseteq ToSet(nexusq'), ToSet(nexusq) \subseteq Established,
           timer' \subseteq timer, fired' = fired, poller' = poller,
           disc' \subseteq disc, bus' \notin disc', Connected' => bus' = lun'[nexus']
    PROVE  AgreeInv'
BY DEF AgreeInv, BusyIffEstablished, ReselectionIsExpected

\* a step that leaves the lists, the timeouts and the bus alone
LEMMA AgreeQuiet ==
    ASSUME IInv, AgreeInv, UNCHANGED <<nexus, nexusq, lubusy, lun, timer, fired, poller, bus, disc>>,
           state' = state \/ (Connected /\ state' \in {"CONNECTED", "DISCONNECT", "CMDCOMPLETE"})
    PROVE  AgreeInv'
<1>1. (Connected' <=> Connected) /\ Established' = Established
    BY DEF Connected, Established
<1> QED BY <1>1, AgreeKept, ConnectedSplit DEF AgreeInv

\* spc_sched() with nothing connected
LEMMA AgreeSched ==
    ASSUME IInv, AgreeInv, ~Connected, NEW q, NEW b, NEW n, Sched(q, b, n),
           UNCHANGED <<nexusq, lubusy, lun, timer, fired, poller, disc>>,
           bus' \in {bus, NoLun}, NoLun \notin disc
    PROVE  AgreeInv'
<1>1. ~Connected' /\ Established' = Established /\ ToSet(nexusq) = Established
    BY SchedDisconnects, ConnectedSplit
<1> QED BY <1>1, AgreeKept DEF AgreeInv

LEMMA AgreeMidLayer ==
    ASSUME NoTimeouts, TypeOK, IInv, AgreeInv, MidLayer PROVE AgreeInv'
<1>1. Established' = Established
    BY MidEstablished DEF MidOnly
<1>2. UNCHANGED <<nexusq, lubusy, timer, fired, poller, bus, disc>>
    BY DEF MidLayer, AcbAlloc, AcbFree, Retry, ScsiCmd, queueVars, ctlVars, busVars, NoTimeouts
<1>3. \A a \in Established : lun'[a] = lun[a]
    <2>1. ASSUME NEW a \in Acb, own[a] # "drv", \A b \in Acb \ {a} : lun'[b] = lun[b]
          PROVE  \A c \in Established : lun'[c] = lun[c]
        BY <2>1, ConnectedSplit
    <2> QED BY <2>1 DEF MidLayer, AcbAlloc, AcbFree, Retry, ScsiCmd, TypeOK
<1>4. Connected' => Connected /\ nexus' = nexus
    <2>1. CASE UNCHANGED <<queueVars, state>>
        BY <2>1 DEF queueVars, Connected
    <2>2. ASSUME NEW a \in Acb, NEW rst \in BOOLEAN, NEW pl \in BOOLEAN, ScsiCmd(a, rst, pl)
          PROVE  Connected' => Connected /\ nexus' = nexus
        BY <2>2, SchedDisconnects DEF ScsiCmd, Connected
    <2> QED BY <2>1, <2>2 DEF MidLayer, AcbAlloc, AcbFree, Retry, ctlVars
<1>5. Connected' => lun'[nexus'] = lun[nexus]
    BY <1>3, <1>4, ConnectedSplit
<1> QED BY <1>1, <1>2, <1>3, <1>4, <1>5, AgreeKept, ConnectedSplit DEF AgreeInv

\* the lun of a nexus that is finished or sensed is released
LEMMA AgreeRelease ==
    ASSUME TypeOK, IInv, AgreeInv, Connected \/ state = "SELECTING",
           lubusy' = Release(nexus), ~Connected', bus' = NoLun,
           UNCHANGED <<nexusq, lun, fired, poller, disc>>,
           "unexpected" \notin Env => timer' \subseteq timer \ {nexus}
    PROVE  AgreeInv'
<1>1. Established' = ToSet(nexusq)
    BY DEF Established
<1>2. lubusy' = {lun[a] : a \in ToSet(nexusq)}
    <2>1. CASE Connected
        <3>1. "NEXUS" \in flags[nexus] /\ \A a \in ToSet(nexusq) : lun[a] # lun[nexus]
            BY <2>1, ConnectedSplit DEF IInv, NexusFlagged, OneNexusPerLun
        <3> QED BY <2>1, <3>1, ConnectedSplit DEF Release, AgreeInv, BusyIffEstablished
    <2>2. CASE ~Connected
        <3>1. lun[nexus] \notin lubusy
            BY <2>2 DEF IInv, PendingIsFree, NexusHeld
        <3> QED BY <2>2, <3>1, ConnectedSplit DEF Release, AgreeInv, BusyIffEstablished
    <2> QED BY <2>1, <2>2
<1>3. "unexpected" \notin Env => timer' \subseteq ToSet(nexusq)
    BY ConnectedSplit DEF AgreeInv
<1>4. NoLun \notin disc
    BY NullAssumption DEF TypeOK
<1> QED BY <1>1, <1>2, <1>3, <1>4 DEF AgreeInv, BusyIffEstablished, ReselectionIsExpected

LEMMA AgreeFinish ==
    ASSUME TypeOK, IInv, AgreeInv, NEW e, Finish(nexus, e),
           Connected \/ (state = "SELECTING" /\ e # "NOERROR"),
           bus' = NoLun, UNCHANGED <<disc, poller>>
    PROVE  AgreeInv'
<1>1. /\ timer' = timer \ {nexus} /\ lubusy' = Release(nexus) /\ ~Connected'
      /\ UNCHANGED <<nexusq, lun, fired>>
    BY DEF Finish, TimeoutDel, Sense, Sched, Select, Connected
<1> QED BY <1>1, AgreeRelease

LEMMA AgreeInit == ASSUME IInv, AgreeInv, SpcInit PROVE AgreeInv'
<1>1. ToSet(<<>>) = {}
    BY DEF ToSet
<1>2. /\ Established' = {} /\ ~Connected' /\ timer' = timer \ Cancelled /\ disc' = {}
      /\ lubusy' = lubusy \ {lun[a] : a \in {b \in Cancelled : "NEXUS" \in flags[b]}}
      /\ UNCHANGED <<fired, poller>>
    BY <1>1 DEF SpcInit, Established, Connected
<1>3. Established \subseteq Cancelled /\ \A a \in Established : "NEXUS" \in flags[a]
    BY ConnectedSplit, NullAssumption DEF Cancelled, Established, IInv, NexusFlagged
<1> QED BY <1>2, <1>3 DEF AgreeInv, BusyIffEstablished, ReselectionIsExpected

LEMMA AgreeSelection == ASSUME TypeOK, IInv, AgreeInv, Selection PROVE AgreeInv'
<1>1. (AtRest => ~Connected /\ bus = NoLun) /\ NoLun \notin disc
    BY NullAssumption DEF AtRest, Connected, TypeOK
<1>2. CASE IntrSelected
    <2>1. /\ state = "SELECTING" /\ state' = "CONNECTED" /\ ~Connected /\ nexus' = nexus
          /\ nexusq' = nexusq /\ lubusy' = lubusy \cup {lun[nexus]} /\ bus' = lun[nexus]
          /\ timer' \subseteq timer \cup {nexus} /\ UNCHANGED <<lun, fired, poller, disc>>
        BY <1>1, <1>2 DEF IntrSelected
    <2>2. Connected' /\ Established' = Established \cup {nexus} /\ Established = ToSet(nexusq)
        BY <2>1, ConnectedSplit DEF Established, Connected
    <2>3. lun[nexus] \notin disc
        BY <2>1, <2>2 DEF IInv, PendingIsFree, NexusHeld, EstablishedIsBusy, AgreeInv,
            ReselectionIsExpected
    <2> QED BY <2>1, <2>2, <2>3 DEF AgreeInv, BusyIffEstablished, ReselectionIsExpected
<1>3. CASE IntrSelTimeout
    BY <1>1, <1>3, AgreeFinish DEF IntrSelTimeout
<1>4. CASE IntrSelectWhileIdle \/ IntrReset
    BY <1>4, AgreeInit DEF IntrSelectWhileIdle, IntrReset
<1>5. CASE IntrTargetMode \/ IntrBusFree
    BY <1>1, <1>5, AgreeSched DEF IntrTargetMode, IntrBusFree, acbVars
<1>6. ASSUME NEW l \in Lun, IntrReselected(l) PROVE AgreeInv'
    <2>1. /\ ~Connected /\ ~Connected' /\ nexusq' = nexusq /\ lubusy' = lubusy /\ bus' = l
          /\ disc' = disc \ {l} /\ UNCHANGED <<lun, timer, fired, poller>>
        BY <1>1, <1>6 DEF IntrReselected, acbVars, Connected
    <2>2. Established' = Established
        BY <2>1 DEF Established
    <2> QED BY <2>1, <2>2, AgreeKept, ConnectedSplit
<1> QED BY <1>2, <1>3, <1>4, <1>5, <1>6 DEF Selection

LEMMA AgreeBusFree == ASSUME NoTimeouts, TypeOK, IInv, AgreeInv, BusFree PROVE AgreeInv'
<1>1. NoLun \notin disc
    BY NullAssumption DEF TypeOK
<1>2. CASE DisconReselected
    BY <1>1, <1>2, AgreeSched DEF DisconReselected, Disconnected, acbVars, Connected
<1>3. CASE DisconUnexpected
    <2>1. /\ Connected /\ lubusy' = Release(nexus) /\ ~Connected' /\ "unexpected" \in Env
          /\ bus' = NoLun /\ UNCHANGED <<nexusq, lun, fired, poller, disc>>
        BY <1>3 DEF DisconUnexpected, Disconnected, Sense, Select, Connected
    <2> QED BY <2>1, AgreeRelease
<1>4. CASE DisconAborted \/ DisconComplete
    BY <1>4, AgreeFinish DEF DisconAborted, DisconComplete, Disconnected, Connected
<1>5. CASE DisconDisconnect
    <2>1. /\ Connected /\ bus' = NoLun /\ disc' = disc \cup {bus} /\ Sched(ready, lubusy, NoAcb)
          /\ nexusq' = Push(nexus, nexusq) /\ UNCHANGED <<lubusy, lun, timer, fired, poller>>
        BY <1>5 DEF DisconDisconnect, Disconnected, acbVars, Connected
    <2>2. nexus \in Acb /\ nexus \notin ToSet(nexusq) /\ Established = ToSet(nexusq) \cup {nexus}
        BY <2>1 DEF Connected, Established, IInv, QueueType, Exclusive, NexusHeld
    <2>3. ToSet(nexusq') = Established
        BY <2>1, <2>2, PushSet DEF IInv, QueueType, Exclusive
    <2>4. ~Connected' /\ Established' = Established
        BY <2>1, <2>3, SchedDisconnects
    <2>5. bus = lun[nexus] /\ bus \in Lun
        BY <1>5, <2>1 DEF AgreeInv, TypeOK, DisconDisconnect, Disconnected, Pass
    <2>6. NoLun \notin disc'
        BY <1>1, <2>1, <2>5, NullAssumption
    <2> QED BY <2>1, <2>2, <2>3, <2>4, <2>5, <2>6 DEF AgreeInv, BusyIffEstablished, ReselectionIsExpected
<1> QED BY <1>2, <1>3, <1>4, <1>5 DEF BusFree

LEMMA AgreeMessageIn == ASSUME TypeOK, IInv, AgreeInv, MessageIn PROVE AgreeInv'
<1>1. UNCHANGED <<lun, timer, fired, poller, bus, disc>> /\ Established' = Established
    <2>1. UNCHANGED <<lun, timer, fired, poller, bus, disc>>
        BY DEF MessageIn, MsgInDropped, MsgInGarbled, MsgInTooLong, MsgInCmdComplete,
            MsgInDisconnect, MsgInParityError, MsgInMessageReject, MsgInPointers, MsgInUnknown,
            MsgInUnexpected, MsgInNotIdentify, MsgInIdentify, MsgAccepted, MsgIn, InPhase, acbVars
    <2> QED BY <2>1, MessageInEstablished DEF Same
<1>2. ASSUME NEW l \in Lun, MsgInIdentify(l) PROVE AgreeInv'
    <2>1. state = "RESELECTED" /\ l = bus
        BY <1>2 DEF MsgInIdentify, MsgAccepted, MsgIn, InPhase
    <2>2. CASE UNCHANGED <<nexus, nexusq, lubusy, state>>
        BY <1>1, <2>2, AgreeQuiet
    <2>3. ASSUME NEW i \in DOMAIN nexusq, lun[nexusq[i]] = l, nexus' = nexusq[i],
                 nexusq' = RemoveAt(nexusq, i), lubusy' = lubusy \cup {l}
          PROVE  AgreeInv'
        <3>1. ToSet(nexusq') = ToSet(nexusq) \ {nexus'}
            BY <2>3, RemoveAtSet DEF IInv, QueueType, Exclusive
        <3>2. nexus' \in ToSet(nexusq)
            BY <2>3 DEF ToSet
        <3>3. lubusy' = lubusy /\ bus' = lun'[nexus']
            BY <1>1, <2>1, <2>3, <3>2, ConnectedSplit DEF AgreeInv, BusyIffEstablished
        <3>4. ReselectionIsExpected'
            BY <1>1, <2>1, <2>3, <3>1 DEF AgreeInv, ReselectionIsExpected
        <3> QED BY <1>1, <3>3, <3>4 DEF AgreeInv, BusyIffEstablished
    <2> QED BY <1>2, <2>2, <2>3 DEF MsgInIdentify
<1>3. CASE MsgInCmdComplete \/ MsgInDisconnect
    BY <1>1, <1>3, AgreeQuiet DEF MsgInCmdComplete, MsgInDisconnect, MsgAccepted, MsgIn, InPhase,
        queueVars, Connected
<1>4. CASE UNCHANGED <<queueVars, state>>
    BY <1>1, <1>4, AgreeQuiet DEF queueVars
<1> QED BY <1>2, <1>3, <1>4 DEF MessageIn, MsgInDropped, MsgInGarbled, MsgInTooLong,
    MsgInParityError, MsgInMessageReject, MsgInPointers, MsgInUnknown, MsgInUnexpected,
    MsgInNotIdentify

LEMMA AgreeNext == ASSUME NoTimeouts PROVE Spec => []AgreeInv
<1>1. Init => AgreeInv
    <2>1. ToSet(<<>>) = {}
        BY DEF ToSet
    <2>2. Init => Established = {} /\ ~Connected
        BY <2>1 DEF Init, Established, Connected
    <2> QED BY <2>2 DEF Init, AgreeInv, BusyIffEstablished, ReselectionIsExpected
<1>2. TypeOK /\ IInv /\ AgreeInv /\ [Next]_vars => AgreeInv'
    <2> SUFFICES ASSUME TypeOK, IInv, AgreeInv, [Next]_vars PROVE AgreeInv'
        OBVIOUS
    <2>1. ~Clock
        BY NullAssumption DEF Clock, Timeout, TimeoutFire, TimeoutRun, PollExpire, PollDone,
            NoTimeouts, AgreeInv
    <2>2. CASE Information
        <3>1. CASE PhaseUnexpected
            BY <3>1, AgreeInit DEF PhaseUnexpected
        <3>2. CASE UNCHANGED <<nexus, nexusq, lubusy, lun, timer, fired, poller, bus, disc, state>>
            BY <3>2, AgreeQuiet
        <3> QED BY <2>2, <3>1, <3>2 DEF Information, IntrReturn, IntrParity, PhaseMsgOut,
                PhaseData, PhaseStat, InPhase, queueVars, acbVars, busVars
    <2>3. CASE UNCHANGED vars
        BY <2>3, AgreeQuiet DEF vars, queueVars, acbVars, ctlVars, busVars
    <2> QED BY <2>1, <2>2, <2>3, AgreeMidLayer, AgreeSelection, AgreeBusFree, AgreeMessageIn DEF Next
<1> QED BY <1>1, <1>2, Invariance, PTL DEF Spec

(***************************************************************************)
(* As long as no timeout runs and no target drops a command in the middle, *)
(* lubusy, ACB_NEXUS and the targets' own idea of what is disconnected     *)
(* agree with the lists, through resets, rejected and unexpected           *)
(* reselections and every message (spc_sched, spc_reselect, spc_done,      *)
(* spc_init).  spc_wrong_queue.cfg shows what an unexpected bus free does  *)
(* to them.                                                                *)
(***************************************************************************)
THEOREM QueuesAlwaysAgree ==
    ASSUME NoTimeouts, "unexpected" \notin Env PROVE Spec => []QueuesAgree
<1>1. IInv /\ AgreeInv => QueuesAgree
    BY ConnectedSplit DEF AgreeInv, QueuesAgree, FlagNamesQueue, IInv, NexusFlagged
<1> QED BY <1>1, AgreeNext, Invariance, PTL

-----------------------------------------------------------------------------
(* A REQUEST SENSE goes first *)

Sensing(a) == "SENSE" \in flags[a]
Selecting  == IF state = "SELECTING" THEN {nexus} ELSE {}

\* commands that wait to fetch sense data are at the front of list q ...
SenseInFront(q) == \A i, j \in DOMAIN q : i < j /\ Sensing(q[j]) => Sensing(q[i])

\* ... and the others that are on their lun, E or on the list, are behind them
SenseAlone(q, E) ==
    \A b \in ToSet(q), a \in E \cup ToSet(q) :
        Sensing(b) /\ a # b /\ lun[a] = lun[b] => a \in ToSet(q) /\ ~Sensing(a)

\* A command that waits for nothing is selected before another only if none waits
\* to fetch sense data; and a block the driver does not have is not marked.
SenseInv ==
    /\ SenseInFront(ready) /\ SenseAlone(ready, Established \cup Selecting)
    /\ state = "SELECTING" /\ ~Sensing(nexus) => \A b \in ToSet(ready) : ~Sensing(b)
    /\ \A a \in Acb : own[a] \in {"free", "held"} => ~Sensing(a)

\* what a selection has to respect
Respects ==
    \A a \in Acb : nexus # a /\ nexus' = a /\ state' = "SELECTING" =>
        \A b \in ToSet(ready) \ {a} : ~(Sensing(b) /\ lun[a] = lun[b])

\* of a list that is ordered like this, the first command whose lun is not busy is no
\* obstacle to one that waits for sense data
LEMMA FirstIdle ==
    ASSUME NEW q \in Seq(Acb), SenseInFront(q), NEW E, SenseAlone(q, E), E \cap ToSet(q) = {},
           NEW B, B = {lun[a] : a \in E},
           NEW i \in DOMAIN q, lun[q[i]] \notin B,
           \A j \in DOMAIN q : lun[q[j]] \notin B => i <= j
    PROVE  /\ \A b \in ToSet(q) \ {q[i]} : ~(Sensing(b) /\ lun[q[i]] = lun[b])
           /\ ~Sensing(q[i]) => \A b \in ToSet(q) : ~Sensing(b)
<1>1. ASSUME NEW k \in DOMAIN q, Sensing(q[k]) PROVE i <= k
    <2>1. lun[q[k]] \notin B
        BY <1>1 DEF SenseAlone, ToSet
    <2> QED BY <2>1
<1>2. ASSUME NEW b \in ToSet(q), Sensing(b) PROVE Sensing(q[i])
    <2>1. PICK k \in DOMAIN q : q[k] = b
        BY DEF ToSet
    <2>2. i <= k /\ i \in Nat /\ k \in Nat
        BY <1>1, <1>2, <2>1
    <2> QED BY <1>2, <2>1, <2>2 DEF SenseInFront
<1>3. q[i] \in ToSet(q)
    BY DEF ToSet
<1> QED BY <1>2, <1>3 DEF SenseAlone

\* a command taken out of the list
LEMMA RemoveInFront ==
    ASSUME NEW q \in Seq(Acb), SenseInFront(q), NEW i \in DOMAIN q
    PROVE  SenseInFront(RemoveAt(q, i))
<1> DEFINE t == RemoveAt(q, i)
<1>1. /\ t \in Seq(Acb) /\ Len(t) = Len(q) - 1
      /\ \A j \in 1..Len(t) : t[j] = IF j < i THEN q[j] ELSE q[j + 1]
    BY RemoveAtElements
<1> HIDE DEF t
<1>2. Len(q) \in Nat /\ DOMAIN q = 1..Len(q) /\ DOMAIN t = 1..Len(t)
    BY <1>1
<1> DEFINE at(m) == IF m < i THEN m ELSE m + 1
<1>3. \A m \in DOMAIN t : at(m) \in DOMAIN q /\ t[m] = q[at(m)]
    BY <1>1, <1>2
<1>4. \A m, n \in DOMAIN t : m < n => at(m) < at(n)
    BY <1>1, <1>2
<1> HIDE DEF at
<1>5. SenseInFront(t)
    BY <1>3, <1>4 DEF SenseInFront
<1> QED BY <1>5 DEF t

\* spc_sched() on such a list
LEMMA SenseSched ==
    ASSUME NEW q \in Seq(Acb), IsInjective(q), NEW n, NEW B, Sched(q, B, n),
           SenseInFront(q), SenseAlone(q, Established'), Established' \cap ToSet(q) = {},
           B = {lun[a] : a \in Established'}
    PROVE  /\ SenseInFront(ready') /\ SenseAlone(ready', Established' \cup Selecting')
           /\ state' = "SELECTING" =>
                 /\ nexus' \in ToSet(q)
                 /\ \A b \in ToSet(q) \ {nexus'} : ~(Sensing(b) /\ lun[nexus'] = lun[b])
                 /\ ~Sensing(nexus') => \A b \in ToSet(ready') : ~Sensing(b)
<1>1. CASE ready' = q /\ state' = "IDLE"
    BY <1>1 DEF Selecting
<1>2. ASSUME NEW i \in DOMAIN q, lun[q[i]] \notin B,
             \A j \in DOMAIN q : lun[q[j]] \notin B => i <= j,
             Select(q[i]), ready' = RemoveAt(q, i)
      PROVE  /\ SenseInFront(ready') /\ SenseAlone(ready', Established' \cup Selecting')
             /\ nexus' \in ToSet(q)
             /\ \A b \in ToSet(q) \ {nexus'} : ~(Sensing(b) /\ lun[nexus'] = lun[b])
             /\ ~Sensing(nexus') => \A b \in ToSet(ready') : ~Sensing(b)
    <2>1. ToSet(ready') = ToSet(q) \ {q[i]} /\ nexus' = q[i] /\ Selecting' = {q[i]}
        BY <1>2, RemoveAtSet DEF Select, Selecting
    <2>2. q[i] \in ToSet(q)
        BY DEF ToSet
    <2>3. /\ \A b \in ToSet(q) \ {q[i]} : ~(Sensing(b) /\ lun[q[i]] = lun[b])
          /\ ~Sensing(q[i]) => \A b \in ToSet(q) : ~Sensing(b)
        BY <1>2, FirstIdle
    <2>4. SenseInFront(ready')
        BY <1>2, RemoveInFront
    <2>5. SenseAlone(ready', Established' \cup Selecting')
        BY <2>1, <2>3 DEF SenseAlone
    <2> QED BY <2>1, <2>2, <2>3, <2>4, <2>5
<1> QED BY <1>1, <1>2 DEF Sched

\* a step that selects nothing and moves no command to the ready list
LEMMA SenseKept ==
    ASSUME IInv, SenseInv, ready' = ready,
           \A a \in Acb : own[a] = "drv" => lun'[a] = lun[a] /\ (Sensing(a)' <=> Sensing(a)),
           Established' \cup Selecting' \subseteq Established \cup Selecting,
           state' = "SELECTING" => state = "SELECTING" /\ nexus' = nexus,
           \A a \in Acb : own'[a] \in {"free", "held"} => ~Sensing(a)'
    PROVE  SenseInv' /\ Respects
<1>1. \A a \in ToSet(ready) \cup Established \cup Selecting : a \in Acb /\ own[a] = "drv"
    BY ConnectedSplit, Listed DEF Selecting, IInv, QueueType, NexusHeld, Exclusive, Queued
<1>2. SenseInFront(ready)'
    <2>1. \A i \in DOMAIN ready : ready[i] \in ToSet(ready)
        BY DEF ToSet
    <2> QED BY <1>1, <2>1 DEF SenseInv, SenseInFront
<1>3. SenseAlone(ready, Established \cup Selecting)'
    BY <1>1 DEF SenseInv, SenseAlone
<1>4. state' = "SELECTING" /\ ~Sensing(nexus)' => \A b \in ToSet(ready) : ~Sensing(b)'
    BY <1>1 DEF SenseInv, Selecting
<1> QED BY <1>2, <1>3, <1>4 DEF SenseInv, Respects

\* a step that ends in spc_sched(), on the ready list or with one command more
LEMMA SenseScheduled ==
    ASSUME SenseInv, NEW q \in Seq(Acb), IsInjective(q), NEW n, NEW B, Sched(q, B, n),
           ToSet(ready) \subseteq ToSet(q), SenseInFront(q), SenseAlone(q, Established'),
           Established' \cap ToSet(q) = {}, Established' \subseteq Acb,
           B = {lun[a] : a \in Established'}, lun' = lun,
           \A a \in Acb : Sensing(a)' <=> Sensing(a),
           \A a \in Acb : own'[a] \in {"free", "held"} => own[a] \in {"free", "held"}
    PROVE  SenseInv' /\ Respects
<1>1. /\ SenseInFront(ready') /\ SenseAlone(ready', Established' \cup Selecting')
      /\ state' = "SELECTING" =>
            /\ nexus' \in ToSet(q)
            /\ \A b \in ToSet(q) \ {nexus'} : ~(Sensing(b) /\ lun[nexus'] = lun[b])
            /\ ~Sensing(nexus') => \A b \in ToSet(ready') : ~Sensing(b)
    BY SenseSched
<1>2. ready' \in Seq(Acb) /\ ToSet(q) \subseteq Acb
    BY SchedStep, Listed
<1>3. ToSet(ready') \subseteq Acb /\ \A i \in DOMAIN ready' : ready'[i] \in Acb
    BY <1>2, Listed
<1>4. SenseInFront(ready)'
    BY <1>1, <1>3 DEF SenseInFront
<1>5. SenseAlone(ready, Established \cup Selecting)'
    <2>1. Established' \cup Selecting' \subseteq Acb
        BY <1>1, <1>2 DEF Selecting
    <2> QED BY <1>1, <1>3, <2>1 DEF SenseAlone
<1>6. state' = "SELECTING" /\ ~Sensing(nexus)' => \A b \in ToSet(ready') : ~Sensing(b)'
    BY <1>1, <1>2, <1>3
<1>7. Respects
    BY <1>1 DEF Respects
<1> QED BY <1>4, <1>5, <1>6, <1>7 DEF SenseInv

\* ... with the ready list as it is
LEMMA SenseReady ==
    ASSUME IInv, SenseInv, NEW n, NEW B, Sched(ready, B, n), Established' \subseteq Established,
           B = {lun[a] : a \in Established'}, lun' = lun, flags' = flags,
           \A a \in Acb : own'[a] \in {"free", "held"} => own[a] \in {"free", "held"}
    PROVE  SenseInv' /\ Respects
<1>1. Established \cap ToSet(ready) = {} /\ ready \in Seq(Acb) /\ IsInjective(ready)
    BY DEF Established, IInv, QueueType, Exclusive
<1>2. SenseAlone(ready, Established') /\ SenseInFront(ready)
    BY DEF SenseInv, SenseAlone
<1>3. Established' \subseteq Acb /\ \A a \in Acb : Sensing(a)' <=> Sensing(a)
    BY ConnectedSplit DEF Sensing
<1>4. Established' \cap ToSet(ready) = {}
    BY <1>1
<1> QED BY <1>1, <1>2, <1>3, <1>4, SenseScheduled

LEMMA SenseMidLayer ==
    ASSUME "retry" \notin Env, TypeOK, IInv, AgreeInv, SenseInv, MidLayer PROVE SenseInv' /\ Respects
<1>1. Established' = Established
    BY MidEstablished DEF MidOnly
<1>2. ASSUME NEW a \in Acb, NEW rst \in BOOLEAN, NEW pl \in BOOLEAN, ScsiCmd(a, rst, pl)
      PROVE  SenseInv' /\ Respects
    <2> DEFINE q == Append(ready, a)
    <2>1. /\ own[a] = "held" /\ own' = [own EXCEPT ![a] = "drv"] /\ lun' = lun
          /\ flags' = [flags EXCEPT ![a] = IF rst THEN @ \cup {"RESET"} ELSE @]
        BY <1>2 DEF ScsiCmd
    <2>2. /\ \A c \in Acb : Sensing(c)' <=> Sensing(c)
          /\ \A c \in Acb : own'[c] \in {"free", "held"} => own[c] \in {"free", "held"}
        BY <2>1 DEF Sensing, TypeOK
    <2>3. ~Sensing(a) /\ a \notin ToSet(ready) /\ a \notin Established
        BY <2>1, NotQueued DEF SenseInv
    <2>4. q \in Seq(Acb) /\ IsInjective(q) /\ ToSet(q) = ToSet(ready) \cup {a}
        BY <2>3, AppendSet DEF IInv, QueueType, Exclusive
    <2>5. SenseInFront(q)
        <3>1. \A i \in DOMAIN q : Sensing(q[i]) => i \in DOMAIN ready
            BY <2>3 DEF IInv, QueueType
        <3>2. \A i \in DOMAIN ready : i \in DOMAIN q /\ q[i] = ready[i]
            BY DEF IInv, QueueType
        <3>3. \A i \in DOMAIN q, j \in DOMAIN ready : i < j => i \in DOMAIN ready
            BY DEF IInv, QueueType
        <3> HIDE DEF q
        <3> QED BY <3>1, <3>2, <3>3 DEF SenseInv, SenseInFront
    <2> HIDE DEF q
    <2>6. SenseAlone(q, Established \cup Selecting)
        BY <2>3, <2>4 DEF SenseInv, SenseAlone
    <2>7. CASE state = "IDLE" /\ Sched(q, lubusy, nexus)
        <3>1. Established \cap ToSet(q) = {} /\ Established \subseteq Acb
            BY <2>3, <2>4, <2>7, ConnectedSplit DEF IInv, Exclusive, Established, Connected
        <3>2. SenseAlone(q, Established')
            BY <1>1, <2>6 DEF SenseAlone
        <3>3. lubusy = {lun[c] : c \in Established'}
            BY <1>1 DEF AgreeInv, BusyIffEstablished
        <3> QED BY <1>1, <2>1, <2>2, <2>4, <2>5, <2>7, <3>1, <3>2, <3>3, SenseScheduled
    <2>8. CASE ready' = q /\ UNCHANGED <<nexus, state>>
        <3>1. ToSet(q) \subseteq Acb /\ \A i \in DOMAIN q : q[i] \in Acb
            BY <2>4, Listed
        <3>2. Established \cup Selecting \subseteq Acb
            BY ConnectedSplit DEF Selecting, IInv, QueueType, NexusHeld
        <3>3. Selecting' = Selecting
            BY <2>8 DEF Selecting
        <3>4. SenseInFront(ready)'
            BY <2>2, <2>5, <2>8, <3>1 DEF SenseInFront
        <3>5. SenseAlone(ready, Established \cup Selecting)'
            BY <1>1, <2>1, <2>2, <2>6, <2>8, <3>1, <3>2, <3>3 DEF SenseAlone
        <3>6. state' = "SELECTING" /\ ~Sensing(nexus)' => \A b \in ToSet(ready') : ~Sensing(b)'
            BY <2>2, <2>3, <2>4, <2>8, <3>1, <3>2 DEF SenseInv, Selecting
        <3> QED BY <2>2, <2>8, <3>4, <3>5, <3>6 DEF SenseInv, Respects
    <2> QED BY <1>2, <2>7, <2>8 DEF ScsiCmd, q
<1>3. ASSUME NEW a \in Acb, AcbFree(a) \/ \E l \in Lun : AcbAlloc(a, l) PROVE SenseInv' /\ Respects
    <2>1. UNCHANGED <<ready, nexus, state>>
        BY <1>3 DEF AcbFree, AcbAlloc, queueVars, ctlVars
    <2>2. \A c \in Acb : own[c] = "drv" => lun'[c] = lun[c] /\ (Sensing(c)' <=> Sensing(c))
        BY <1>3 DEF AcbFree, AcbAlloc, TypeOK, Sensing
    <2>3. \A c \in Acb : own'[c] \in {"free", "held"} => ~Sensing(c)'
        BY <1>3 DEF AcbFree, AcbAlloc, TypeOK, Sensing, SenseInv
    <2> QED BY <1>1, <2>1, <2>2, <2>3, SenseKept DEF Selecting
<1>4. ASSUME NEW a \in Acb PROVE ~Retry(a)
    BY DEF Retry
<1> QED BY <1>2, <1>3, <1>4 DEF MidLayer

\* spc_sense(): the command keeps the adapter, and goes back in front if it is overtaken
LEMMA SenseSense ==
    ASSUME IInv, SenseInv, Connected, Sense(nexus), UNCHANGED <<nexusq, lun>>
    PROVE  SenseInv' /\ Respects
<1>1. /\ nexus \in Acb /\ own[nexus] = "drv" /\ nexus \notin ToSet(ready)
      /\ ready' = ready /\ nexus' = nexus /\ own' = own /\ state' = "SELECTING"
      /\ Established' \cup Selecting' = Established
    BY ConnectedSplit DEF Sense, Select, Established, Selecting, Connected, IInv, Exclusive
<1>2. Sensing(nexus)' /\ \A a \in Acb \ {nexus} : Sensing(a)' <=> Sensing(a)
    BY <1>1 DEF Sense, Sensing, IInv, QueueType
<1>3. ToSet(ready) \subseteq Acb /\ \A i \in DOMAIN ready : ready[i] \in Acb \ {nexus}
    BY <1>1, Listed DEF IInv, QueueType, ToSet
<1>4. SenseInFront(ready)'
    BY <1>1, <1>2, <1>3 DEF SenseInv, SenseInFront
<1>5. SenseAlone(ready, Established \cup Selecting)'
    BY <1>1, <1>2, <1>3 DEF SenseInv, SenseAlone
<1> QED BY <1>1, <1>2, <1>4, <1>5 DEF SenseInv, Respects

LEMMA SenseFinish ==
    ASSUME IInv, AgreeInv', SenseInv, NEW e, Finish(nexus, e),
           Connected \/ (state = "SELECTING" /\ e # "NOERROR")
    PROVE  SenseInv' /\ Respects
<1>1. CASE NeedsSense(nexus, e) /\ Sense(nexus)
    BY <1>1, SenseSense DEF NeedsSense, Finish
<1>2. CASE own' = [own EXCEPT ![nexus] = "done"] /\ Sched(ready, lubusy', NoAcb) /\ flags' = flags
    <2>1. lun' = lun /\ Established' \subseteq Established
        BY <1>2, SchedDisconnects, ConnectedSplit DEF Finish
    <2>2. lubusy' = {lun[a] : a \in Established'}
        BY <2>1 DEF AgreeInv, BusyIffEstablished
    <2>3. \A a \in Acb : own'[a] \in {"free", "held"} => own[a] \in {"free", "held"}
        BY <1>2 DEF IInv, QueueType
    <2> QED BY <1>2, <2>1, <2>2, <2>3, SenseReady
<1> QED BY <1>1, <1>2 DEF Finish

\* spc_sched() with nothing connected
LEMMA SenseResched ==
    ASSUME IInv, AgreeInv, SenseInv, ~Connected, NEW n, Sched(ready, lubusy, n),
           UNCHANGED <<nexusq, own, lun, flags>>
    PROVE  SenseInv' /\ Respects
<1>1. Established' = Established
    BY SchedDisconnects, ConnectedSplit
<1> QED BY <1>1, SenseReady DEF AgreeInv, BusyIffEstablished

LEMMA SenseInit == ASSUME IInv, SenseInv, SpcInit PROVE SenseInv' /\ Respects
<1>1. /\ Established' = {} /\ Selecting' = {} /\ state' = "IDLE" /\ lun' = lun /\ flags' = flags
      /\ \A a \in Acb : own'[a] \in {"free", "held"} => own[a] \in {"free", "held"}
    <2>1. ToSet(<<>>) = {}
        BY DEF ToSet
    <2> QED BY <2>1 DEF SpcInit, Established, Connected, Selecting
<1>2. SenseInFront(ready') /\ ToSet(ready') \subseteq ToSet(ready)
    <2>1. ASSUME NEW i \in DOMAIN ready, ready' = RemoveAt(ready, i)
          PROVE  SenseInFront(ready') /\ ToSet(ready') \subseteq ToSet(ready)
        BY <2>1, RemoveInFront, RemoveAtSet DEF SenseInv, IInv, QueueType, Exclusive
    <2>2. CASE ready' = ready
        BY <2>2 DEF SenseInv
    <2> QED BY <2>1, <2>2 DEF SpcInit
<1>3. SenseInFront(ready)'
    BY <1>1, <1>2 DEF SenseInFront, Sensing
<1>4. SenseAlone(ready, Established \cup Selecting)'
    BY <1>1, <1>2 DEF SenseInv, SenseAlone, Sensing
<1>5. \A a \in Acb : own'[a] \in {"free", "held"} => ~Sensing(a)'
    BY <1>1 DEF SenseInv, Sensing
<1> QED BY <1>1, <1>3, <1>4, <1>5 DEF SenseInv, Respects

\* a reselection that overtakes a selection
LEMMA SenseReselected ==
    ASSUME IInv, SenseInv, NEW l \in Lun, IntrReselected(l) PROVE SenseInv' /\ Respects
<1>1. /\ ~Connected /\ ~Connected' /\ state' = "RESELECTED"
      /\ UNCHANGED <<nexusq, own, lun, flags>>
    BY DEF IntrReselected, AtRest, Connected, acbVars
<1>2. Established' = Established /\ Selecting' = {} /\ Established = ToSet(nexusq)
    BY <1>1 DEF Established, Selecting
<1>3. CASE ready' = ready
    BY <1>1, <1>2, <1>3, SenseKept DEF SenseInv, Sensing
<1>4. CASE state = "SELECTING" /\ ready' = Push(nexus, ready)
    <2>1. nexus \in Acb /\ nexus \notin ToSet(ready) /\ Selecting = {nexus} /\ lun[nexus] \notin lubusy
        BY <1>1, <1>4 DEF IInv, QueueType, NexusHeld, Exclusive, PendingIsFree, Selecting
    <2>2. ready' \in Seq(Acb) /\ ToSet(ready') = ToSet(ready) \cup {nexus}
        BY <1>4, <2>1, PushSet DEF IInv, QueueType, Exclusive
    <2>3. SenseInFront(ready')
        <3>1. /\ Len(ready') = Len(ready) + 1 /\ ready'[1] = nexus
              /\ \A j \in 1..Len(ready) : ready'[j + 1] = ready[j]
            BY <1>4 DEF Push, IInv, QueueType
        <3>2. Len(ready) \in Nat /\ DOMAIN ready = 1..Len(ready) /\ DOMAIN ready' = 1..(Len(ready) + 1)
            BY <2>2, <3>1 DEF IInv, QueueType
        <3>3. \A j \in DOMAIN ready' : j = 1 \/ (j - 1 \in DOMAIN ready /\ ready'[j] = ready[j - 1])
            BY <3>1, <3>2
        <3>4. ASSUME NEW i \in DOMAIN ready', NEW j \in DOMAIN ready', i < j, Sensing(ready'[j])
              PROVE  Sensing(ready'[i])
            <4>1. j - 1 \in DOMAIN ready /\ ready'[j] = ready[j - 1] /\ ready[j - 1] \in ToSet(ready)
                BY <3>2, <3>3, <3>4 DEF ToSet
            <4>2. CASE i = 1
                BY <1>4, <3>1, <3>4, <4>1, <4>2 DEF SenseInv
            <4>3. CASE i # 1
                <5>1. i - 1 \in DOMAIN ready /\ ready'[i] = ready[i - 1] /\ i - 1 < j - 1
                    BY <3>2, <3>3, <3>4, <4>3
                <5> QED BY <3>4, <4>1, <5>1 DEF SenseInv, SenseInFront
            <4> QED BY <4>2, <4>3
        <3> QED BY <3>4 DEF SenseInFront
    <2>4. SenseAlone(ready', Established \cup Selecting)
        <3>1. \A a \in Established : lun[a] # lun[nexus]
            BY <2>1 DEF IInv, EstablishedIsBusy
        <3> QED BY <2>1, <2>2, <3>1 DEF SenseInv, SenseAlone
    <2>5. SenseInFront(ready)'
        BY <1>1, <2>3 DEF SenseInFront, Sensing
    <2>6. SenseAlone(ready, Established \cup Selecting)'
        BY <1>1, <1>2, <2>4 DEF SenseAlone, Sensing
    <2> QED BY <1>1, <2>5, <2>6 DEF SenseInv, Respects, Sensing
<1> QED BY <1>3, <1>4 DEF IntrReselected

LEMMA SenseSelection ==
    ASSUME IInv, AgreeInv, AgreeInv', SenseInv, Selection PROVE SenseInv' /\ Respects
<1>1. AtRest => ~Connected
    BY DEF AtRest, Connected
<1>2. CASE IntrSelected
    <2>1. /\ state = "SELECTING" /\ state' = "CONNECTED" /\ nexus' = nexus /\ nexusq' = nexusq
          /\ ready' = ready /\ UNCHANGED <<own, lun>>
          /\ flags' = [flags EXCEPT ![nexus] = @ \cup {"NEXUS"}]
        BY <1>2 DEF IntrSelected
    <2>2. Established' \cup Selecting' \subseteq Established \cup Selecting
        BY <2>1 DEF Established, Selecting, Connected
    <2>3. \A a \in Acb : Sensing(a)' <=> Sensing(a)
        BY <2>1 DEF Sensing, IInv, QueueType
    <2> QED BY <2>1, <2>2, <2>3, SenseKept DEF SenseInv
<1>3. CASE IntrSelTimeout
    BY <1>3, SenseFinish DEF IntrSelTimeout
<1>4. CASE IntrSelectWhileIdle \/ IntrReset
    BY <1>4, SenseInit DEF IntrSelectWhileIdle, IntrReset
<1>5. CASE IntrTargetMode \/ IntrBusFree
    BY <1>1, <1>5, SenseResched DEF IntrTargetMode, IntrBusFree, acbVars
<1> QED BY <1>2, <1>3, <1>4, <1>5, SenseReselected DEF Selection

LEMMA SenseBusFree ==
    ASSUME IInv, AgreeInv, AgreeInv', SenseInv, BusFree PROVE SenseInv' /\ Respects
<1>1. CASE DisconReselected
    BY <1>1, SenseResched DEF DisconReselected, acbVars, Connected
<1>2. CASE DisconUnexpected
    BY <1>2, SenseSense DEF DisconUnexpected, Connected
<1>3. CASE DisconAborted \/ DisconComplete
    BY <1>3, SenseFinish DEF DisconAborted, DisconComplete, Connected
<1>4. CASE DisconDisconnect
    <2>1. /\ Connected /\ Sched(ready, lubusy, NoAcb) /\ nexusq' = Push(nexus, nexusq)
          /\ UNCHANGED <<lubusy, own, lun, flags>>
        BY <1>4 DEF DisconDisconnect, acbVars, Connected
    <2>2. nexus \in Acb /\ nexus \notin ToSet(nexusq) /\ Established = ToSet(nexusq) \cup {nexus}
        BY <2>1 DEF Connected, Established, IInv, QueueType, Exclusive, NexusHeld
    <2>3. Established' = Established
        BY <2>1, <2>2, PushSet, SchedDisconnects DEF IInv, QueueType, Exclusive
    <2> QED BY <2>1, <2>3, SenseReady DEF AgreeInv, BusyIffEstablished
<1> QED BY <1>1, <1>2, <1>3, <1>4 DEF BusFree

LEMMA SenseMessageIn == ASSUME IInv, SenseInv, MessageIn PROVE SenseInv' /\ Respects
<1>1. /\ UNCHANGED <<ready, own, lun, flags>> /\ state # "SELECTING"
      /\ state' \in {state, "CONNECTED", "DISCONNECT", "CMDCOMPLETE"}
    BY DEF MessageIn, MsgInDropped, MsgInGarbled, MsgInTooLong, MsgInCmdComplete,
        MsgInDisconnect, MsgInParityError, MsgInMessageReject, MsgInPointers, MsgInUnknown,
        MsgInUnexpected, MsgInNotIdentify, MsgInIdentify, MsgAccepted, MsgIn, InPhase, acbVars,
        queueVars
<1>2. Established' = Established /\ Selecting' = {}
    BY <1>1, MessageInEstablished DEF Same, Selecting
<1> QED BY <1>1, <1>2, SenseKept DEF SenseInv, Sensing

(***************************************************************************)
(* As long as no timeout runs and finished transfers are not resubmitted   *)
(* with their block, no command is selected on a lun while a REQUEST SENSE *)
(* for that lun waits: a selection that is overtaken goes back to the      *)
(* front, and a lun is not busy for a command that waits for sense data    *)
(* (spc_sched, spc_sense, spc_intr "Turn off selection stuff").            *)
(***************************************************************************)
THEOREM SenseIsFirst ==
    ASSUME NoTimeouts, "retry" \notin Env PROVE Spec => SenseFirst
<1>1. Init => SenseInv
    <2>1. ToSet(<<>>) = {}
        BY DEF ToSet
    <2> QED BY <2>1 DEF Init, SenseInv, SenseInFront, SenseAlone, Sensing
<1>2. TypeOK /\ IInv /\ AgreeInv /\ AgreeInv' /\ SenseInv /\ [Next]_vars =>
          SenseInv' /\ (UNCHANGED vars \/ Respects)
    <2> SUFFICES ASSUME TypeOK, IInv, AgreeInv, AgreeInv', SenseInv, [Next]_vars
                 PROVE  SenseInv' /\ (UNCHANGED vars \/ Respects)
        OBVIOUS
    <2>1. ~Clock
        BY NullAssumption DEF Clock, Timeout, TimeoutFire, TimeoutRun, PollExpire, PollDone,
            NoTimeouts, AgreeInv
    <2>2. ASSUME UNCHANGED <<nexus, nexusq, ready, own, lun, flags, state>> PROVE SenseInv' /\ Respects
        <3>1. Established' = Established /\ Selecting' = Selecting
            BY <2>2 DEF Established, Selecting, Connected
        <3> QED BY <2>2, <3>1, SenseKept DEF SenseInv, Sensing
    <2>3. CASE Information
        <3>1. CASE PhaseUnexpected
            BY <3>1, SenseInit DEF PhaseUnexpected
        <3> QED BY <2>2, <2>3, <3>1 DEF Information, IntrReturn, IntrParity, PhaseMsgOut,
                PhaseData, PhaseStat, queueVars, acbVars
    <2>4. CASE UNCHANGED vars
        BY <2>2, <2>4 DEF vars, queueVars, acbVars, ctlVars
    <2> QED BY <2>1, <2>3, <2>4, SenseMidLayer, SenseSelection, SenseBusFree, SenseMessageIn DEF Next
<1>3. Spec => [][Respects]_vars
    BY <1>1, <1>2, AgreeNext, Invariance, PTL DEF Spec
<1> QED BY <1>3 DEF SenseFirst, Respects, Sensing
=============================================================================
