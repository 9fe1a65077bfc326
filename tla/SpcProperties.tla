--------------------------- MODULE SpcProperties ---------------------------
(***************************************************************************)
(* What the SCSI driver promises (module Spc): the fairness under which it *)
(* makes progress, the type invariant, safety and liveness.                *)
(***************************************************************************)
EXTENDS Spc

\* Interrupts are delivered, and targets do not hold the bus, a command or an
\* answer for ever: a selection that is retried succeeds, a disconnected target
\* reselects and identifies itself, one that is refused takes the message it asks
\* for, the bus goes free when it should, and a connected target sends status and
\* COMMAND COMPLETE, however often it disconnects before that.
Fairness ==
    /\ SF_vars(IntrSelected)
    /\ WF_vars(BusFree)
    /\ WF_vars(state = "RESELECTED" /\ PhaseMsgOut)
    /\ \A l \in Lun :
          /\ SF_vars(IntrReselected(l))
          /\ WF_vars(MsgInIdentify(l))
          /\ SF_vars(bus = l /\ PhaseStat("OK"))
          /\ SF_vars(bus = l /\ MsgInCmdComplete)

FairSpec == Spec /\ Fairness

-----------------------------------------------------------------------------
\* every variable stays within its declared range
TypeOK ==
    /\ state \in States /\ nexus \in Acb \cup {NoAcb}
    /\ ready \in Seq(Acb) /\ nexusq \in Seq(Acb) /\ lubusy \subseteq Lun
    /\ own \in [Acb -> Owner] /\ lun \in [Acb -> Lun \cup {NoLun}]
    /\ flags \in [Acb -> SUBSET Flag] /\ sensing \subseteq Acb /\ error \in [Acb -> Error]
    /\ stat \in [Acb -> Status] /\ timer \subseteq Acb
    /\ fired \in Acb \cup {NoAcb} /\ polled \subseteq Acb
    /\ msgpriq \subseteq Msg /\ msgoutq \subseteq Msg
    /\ lastmsg \in Msg \cup {NoMsg} /\ omsg \in Msg \cup {NoMsg}
    /\ aborting \in BOOLEAN /\ drop \in BOOLEAN
    /\ prevphase \in Phase /\ intr \in BOOLEAN
    /\ poller \in Acb \cup {NoAcb} /\ polltry \in 0..1
    /\ arb \in BOOLEAN /\ bus \in Lun \cup {NoLun} /\ disc \subseteq Lun
    /\ atn \in BOOLEAN /\ gotstat \in BOOLEAN

\* the commands with an established nexus at their target
Queued(a)   == a \in ToSet(ready) \cup ToSet(nexusq) \cup {nexus}
Connected   == state \in {"CONNECTED", "DISCONNECT", "CMDCOMPLETE"}
Established == ToSet(nexusq) \cup (IF Connected THEN {nexus} ELSE {})

\* A command block is linked in one place only, and only while the driver has
\* the command: ready_list, nexus_list and sc_nexus share one TAILQ entry, so a
\* block on two lists at once would corrupt both (spc_done, spc_dequeue).
Exclusive ==
    /\ IsInjective(ready) /\ IsInjective(nexusq)
    /\ ToSet(ready) \cap ToSet(nexusq) = {}
    /\ nexus \notin ToSet(ready) \cup ToSet(nexusq)
    /\ \A a \in Acb : Queued(a) => own[a] = "drv"

\* No command the driver has accepted is dropped from all of its lists, through
\* selection races, backoffs, senses, aborts and timeouts.
NothingLost == \A a \in Acb : own[a] = "drv" => Queued(a)

\* spc_intr dereferences sc_nexus by the state alone (the SPC_ASSERTs compile to
\* nothing), and spc_sched overwrites it when the state is SPC_IDLE.
NexusMatchesState == nexus = NoAcb <=> state \in {"IDLE", "RESELECTED"}

\* There are no tags: spc_reselect finds a command by target and lun only, so two
\* commands established on one lun would be resumed for each other.
OneNexusPerLun == \A a, b \in Established : lun[a] = lun[b] => a = b

\* lubusy is set for a lun exactly while a command is established on it: never
\* early, never left behind by the sense path.
BusyIffEstablished == lubusy = {lun[a] : a \in Established}

\* every established nexus keeps its lun busy (what spc_sched relies on)
EstablishedIsBusy == {lun[a] : a \in Established} \subseteq lubusy

\* A timeout is armed only for a command the driver still has: every completion,
\* also those of spc_init, deletes it before the block is reused.
TimerOnlyWhilePending == \A a \in timer : own[a] = "drv"

\* A lun that holds a disconnected command has it on nexus_list, so that its
\* reselection does not end in "no nexus; sending ABORT".
ReselectionIsExpected == \A l \in disc : \E a \in ToSet(nexusq) : lun[a] = l

\* A command that can time out while it is queued is on the list that
\* spc_dequeue picks by ACB_NEXUS.
FlagNamesQueue ==
    \A a \in timer \ {nexus} :
        IF "NEXUS" \in flags[a] THEN a \in ToSet(nexusq) ELSE a \in ToSet(ready)

\* The three records of where commands are agree: lubusy and the target's own idea
\* with the lists, and so does ACB_NEXUS.
QueuesAgree == BusyIffEstablished /\ ReselectionIsExpected /\ FlagNamesQueue

\* No accepted command is dropped from the lists, and the current one is where the
\* state says, so that neither spc_sched nor the interrupt handler loses it.
Conserved == NothingLost /\ NexusMatchesState

\* A pending REQUEST SENSE is selected before any other command for its lun, also
\* after a backoff: another command would clear the sense data.
SenseFirst ==
    [][\A a \in Acb : nexus # a /\ nexus' = a /\ state' = "SELECTING" =>
          \A b \in ToSet(ready) \ {a} :
              ~("SENSE" \in flags[b] /\ lun[a] = lun[b])]_vars

\* A command is reported good only after its own status GOOD and COMMAND COMPLETE: not
\* after these of the REQUEST SENSE that has taken its block, and not when it was
\* aborted, dropped or reset.
HonestCompletion ==
    [][\A a \in Acb : own[a] = "drv" /\ own'[a] = "done" /\ error'[a] = "NOERROR" =>
          state = "CMDCOMPLETE" /\ stat[a] = "OK" /\ gotstat /\ a \notin sensing]_vars

\* A command is reported with sense data only when a REQUEST SENSE was sent for it and has
\* run to status and COMMAND COMPLETE: the data is not that of an earlier command.  The
\* code does not keep this for a command that is submitted again in the block it had,
\* as spc_scsi_cmd() leaves ACB_SENSE in acb->flags.
SenseIsFresh ==
    [][\A a \in Acb : own[a] = "drv" /\ own'[a] = "done" /\ error'[a] = "SENSE" =>
          state = "CMDCOMPLETE" /\ gotstat /\ a \in sensing]_vars

\* While incoming message bytes are discarded the target has an answer coming
\* that says so: none is dropped in silence.
DropIsReported ==
    drop /\ prevphase = "MSGIN" => msgpriq \cap {"PARITY_ERROR", "REJECT"} # {}

\* sc_lastmsg, which MESSAGE REJECT and MESSAGE PARITY ERROR refer to, is a
\* message of the burst that a retransmission would repeat.
LastMsgWasSent == lastmsg # NoMsg => lastmsg \in msgoutq

\* What a target is told, and what it may ask for again, is what it expects.
MessagesAnswered == DropIsReported /\ LastMsgWasSent

\* When the target stays in MESSAGE OUT after the whole burst, every message of
\* the burst is sent or scheduled again.
RetransmitsAll ==
    [][prevphase = "MSGOUT" /\ prevphase' = "MSGOUT" /\ omsg = NoMsg =>
          msgoutq \subseteq msgpriq' \cup msgoutq']_vars

\* Every command the driver accepts is completed.
Submitted == \A a \in Acb : own[a] = "drv" ~> own[a] = "done"

-----------------------------------------------------------------------------
(* Statements of the source's comments that the code does not keep *)

\* "Cancel any active commands": after a reset nothing is active.
IdleHasNoNexus == state = "IDLE" => nexus = NoAcb

\* "abort the operation that has timed out": the operation comes to an end.
AbortedCompletes ==
    \A a \in Acb : (own[a] = "drv" /\ "ABORT" \in flags[a]) ~> own[a] # "drv"

\* "abort the operation that has timed out", and not one that has completed.
FiredTimeoutIsLive == fired # NoAcb => own[fired] = "drv"

\* "If we reject the message, we have to assert ATN during the message transfer
\* phase itself."
RejectRaisesAtn ==
    "REJECT" \in msgpriq /\ prevphase = "MSGIN" /\ bus # NoLun => atn
=============================================================================
