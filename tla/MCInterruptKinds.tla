-------------------------- MODULE MCInterruptKinds --------------------------
(***************************************************************************)
(* Device and clock interrupts in one behaviour, interprocessor interrupts *)
(* in another: together they do not keep the bound of NestingBounded.      *)
(***************************************************************************)
EXTENDS InterruptProperties

CONSTANT notify \* CI_IPI_NOTIFY

VARIABLE kind   \* which of the two

Ipi == INSTANCE InterruptProperties WITH Bits <- {notify}, Sources <- {}, Senders <- Cpus

MCInit == \/ kind = "device" /\ Init
          \/ kind = "ipi" /\ Ipi!Init

MCNext == UNCHANGED kind /\ (\/ kind = "device" /\ Next
                             \/ kind = "ipi" /\ Ipi!Next)

Either(device, ipi) == (kind = "device" /\ device) \/ (kind = "ipi" /\ ipi)

\* Fairness of each kind, and no more requests after some time
MCFairness ==
    /\ \A c \in Cpus :
          /\ WF_vars(Either(ExtInt(c), Ipi!ExtInt(c))) /\ WF_vars(kind = "ipi" /\ Ipi!Sender(c))
          /\ WF_vars(Either(KernelLeave(c), Ipi!KernelLeave(c)))
          /\ WF_vars(Either(SetIpl(c, 0), Ipi!SetIpl(c, 0)))
          /\ SF_vars(Either(Take(c), Ipi!Take(c))) /\ SF_vars(Either(AcquireLock(c), Ipi!AcquireLock(c)))
    /\ <>[][IF kind = "device" THEN ~Request ELSE ~Ipi!Request]_vars

MCSpec == MCInit /\ [][MCNext]_<<kind, vars>> /\ MCFairness

MCEveryIpiHandled == Ipi!EveryIpiHandled
=============================================================================
