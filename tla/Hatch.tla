------------------------------- MODULE Hatch -------------------------------
(***************************************************************************)
(* The start of the processors of a multiprocessor LUNA88K: they all enter *)
(* the kernel at __start (src/luna88k/locore.S) and compete for            *)
(* cpu_hatch_mutex; the first one becomes the main processor, keeps the    *)
(* mutex while it initializes the kernel, and then lets the others hatch   *)
(* one at a time, on one small stack (src/luna88k/machdep.c).  They start  *)
(* to run processes when cpu_boot_mutex is released.                       *)
(*                                                                         *)
(* Operators named ...Wrong are faulted forms of the operator after them.  *)
(*                                                                         *)
(* Counters are updated by a load and a store, only the mutex keeps two    *)
(* processors from doing it at the same time.                              *)
(***************************************************************************)
EXTENDS Integers, FiniteSets

CONSTANT Cpus       \* the processors cmmu_init() finds, ncpusfound of them

ASSUME CpusAssumption == IsFiniteSet(Cpus)

VARIABLES
    pc,         \* where each processor is
    hatch,      \* cpu_hatch_mutex is locked
    boot,       \* cpu_boot_mutex is locked
    master_mpu, \* the word the first processor exchanges
    pending,    \* hatch_pending_count
    ncpus,
    reg,        \* the register of a load and store in progress
    failed,     \* processors that got no stack
    alive       \* processors that are CIF_ALIVE

vars == <<pc, hatch, boot, master_mpu, pending, ncpus, reg, failed, alive>>

MainPc == {"main", "setup", "release", "wait", "boot", "running"}
SlavePc == {"premain", "count", "counted", "read", "write", "unlock", "dead",
            "bootwait", "bootunlock", "spl0", "alive"}

Pc == {"start", "elect"} \cup MainPc \cup SlavePc

TypeOK ==
    /\ pc \in [Cpus -> Pc]
    /\ hatch \in BOOLEAN /\ boot \in BOOLEAN /\ master_mpu \in BOOLEAN
    /\ pending \in Nat /\ ncpus \in Nat
    /\ reg \in [Cpus -> Int]
    /\ failed \subseteq Cpus /\ alive \subseteq Cpus

Init ==
    /\ pc = [c \in Cpus |-> "start"]
    /\ hatch = FALSE /\ boot = TRUE /\ master_mpu = FALSE
    /\ pending = 0 /\ ncpus = 1
    /\ reg = [c \in Cpus |-> 0]
    /\ failed = {} /\ alive = {}

Goto(c, from, to) == pc[c] = from /\ pc' = [pc EXCEPT ![c] = to]

locks    == <<hatch, boot, master_mpu>>
counters == <<pending, ncpus, reg>>

(***************************************************************************)
(* main_start: xmem on cpu_hatch_mutex, then on master_mpu.                *)
(***************************************************************************)
LockHatch(c) ==
    /\ Goto(c, "start", "elect")
    /\ ~hatch /\ hatch' = TRUE
    /\ UNCHANGED <<boot, master_mpu, counters, failed, alive>>

Elect(c) ==
    /\ Goto(c, "elect", IF master_mpu THEN "premain" ELSE "main")
    /\ master_mpu' = TRUE
    /\ UNCHANGED <<hatch, boot, counters, failed, alive>>

(***************************************************************************)
(* The main processor: luna88k_bootstrap(), then mainbus_attach() calls    *)
(* cpu_setup_secondary_processors() and main(), when all else is set up,   *)
(* cpu_boot_secondary_processors().                                        *)
(***************************************************************************)
BootstrapWrong(c) ==
    /\ Goto(c, "main", "setup")
    /\ alive' = alive \cup {c}
    /\ hatch' = FALSE
    /\ UNCHANGED <<boot, master_mpu, counters, failed>>

Bootstrap(c) ==
    /\ Goto(c, "main", "setup")
    /\ alive' = alive \cup {c}
    /\ UNCHANGED <<locks, counters, failed>>

\* one processor too few is waited for
SetupWrong(c) ==
    /\ Goto(c, "setup", "release")
    /\ pending' = Cardinality(Cpus) - 2
    /\ UNCHANGED <<locks, ncpus, reg, failed, alive>>

Setup(c) ==
    /\ Goto(c, "setup", "release")
    /\ pending' = Cardinality(Cpus) - 1
    /\ UNCHANGED <<locks, ncpus, reg, failed, alive>>

SetupReleaseWrong(c) ==
    /\ Goto(c, "release", "wait")
    /\ hatch' = FALSE /\ boot' = FALSE
    /\ UNCHANGED <<master_mpu, counters, failed, alive>>

SetupRelease(c) ==
    /\ Goto(c, "release", "wait")
    /\ hatch' = FALSE
    /\ UNCHANGED <<boot, master_mpu, counters, failed, alive>>

SetupWait(c) ==
    /\ Goto(c, "wait", "boot")
    /\ pending = 0
    /\ UNCHANGED <<locks, counters, failed, alive>>

BootOthers(c) ==
    /\ Goto(c, "boot", "running")
    /\ boot' = FALSE
    /\ UNCHANGED <<hatch, master_mpu, counters, failed, alive>>

(***************************************************************************)
(* A secondary processor: secondary_pre_main() and secondary_main().       *)
(***************************************************************************)
PreMain(c) ==
    /\ Goto(c, "premain", "count")
    /\ UNCHANGED <<locks, counters, failed, alive>>

PreMainFailsWrong(c) ==
    /\ Goto(c, "premain", "dead")
    /\ failed' = failed \cup {c}
    /\ UNCHANGED <<locks, counters, alive>>

\* uvm_km_zalloc() fails: the processor is not waited for.
PreMainFails(c) ==
    /\ Goto(c, "premain", "read")
    /\ failed' = failed \cup {c}
    /\ UNCHANGED <<locks, counters, alive>>

LoadNcpus(c) ==
    /\ Goto(c, "count", "counted")
    /\ reg' = [reg EXCEPT ![c] = ncpus]
    /\ UNCHANGED <<locks, pending, ncpus, failed, alive>>

StoreNcpus(c) ==
    /\ Goto(c, "counted", "read")
    /\ ncpus' = reg[c] + 1
    /\ UNCHANGED <<locks, pending, reg, failed, alive>>

LoadPending(c) ==
    /\ Goto(c, "read", "write")
    /\ reg' = [reg EXCEPT ![c] = pending]
    /\ UNCHANGED <<locks, pending, ncpus, failed, alive>>

StorePending(c) ==
    /\ Goto(c, "write", "unlock")
    /\ pending' = reg[c] - 1
    /\ UNCHANGED <<locks, ncpus, reg, failed, alive>>

\* A processor without a stack spins for ever where it is.
UnlockHatch(c) ==
    /\ Goto(c, "unlock", IF c \in failed THEN "dead" ELSE "bootwait")
    /\ hatch' = FALSE
    /\ UNCHANGED <<boot, master_mpu, counters, failed, alive>>

LockBoot(c) ==
    /\ Goto(c, "bootwait", "bootunlock")
    /\ ~boot /\ boot' = TRUE
    /\ UNCHANGED <<hatch, master_mpu, counters, failed, alive>>

UnlockBoot(c) ==
    /\ Goto(c, "bootunlock", "spl0")
    /\ boot' = FALSE
    /\ UNCHANGED <<hatch, master_mpu, counters, failed, alive>>

\* spl0(), SCHED_LOCK(), CIF_ALIVE, and off to the first process.
BecomeAlive(c) ==
    /\ Goto(c, "spl0", "alive")
    /\ alive' = alive \cup {c}
    /\ UNCHANGED <<locks, counters, failed>>

Secondary(c) ==
    \/ PreMain(c) \/ PreMainFails(c) \/ LoadNcpus(c) \/ StoreNcpus(c)
    \/ LoadPending(c) \/ StorePending(c) \/ UnlockHatch(c)
    \/ UnlockBoot(c) \/ BecomeAlive(c)

Main(c) ==
    Bootstrap(c) \/ Setup(c) \/ SetupRelease(c) \/ SetupWait(c) \/ BootOthers(c)

Start(c) == LockHatch(c) \/ Elect(c)

Next == \E c \in Cpus : Start(c) \/ Main(c) \/ Secondary(c) \/ LockBoot(c)

Spec == Init /\ [][Next]_vars

\* Processors run; the two locks do not starve a processor for ever.
Fairness == \A c \in Cpus : /\ WF_vars(Main(c)) /\ WF_vars(Secondary(c)) /\ WF_vars(Elect(c))
                            /\ SF_vars(LockHatch(c)) /\ SF_vars(LockBoot(c))

FairSpec == Spec /\ Fairness

-----------------------------------------------------------------------------
(***************************************************************************)
(* The processors that own the hatch mutex, by where they are.             *)
(***************************************************************************)
HatchPc == {"elect", "main", "setup", "release", "premain", "count", "counted", "read",
            "write", "unlock"}

Hatching == {c \in Cpus : pc[c] \in HatchPc}

(***************************************************************************)
(* One processor at a time initializes: the kernel is set up before any    *)
(* secondary processor gets past the mutex, and two secondaries never run  *)
(* on the slave stack or update the counters at the same time.             *)
(***************************************************************************)
HatchExclusive == \A c, d \in Hatching : c = d

(***************************************************************************)
(* There is one main processor.                                            *)
(***************************************************************************)
OneMain == \A c, d \in Cpus : pc[c] \in MainPc /\ pc[d] \in MainPc => c = d

(***************************************************************************)
(* No secondary processor takes interrupts or processes before the main    *)
(* one has finished waiting and released cpu_boot_mutex.                   *)
(***************************************************************************)
NoEarlyStart ==
    \A c \in Cpus : pc[c] \in {"bootunlock", "spl0", "alive"} =>
        \E m \in Cpus : pc[m] = "running"

(***************************************************************************)
(* When the main processor stops waiting every other one has either        *)
(* hatched or given up, and ncpus is the number of those that will run.    *)
(***************************************************************************)
AllHatched ==
    (\E m \in Cpus : pc[m] \in {"boot", "running"}) =>
        /\ \A c \in Cpus : pc[c] \in MainPc \cup {"unlock", "dead", "bootwait", "bootunlock",
                                                 "spl0", "alive"}
        /\ ncpus = Cardinality(Cpus \ failed)

(***************************************************************************)
(* "While holding the cpu_hatch_mutex, the secondary cpu can use the       *)
(* slavestack [...] After that, however, it should allocate its own stack  *)
(* and switch to it" (locore.S:301): who is on the slave stack, which      *)
(* secondary_main() no longer is, owns the mutex.                          *)
(***************************************************************************)
OnSlaveStack ==
    {c \in Cpus : \/ pc[c] = "premain"
                  \/ c \in failed /\ pc[c] \in {"read", "write", "unlock", "dead"}}

SlaveStackOwned == OnSlaveStack \subseteq Hatching

(***************************************************************************)
(* Every processor ends up running processes, unless it got no stack.      *)
(***************************************************************************)
AllStart == \A c \in Cpus : <>[](c \in alive \/ c \in failed)
=============================================================================
