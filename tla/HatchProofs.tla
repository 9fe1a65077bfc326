---------------------------- MODULE HatchProofs ----------------------------
(***************************************************************************)
(* The start protocol for any number of processors: one initializes at a   *)
(* time, one is the main one, and none runs processes before it is told    *)
(* to.  The counters are right when the main one stops waiting.            *)
(***************************************************************************)
EXTENDS Hatch, FiniteSetTheorems, TLAPS

Late == {"bootunlock", "spl0", "alive"}

(***************************************************************************)
(* The mutex is locked while a processor is where only its owner is, and   *)
(* there is one such processor.                                            *)
(***************************************************************************)
MutexInv ==
    /\ HatchExclusive
    /\ \A c \in Hatching : hatch = TRUE

(***************************************************************************)
(* master_mpu is set once there is a main processor.                       *)
(***************************************************************************)
MainInv ==
    /\ OneMain
    /\ \A c \in Cpus : pc[c] \in MainPc => master_mpu = TRUE

(***************************************************************************)
(* cpu_boot_mutex is released, by the main processor or by a secondary one *)
(* that owned it, only once the main processor runs.                       *)
(***************************************************************************)
BootInv ==
    \A c \in Cpus : pc[c] \in Late \/ boot = FALSE => \E m \in Cpus : pc[m] = "running"

IInv == pc \in [Cpus -> Pc] /\ MutexInv /\ MainInv /\ BootInv

LEMMA InitInv == Init => IInv
  BY DEF Init, IInv, MutexInv, MainInv, BootInv, HatchExclusive, OneMain, Hatching, HatchPc,
         MainPc, Late, Pc

(***************************************************************************)
(* A step that moves one processor and leaves the mutex alone: it stays    *)
(* inside, or outside, of the part that the mutex protects.                *)
(***************************************************************************)
LEMMA StaysPut ==
    ASSUME NEW c \in Cpus, NEW from \in Pc, NEW to \in Pc, pc \in [Cpus -> Pc],
           Goto(c, from, to), from \in HatchPc <=> to \in HatchPc
    PROVE  Hatching' = Hatching
  BY DEF Goto, Hatching

LEMMA MutexStep == ASSUME IInv, Next PROVE MutexInv'
<1>1. PICK c \in Cpus : Start(c) \/ Main(c) \/ Secondary(c) \/ LockBoot(c)
  BY DEF Next
<1>2. CASE LockHatch(c)
  <2>1. Hatching = {} /\ hatch' = TRUE
    BY <1>2 DEF LockHatch, IInv, MutexInv
  <2>2. Hatching' \subseteq {c}
    BY <1>2, <2>1 DEF LockHatch, Goto, Hatching, IInv
  <2> QED BY <2>1, <2>2 DEF MutexInv, HatchExclusive
<1>3. CASE SetupRelease(c) \/ UnlockHatch(c)
  <2>1. c \in Hatching
    BY <1>3 DEF SetupRelease, UnlockHatch, Goto, Hatching, HatchPc
  <2>2. Hatching' \subseteq Hatching \ {c}
    BY <1>3 DEF SetupRelease, UnlockHatch, Goto, Hatching, HatchPc, IInv
  <2>3. Hatching' = {}
    BY <2>1, <2>2 DEF IInv, MutexInv, HatchExclusive
  <2> QED BY <2>3 DEF MutexInv, HatchExclusive
<1>4. CASE \/ Elect(c) \/ Bootstrap(c) \/ Setup(c) \/ SetupWait(c) \/ BootOthers(c)
           \/ PreMain(c) \/ PreMainFails(c) \/ LoadNcpus(c) \/ StoreNcpus(c) \/ LoadPending(c)
           \/ StorePending(c) \/ LockBoot(c) \/ UnlockBoot(c) \/ BecomeAlive(c)
  <2>1. hatch' = hatch
    BY <1>4 DEF Elect, Bootstrap, Setup, SetupWait, BootOthers, PreMain, PreMainFails, LoadNcpus,
                StoreNcpus, LoadPending, StorePending, LockBoot, UnlockBoot, BecomeAlive, locks
  <2>2. \E from, to \in Pc : Goto(c, from, to) /\ (from \in HatchPc <=> to \in HatchPc)
    <3>1. CASE Elect(c)
      <4>1. \E to \in {"premain", "main"} : Goto(c, "elect", to)
        BY <3>1 DEF Elect
      <4> QED BY <4>1 DEF HatchPc, Pc, MainPc, SlavePc
    <3>2. CASE Bootstrap(c)      BY <3>2 DEF Bootstrap, HatchPc, Pc, MainPc, SlavePc
    <3>3. CASE Setup(c)          BY <3>3 DEF Setup, HatchPc, Pc, MainPc, SlavePc
    <3>4. CASE SetupWait(c)      BY <3>4 DEF SetupWait, HatchPc, Pc, MainPc, SlavePc
    <3>5. CASE BootOthers(c)     BY <3>5 DEF BootOthers, HatchPc, Pc, MainPc, SlavePc
    <3>6. CASE PreMain(c)        BY <3>6 DEF PreMain, HatchPc, Pc, MainPc, SlavePc
    <3>7. CASE PreMainFails(c)   BY <3>7 DEF PreMainFails, HatchPc, Pc, MainPc, SlavePc
    <3>8. CASE LoadNcpus(c)      BY <3>8 DEF LoadNcpus, HatchPc, Pc, MainPc, SlavePc
    <3>9. CASE StoreNcpus(c)     BY <3>9 DEF StoreNcpus, HatchPc, Pc, MainPc, SlavePc
    <3>10. CASE LoadPending(c)   BY <3>10 DEF LoadPending, HatchPc, Pc, MainPc, SlavePc
    <3>11. CASE StorePending(c)  BY <3>11 DEF StorePending, HatchPc, Pc, MainPc, SlavePc
    <3>12. CASE LockBoot(c)      BY <3>12 DEF LockBoot, HatchPc, Pc, MainPc, SlavePc
    <3>13. CASE UnlockBoot(c)    BY <3>13 DEF UnlockBoot, HatchPc, Pc, MainPc, SlavePc
    <3>14. CASE BecomeAlive(c)   BY <3>14 DEF BecomeAlive, HatchPc, Pc, MainPc, SlavePc
    <3> QED BY <1>4, <3>1, <3>2, <3>3, <3>4, <3>5, <3>6, <3>7, <3>8, <3>9, <3>10, <3>11, <3>12,
               <3>13, <3>14
  <2>3. Hatching' = Hatching
    BY <2>2, StaysPut DEF IInv
  <2> QED BY <2>1, <2>3 DEF IInv, MutexInv, HatchExclusive
<1> QED BY <1>1, <1>2, <1>3, <1>4 DEF Start, Main, Secondary

(***************************************************************************)
(* Every step moves one processor along the program.                       *)
(***************************************************************************)
LEMMA PcStep == ASSUME pc \in [Cpus -> Pc], Next PROVE pc' \in [Cpus -> Pc]
<1>1. PICK c \in Cpus : Start(c) \/ Main(c) \/ Secondary(c) \/ LockBoot(c)
  BY DEF Next
<1>2. CASE Start(c)
  <2>1. CASE LockHatch(c) BY <2>1 DEF LockHatch, Goto, Pc
  <2>2. CASE Elect(c)
    <3>1. \E to \in {"premain", "main"} : Goto(c, "elect", to)
      BY <2>2 DEF Elect
    <3> QED BY <3>1 DEF Goto, Pc, MainPc, SlavePc
  <2> QED BY <1>2, <2>1, <2>2 DEF Start
<1>3. CASE Main(c)
  BY <1>3 DEF Main, Bootstrap, Setup, SetupRelease, SetupWait, BootOthers, Goto, Pc, MainPc
<1>4. CASE Secondary(c) \/ LockBoot(c)
  <2>1. CASE UnlockHatch(c)
    <3>1. \E to \in {"dead", "bootwait"} : Goto(c, "unlock", to)
      BY <2>1 DEF UnlockHatch
    <3> QED BY <3>1 DEF Goto, Pc, SlavePc
  <2>2. CASE PreMain(c) \/ PreMainFails(c) \/ LoadNcpus(c) \/ StoreNcpus(c)
    BY <2>2 DEF PreMain, PreMainFails, LoadNcpus, StoreNcpus, Goto, Pc, SlavePc
  <2>3. CASE LoadPending(c) \/ StorePending(c) \/ UnlockBoot(c) \/ BecomeAlive(c) \/ LockBoot(c)
    BY <2>3 DEF LoadPending, StorePending, UnlockBoot, BecomeAlive, LockBoot, Goto, Pc, SlavePc
  <2> QED BY <1>4, <2>1, <2>2, <2>3 DEF Secondary
<1> QED BY <1>1, <1>2, <1>3, <1>4

(***************************************************************************)
(* A processor becomes the main one only in Elect, and only if master_mpu  *)
(* was clear, that is, if there was none.                                  *)
(***************************************************************************)
LEMMA MainStep == ASSUME IInv, Next PROVE MainInv'
<1>1. PICK c \in Cpus : Start(c) \/ Main(c) \/ Secondary(c) \/ LockBoot(c)
  BY DEF Next
<1> USE DEF IInv, MainInv, OneMain
<1>2. CASE Elect(c)
  <2>1. master_mpu' = TRUE
    BY <1>2 DEF Elect
  <2>2. CASE master_mpu
    <3>1. Goto(c, "elect", "premain")
      BY <1>2, <2>2 DEF Elect
    <3>2. \A d \in Cpus : pc'[d] \in MainPc => pc[d] \in MainPc
      BY <3>1 DEF Goto, MainPc
    <3> QED BY <2>1, <3>2
  <2>3. CASE ~master_mpu
    <3>1. \A d \in Cpus : pc[d] \notin MainPc
      BY <2>3
    <3>2. \A d \in Cpus : pc'[d] \in MainPc => d = c
      BY <1>2, <3>1 DEF Elect, Goto
    <3> QED BY <2>1, <3>2
  <2> QED BY <2>2, <2>3
<1>3. CASE LockHatch(c) \/ Secondary(c) \/ LockBoot(c)
  <2>1. master_mpu' = master_mpu
    BY <1>3 DEF LockHatch, Secondary, LockBoot, PreMain, PreMainFails, LoadNcpus, StoreNcpus,
                LoadPending, StorePending, UnlockHatch, UnlockBoot, BecomeAlive, locks
  <2>2. \A d \in Cpus : pc'[d] \in MainPc => pc[d] \in MainPc
    BY <1>3 DEF LockHatch, Secondary, LockBoot, PreMain, PreMainFails, LoadNcpus, StoreNcpus,
                LoadPending, StorePending, UnlockHatch, UnlockBoot, BecomeAlive, Goto, MainPc
  <2> QED BY <2>1, <2>2
<1>4. CASE Main(c)
  <2>1. master_mpu' = master_mpu
    BY <1>4 DEF Main, Bootstrap, Setup, SetupRelease, SetupWait, BootOthers, locks
  <2>2. \A d \in Cpus : pc'[d] \in MainPc => pc[d] \in MainPc
    BY <1>4 DEF Main, Bootstrap, Setup, SetupRelease, SetupWait, BootOthers, Goto, MainPc
  <2> QED BY <2>1, <2>2
<1> QED BY <1>1, <1>2, <1>3, <1>4 DEF Start

(***************************************************************************)
(* The main processor never leaves "running", and only it and those that   *)
(* have been let through touch cpu_boot_mutex.                             *)
(***************************************************************************)
LEMMA BootStep == ASSUME IInv, Next PROVE BootInv'
<1>1. PICK c \in Cpus : Start(c) \/ Main(c) \/ Secondary(c) \/ LockBoot(c)
  BY DEF Next
<1> USE DEF IInv, BootInv
<1>2. \A m \in Cpus : pc[m] = "running" => pc'[m] = "running"
  BY <1>1 DEF Start, LockHatch, Elect, Main, Bootstrap, Setup, SetupRelease, SetupWait, BootOthers,
              Secondary, LockBoot, PreMain, PreMainFails, LoadNcpus, StoreNcpus, LoadPending,
              StorePending, UnlockHatch, UnlockBoot, BecomeAlive, Goto
<1>3. CASE BootOthers(c)
  BY <1>3 DEF BootOthers, Goto
<1>4. CASE LockBoot(c) \/ UnlockBoot(c) \/ BecomeAlive(c)
  <2>1. \E m \in Cpus : pc[m] = "running"
    BY <1>4 DEF LockBoot, UnlockBoot, BecomeAlive, Goto, Late
  <2> QED BY <1>2, <2>1
<1>5. CASE \/ Start(c) \/ Bootstrap(c) \/ Setup(c) \/ SetupRelease(c) \/ SetupWait(c)
           \/ PreMain(c) \/ PreMainFails(c) \/ LoadNcpus(c) \/ StoreNcpus(c)
           \/ LoadPending(c) \/ StorePending(c) \/ UnlockHatch(c)
  <2>1. boot' = boot
    BY <1>5 DEF Start, LockHatch, Elect, Bootstrap, Setup, SetupRelease, SetupWait, PreMain,
                PreMainFails, LoadNcpus, StoreNcpus, LoadPending, StorePending, UnlockHatch, locks
  <2>2. \A d \in Cpus : pc'[d] \in Late => pc[d] \in Late
    BY <1>5 DEF Start, LockHatch, Elect, Bootstrap, Setup, SetupRelease, SetupWait, PreMain,
                PreMainFails, LoadNcpus, StoreNcpus, LoadPending, StorePending, UnlockHatch, Goto,
                Late
  <2> QED BY <1>2, <2>1, <2>2
<1> QED BY <1>1, <1>3, <1>4, <1>5 DEF Main, Secondary

(***************************************************************************)
(* The three parts are invariant together.                                 *)
(***************************************************************************)
THEOREM Invariance == Spec => []IInv
<1>1. Init => IInv
  BY InitInv
<1>2. IInv /\ [Next]_vars => IInv'
  <2> SUFFICES ASSUME IInv, [Next]_vars PROVE IInv'
    OBVIOUS
  <2>1. CASE Next
    BY <2>1, PcStep, MutexStep, MainStep, BootStep DEF IInv
  <2>2. CASE UNCHANGED vars
    BY <2>2 DEF vars, IInv, MutexInv, MainInv, BootInv, HatchExclusive, OneMain, Hatching
  <2> QED BY <2>1, <2>2
<1> QED BY <1>1, <1>2, PTL DEF Spec

(***************************************************************************)
(* At most one processor is between the acquisition and the release of     *)
(* cpu_hatch_mutex: the kernel is initialized before any other processor   *)
(* gets in, and the slave stack and the counters have one user.            *)
(***************************************************************************)
THEOREM InitializationIsExclusive == Spec => []HatchExclusive
<1>1. IInv => HatchExclusive
  BY DEF IInv, MutexInv
<1> QED BY <1>1, Invariance, PTL

(***************************************************************************)
(* The exchange on master_mpu elects one main processor.                   *)
(***************************************************************************)
THEOREM ElectionIsUnique == Spec => []OneMain
<1>1. IInv => OneMain
  BY DEF IInv, MainInv
<1> QED BY <1>1, Invariance, PTL

(***************************************************************************)
(* No secondary processor gets past cpu_boot_mutex before the main one has *)
(* seen all of them hatch.                                                 *)
(***************************************************************************)
THEOREM SecondariesWait == Spec => []NoEarlyStart
<1>1. IInv => NoEarlyStart
  BY DEF IInv, BootInv, NoEarlyStart, Late
<1> QED BY <1>1, Invariance, PTL

-----------------------------------------------------------------------------
(* The counters                                                            *)

Done    == {"unlock", "dead", "bootwait", "bootunlock", "spl0", "alive"}
Past    == {"wait", "boot", "running"}
Hatched == {c \in Cpus : pc[c] \in Done}
Stacked == {c \in Cpus : pc[c] \in {"read", "write"} \cup Done /\ c \notin failed}

(***************************************************************************)
(* pending is the number of processors that have not hatched yet, from     *)
(* when the main one sets it, and ncpus one more than those that got a     *)
(* stack.  What is in a register is still in memory when it is stored,     *)
(* because its processor owns the mutex.                                   *)
(***************************************************************************)
CountInv ==
    /\ reg \in [Cpus -> Int] /\ failed \in SUBSET Cpus
    /\ \A c \in failed : pc[c] \in {"read", "write"} \cup Done
    /\ master_mpu = TRUE => \E m \in Cpus : pc[m] \in MainPc
    /\ \A c \in Cpus : pc[c] \in SlavePc => \E m \in Cpus : pc[m] \in Past
    /\ \A c \in Cpus : (pc[c] = "counted" => reg[c] = ncpus) /\ (pc[c] = "write" => reg[c] = pending)
    /\ ncpus = 1 + Cardinality(Stacked)
    /\ IF \E m \in Cpus : pc[m] \in {"release"} \cup Past
       THEN pending = Cardinality(Cpus) - 1 - Cardinality(Hatched) ELSE pending = 0
    /\ \A m \in Cpus : pc[m] \in {"boot", "running"} => Hatched = Cpus \ {m}

HatchInv == IInv /\ CountInv /\ hatch \in BOOLEAN /\ boot \in BOOLEAN /\ master_mpu \in BOOLEAN /\ alive \subseteq Cpus

LEMMA CountInit == Init => CountInv
<1> SUFFICES ASSUME Init PROVE CountInv
  OBVIOUS
<1>1. Stacked = {}
  BY DEF Init, Stacked, Done
<1> QED BY <1>1, FS_EmptySet DEF Init, CountInv, Done, Past, MainPc, SlavePc

LEMMA OneMoves ==
    ASSUME IInv, NEW c \in Cpus, Start(c) \/ Main(c) \/ Secondary(c) \/ LockBoot(c)
    PROVE  /\ \A d \in Cpus : d # c => pc'[d] = pc[d]
           /\ \A m \in Cpus : pc[m] \in MainPc => pc'[m] \in MainPc
           /\ \A m \in Cpus : pc[m] \in Past => pc'[m] \in Past
           /\ \A m \in Cpus : pc[m] \in Done => pc'[m] \in Done
  BY DEF IInv, Start, LockHatch, Elect, Main, Bootstrap, Setup, SetupRelease, SetupWait, BootOthers,
         Secondary, LockBoot, PreMain, PreMainFails, LoadNcpus, StoreNcpus, LoadPending,
         StorePending, UnlockHatch, UnlockBoot, BecomeAlive, Goto, MainPc, Past, Done

\* the words in memory and who changes them
LEMMA Writes ==
    ASSUME IInv, NEW c \in Cpus, Start(c) \/ Main(c) \/ Secondary(c) \/ LockBoot(c)
    PROVE  /\ ~StoreNcpus(c) => ncpus' = ncpus
           /\ ~Setup(c) /\ ~StorePending(c) => pending' = pending
           /\ ~LoadNcpus(c) /\ ~LoadPending(c) => reg' = reg
           /\ ~PreMainFails(c) => failed' = failed
           /\ ~Elect(c) => master_mpu' = master_mpu
  BY DEF Start, LockHatch, Elect, Main, Bootstrap, Setup, SetupRelease, SetupWait, BootOthers,
         Secondary, LockBoot, PreMain, PreMainFails, LoadNcpus, StoreNcpus, LoadPending,
         StorePending, UnlockHatch, UnlockBoot, BecomeAlive, locks, counters

LEMMA MasterStep ==
    ASSUME IInv, CountInv, Next
    PROVE  master_mpu' = TRUE => \E m \in Cpus : pc'[m] \in MainPc
<1>1. PICK c \in Cpus : Start(c) \/ Main(c) \/ Secondary(c) \/ LockBoot(c)
  BY DEF Next
<1>2. \A m \in Cpus : pc[m] \in MainPc => pc'[m] \in MainPc
  BY <1>1, OneMoves
<1>3. CASE master_mpu = TRUE
  BY <1>2, <1>3 DEF CountInv
<1>4. CASE master_mpu # TRUE /\ Elect(c)
  <2>1. CASE master_mpu
    <3>1. \E m \in Cpus : pc[m] \in MainPc \/ pc'[m] \in MainPc
      BY <1>4, <2>1 DEF Elect, Goto, IInv, MainPc
    <3> QED BY <1>4, <2>1
  <2>2. CASE ~master_mpu
    <3>1. pc'[c] = "main"
      BY <1>4, <2>2 DEF Elect, Goto, IInv
    <3> QED BY <3>1 DEF MainPc
  <2> QED BY <2>1, <2>2
<1>5. CASE master_mpu # TRUE /\ ~Elect(c)
  BY <1>1, <1>5, Writes
<1> QED BY <1>3, <1>4, <1>5

\* a processor finds master_mpu set only when the main one has let go of the mutex
LEMMA SlaveStep ==
    ASSUME IInv, CountInv, master_mpu \in BOOLEAN, Next
    PROVE  \A d \in Cpus : pc'[d] \in SlavePc => \E m \in Cpus : pc'[m] \in Past
<1>1. PICK c \in Cpus : Start(c) \/ Main(c) \/ Secondary(c) \/ LockBoot(c)
  BY DEF Next
<1>2. (\E m \in Cpus : pc[m] \in Past) => \E m \in Cpus : pc'[m] \in Past
  BY <1>1, OneMoves
<1>3. SUFFICES ASSUME NEW d \in Cpus, pc'[d] \in SlavePc PROVE \E m \in Cpus : pc[m] \in Past
  BY <1>2
<1>4. CASE pc[d] \in SlavePc
  BY <1>4 DEF CountInv
<1>5. CASE pc[d] \notin SlavePc
  <2>1. d = c
    BY <1>1, <1>3, <1>5, OneMoves
  <2>2. Elect(c) /\ pc'[c] = "premain"
    BY <1>1, <1>3, <1>5, <2>1
       DEF IInv, Start, LockHatch, Elect, Main, Bootstrap, Setup, SetupRelease, SetupWait, BootOthers,
           Secondary, LockBoot, PreMain, PreMainFails, LoadNcpus, StoreNcpus, LoadPending,
           StorePending, UnlockHatch, UnlockBoot, BecomeAlive, Goto, SlavePc
  <2>3. pc[c] = "elect" /\ master_mpu = TRUE
    <3>1. ~master_mpu => pc'[c] = "main"
      BY <2>2 DEF Elect, Goto, IInv
    <3> QED BY <2>2, <3>1 DEF Elect, Goto
  <2>4. PICK m \in Cpus : pc[m] \in MainPc
    BY <2>3 DEF CountInv
  <2>5. pc[m] \notin HatchPc
    <3>1. m # c
      BY <2>3, <2>4 DEF MainPc
    <3>2. c \in Hatching
      BY <2>3 DEF Hatching, HatchPc
    <3> QED BY <3>1, <3>2 DEF IInv, MutexInv, HatchExclusive, Hatching
  <2> QED BY <2>4, <2>5 DEF MainPc, HatchPc, Past
<1> QED BY <1>4, <1>5

LEMMA RegisterStep ==
    ASSUME IInv, CountInv, Next, ncpus \in Int, pending \in Int
    PROVE  /\ reg' \in [Cpus -> Int]
           /\ \A d \in Cpus : (pc'[d] = "counted" => reg'[d] = ncpus') /\ (pc'[d] = "write" => reg'[d] = pending')
<1>1. PICK c \in Cpus : Start(c) \/ Main(c) \/ Secondary(c) \/ LockBoot(c)
  BY DEF Next
<1>2. reg \in [Cpus -> Int] /\ pc \in [Cpus -> Pc]
  BY DEF CountInv, IInv
<1>3. reg' \in [Cpus -> Int] /\ \A d \in Cpus : d # c => reg'[d] = reg[d]
  <2>1. CASE LoadNcpus(c) \/ LoadPending(c)
    BY <1>2, <2>1 DEF LoadNcpus, LoadPending
  <2>2. CASE ~LoadNcpus(c) /\ ~LoadPending(c)
    BY <1>1, <1>2, <2>2, Writes
  <2> QED BY <2>1, <2>2
<1>4. /\ pc'[c] = "counted" => LoadNcpus(c)
      /\ pc'[c] = "write" => LoadPending(c)
  BY <1>1 DEF IInv, Start, LockHatch, Elect, Main, Bootstrap, Setup, SetupRelease, SetupWait, BootOthers,
         Secondary, LockBoot, PreMain, PreMainFails, LoadNcpus, StoreNcpus, LoadPending,
         StorePending, UnlockHatch, UnlockBoot, BecomeAlive, Goto
<1>5. /\ LoadNcpus(c) => reg'[c] = ncpus /\ ncpus' = ncpus
      /\ LoadPending(c) => reg'[c] = pending /\ pending' = pending
  BY <1>2 DEF LoadNcpus, LoadPending
<1>6. ASSUME NEW d \in Cpus, d # c, pc[d] \in {"counted", "write"} PROVE ncpus' = ncpus /\ pending' = pending
  <2>1. c \notin Hatching
    <3>1. d \in Hatching
      BY <1>6 DEF Hatching, HatchPc
    <3> QED BY <1>6, <3>1 DEF IInv, MutexInv, HatchExclusive
  <2>2. ~StoreNcpus(c) /\ ~Setup(c) /\ ~StorePending(c)
    BY <2>1 DEF StoreNcpus, Setup, StorePending, Goto, Hatching, HatchPc
  <2> QED BY <1>1, <2>2, Writes
<1>7. ASSUME NEW d \in Cpus
      PROVE  (pc'[d] = "counted" => reg'[d] = ncpus') /\ (pc'[d] = "write" => reg'[d] = pending')
  <2>1. CASE d = c
    BY <1>4, <1>5, <2>1
  <2>2. CASE d # c
    <3>1. pc'[d] = pc[d] /\ reg'[d] = reg[d]
      BY <1>1, <1>3, <2>2, OneMoves
    <3> QED BY <1>6, <2>2, <3>1 DEF CountInv
  <2> QED BY <2>1, <2>2
<1> QED BY <1>3, <1>7

LEMMA FailedStep ==
    ASSUME IInv, CountInv, Next
    PROVE  failed' \in SUBSET Cpus /\ \A d \in failed' : pc'[d] \in {"read", "write"} \cup Done
<1>1. PICK c \in Cpus : Start(c) \/ Main(c) \/ Secondary(c) \/ LockBoot(c)
  BY DEF Next
<1>2. CASE PreMainFails(c)
  BY <1>2 DEF PreMainFails, Goto, CountInv, IInv, Done
<1>3. CASE ~PreMainFails(c)
  <2>1. failed' = failed
    BY <1>1, <1>3, Writes
  <2>2. pc[c] \in {"read", "write"} \cup Done => pc'[c] \in {"read", "write"} \cup Done
    BY <1>1 DEF IInv, Start, LockHatch, Elect, Main, Bootstrap, Setup, SetupRelease, SetupWait, BootOthers,
         Secondary, LockBoot, PreMain, PreMainFails, LoadNcpus, StoreNcpus, LoadPending,
         StorePending, UnlockHatch, UnlockBoot, BecomeAlive, Goto, Done
  <2> QED BY <1>1, <2>1, <2>2, OneMoves DEF CountInv
<1> QED BY <1>2, <1>3

\* where the sets grow
LEMMA SetsGrow ==
    ASSUME IInv, CountInv, NEW c \in Cpus, Start(c) \/ Main(c) \/ Secondary(c) \/ LockBoot(c)
    PROVE  /\ ~StorePending(c) => Hatched' = Hatched
           /\ StorePending(c) => c \notin Hatched /\ Hatched' = Hatched \cup {c}
           /\ ~StoreNcpus(c) => Stacked' = Stacked
           /\ StoreNcpus(c) => c \notin Stacked /\ Stacked' = Stacked \cup {c}
<1>1. \A d \in Cpus : d # c => pc'[d] = pc[d]
  BY OneMoves
<1>2. ~StorePending(c) => (pc'[c] \in Done <=> pc[c] \in Done)
  BY DEF IInv, Start, LockHatch, Elect, Main, Bootstrap, Setup, SetupRelease, SetupWait, BootOthers,
         Secondary, LockBoot, PreMain, PreMainFails, LoadNcpus, StoreNcpus, LoadPending,
         StorePending, UnlockHatch, UnlockBoot, BecomeAlive, Goto, Done
<1>3. StorePending(c) => pc'[c] \in Done /\ pc[c] \notin Done
  BY DEF StorePending, Goto, IInv, Done
<1>4. ~StorePending(c) => Hatched' = Hatched
  BY <1>1, <1>2 DEF Hatched
<1>5. StorePending(c) => c \notin Hatched /\ Hatched' = Hatched \cup {c}
  BY <1>1, <1>3 DEF Hatched
<1>6. CASE PreMainFails(c)
  <2>1. failed' = failed \cup {c} /\ pc[c] = "premain" /\ ~StoreNcpus(c)
    BY <1>6 DEF PreMainFails, StoreNcpus, Goto
  <2>2. Stacked' = Stacked
    BY <1>1, <2>1 DEF Stacked, Done
  <2> QED BY <1>4, <1>5, <2>1, <2>2
<1>7. CASE ~PreMainFails(c)
  <2>1. failed' = failed
    BY <1>7, Writes
  <2>2. ~StoreNcpus(c) => (pc'[c] \in {"read", "write"} \cup Done <=> pc[c] \in {"read", "write"} \cup Done)
    BY <1>7 DEF IInv, Start, LockHatch, Elect, Main, Bootstrap, Setup, SetupRelease, SetupWait, BootOthers,
         Secondary, LockBoot, PreMain, PreMainFails, LoadNcpus, StoreNcpus, LoadPending,
         StorePending, UnlockHatch, UnlockBoot, BecomeAlive, Goto, Done
  <2>3. StoreNcpus(c) => pc[c] \notin {"read", "write"} \cup Done /\ pc'[c] = "read" /\ c \notin failed
    BY DEF StoreNcpus, Goto, IInv, CountInv, Done
  <2>4. ~StoreNcpus(c) => Stacked' = Stacked
    BY <1>1, <2>1, <2>2 DEF Stacked
  <2>5. StoreNcpus(c) => c \notin Stacked /\ Stacked' = Stacked \cup {c}
    BY <1>1, <2>1, <2>3 DEF Stacked
  <2> QED BY <1>4, <1>5, <2>4, <2>5
<1> QED BY <1>6, <1>7

LEMMA SetsFinite ==
    /\ IsFiniteSet(Cpus) /\ Cardinality(Cpus) \in Nat
    /\ IsFiniteSet(Hatched) /\ Cardinality(Hatched) \in Nat /\ IsFiniteSet(Stacked) /\ Cardinality(Stacked) \in Nat
<1>1. IsFiniteSet(Cpus)
  BY CpusAssumption
<1>2. Hatched \in SUBSET Cpus /\ Stacked \in SUBSET Cpus
  BY DEF Hatched, Stacked
<1>3. IsFiniteSet(Hatched) /\ IsFiniteSet(Stacked)
  BY <1>1, <1>2, FS_Subset
<1> QED BY <1>1, <1>3, FS_CardinalityType

LEMMA NcpusStep ==
    ASSUME IInv, CountInv, Next
    PROVE  ncpus' = 1 + Cardinality(Stacked')
<1>1. PICK c \in Cpus : Start(c) \/ Main(c) \/ Secondary(c) \/ LockBoot(c)
  BY DEF Next
<1>2. ncpus = 1 + Cardinality(Stacked) /\ Cardinality(Stacked) \in Nat /\ IsFiniteSet(Stacked)
  BY SetsFinite DEF CountInv
<1>3. CASE StoreNcpus(c)
  <2>1. ncpus' = ncpus + 1
    BY <1>3 DEF StoreNcpus, Goto, CountInv
  <2>2. c \notin Stacked /\ Stacked' = Stacked \cup {c}
    BY <1>1, <1>3, SetsGrow
  <2>3. Cardinality(Stacked \cup {c}) = Cardinality(Stacked) + 1
    BY <1>2, <2>2, FS_AddElement
  <2> QED BY <1>2, <2>1, <2>2, <2>3
<1>4. CASE ~StoreNcpus(c)
  <2>1. ncpus' = ncpus /\ Stacked' = Stacked
    BY <1>1, <1>4, SetsGrow, Writes
  <2> QED BY <1>2, <2>1
<1> QED BY <1>3, <1>4

\* who is waited for is counted from the time the main processor sets pending
LEMMA PendingStep ==
    ASSUME IInv, CountInv, Next
    PROVE  IF \E m \in Cpus : pc'[m] \in {"release"} \cup Past
           THEN pending' = Cardinality(Cpus) - 1 - Cardinality(Hatched') ELSE pending' = 0
<1>1. PICK c \in Cpus : Start(c) \/ Main(c) \/ Secondary(c) \/ LockBoot(c)
  BY DEF Next
<1>2. Cardinality(Cpus) \in Nat /\ IsFiniteSet(Hatched) /\ Cardinality(Hatched) \in Nat
  BY SetsFinite
<1>3. CASE Setup(c)
  <2>1. /\ pc[c] = "setup" /\ pc'[c] = "release" /\ pending' = Cardinality(Cpus) - 1
        /\ \A d \in Cpus : pc'[d] = "setup" => pc[d] = "setup"
    BY <1>3 DEF Setup, Goto, IInv
  <2>2. \A m \in Cpus : pc[m] \notin Past
    BY <2>1 DEF IInv, MainInv, OneMain, MainPc, Past
  <2>3. \A d \in Cpus : pc[d] \notin Done
    BY <2>2 DEF CountInv, SlavePc, Done
  <2>4. Hatched' = Hatched
    BY <1>1, <1>3, <2>1, SetsGrow DEF StorePending, Goto
  <2>5. Hatched' = {}
    BY <2>3, <2>4 DEF Hatched
  <2>6. Cardinality(Hatched') = 0
    BY <2>5, FS_EmptySet
  <2> QED BY <1>2, <2>1, <2>6
<1>4. CASE StorePending(c)
  <2>1. pc[c] = "write" /\ pending' = reg[c] - 1
    BY <1>4 DEF StorePending, Goto
  <2>2. PICK m \in Cpus : pc[m] \in Past
    BY <2>1 DEF CountInv, SlavePc
  <2>3. pending = Cardinality(Cpus) - 1 - Cardinality(Hatched) /\ reg[c] = pending
    BY <2>1, <2>2 DEF CountInv
  <2>4. pc'[m] \in Past
    BY <1>1, <2>2, OneMoves
  <2>5. c \notin Hatched /\ Hatched' = Hatched \cup {c}
    BY <1>1, <1>4, SetsGrow
  <2>6. Cardinality(Hatched') = Cardinality(Hatched) + 1
    BY <1>2, <2>5, FS_AddElement
  <2> QED BY <1>2, <2>1, <2>3, <2>4, <2>6
<1>5. CASE ~Setup(c) /\ ~StorePending(c)
  <2>1. pending' = pending /\ Hatched' = Hatched
    BY <1>1, <1>5, Writes, SetsGrow
  <2>2. pc'[c] \in {"release"} \cup Past <=> pc[c] \in {"release"} \cup Past
    BY <1>1, <1>5
       DEF IInv, Start, LockHatch, Elect, Main, Bootstrap, SetupRelease, SetupWait, BootOthers,
           Secondary, LockBoot, PreMain, PreMainFails, LoadNcpus, StoreNcpus, LoadPending,
           UnlockHatch, UnlockBoot, BecomeAlive, Goto, Past
  <2>3. \A d \in Cpus : pc'[d] \in {"release"} \cup Past <=> pc[d] \in {"release"} \cup Past
    BY <1>1, <2>2, OneMoves
  <2> QED BY <2>1, <2>3 DEF CountInv
<1> QED BY <1>3, <1>4, <1>5

\* the main processor has not hatched
LEMMA MainNotHatched == \A m \in Cpus : pc[m] \in MainPc => m \notin Hatched /\ m \notin Stacked
  BY DEF Hatched, Stacked, MainPc, Done

\* when it sees pending at zero all others have
LEMMA LastStep ==
    ASSUME IInv, CountInv, Next
    PROVE  \A m \in Cpus : pc'[m] \in {"boot", "running"} => Hatched' = Cpus \ {m}
<1>1. PICK c \in Cpus : Start(c) \/ Main(c) \/ Secondary(c) \/ LockBoot(c)
  BY DEF Next
<1>2. SUFFICES ASSUME NEW m \in Cpus, pc'[m] \in {"boot", "running"} PROVE Hatched' = Cpus \ {m}
  OBVIOUS
<1>3. CASE SetupWait(c) /\ m = c
  <2>1. pc[m] = "wait" /\ pending = 0 /\ ~StorePending(c)
    BY <1>3 DEF SetupWait, StorePending, Goto
  <2>2. pending = Cardinality(Cpus) - 1 - Cardinality(Hatched)
    BY <2>1 DEF CountInv, Past
  <2>3. m \notin Hatched /\ Hatched \in SUBSET (Cpus \ {m})
    BY <2>1, MainNotHatched DEF MainPc, Hatched
  <2>4. IsFiniteSet(Cpus \ {m}) /\ Cardinality(Cpus \ {m}) = Cardinality(Cpus) - 1
    BY SetsFinite, FS_RemoveElement
  <2>5. Cardinality(Hatched) = Cardinality(Cpus \ {m})
    BY <2>1, <2>2, <2>4, SetsFinite
  <2>6. Hatched = Cpus \ {m}
    BY <2>3, <2>4, <2>5, FS_Subset
  <2> QED BY <1>1, <2>1, <2>6, SetsGrow
<1>4. CASE ~(SetupWait(c) /\ m = c)
  <2>1. pc[m] \in {"boot", "running"}
    <3>1. CASE m # c
      BY <1>1, <1>2, <3>1, OneMoves
    <3>2. CASE m = c
      BY <1>1, <1>2, <1>4, <3>2
         DEF IInv, Start, LockHatch, Elect, Main, Bootstrap, Setup, SetupRelease, BootOthers,
             Secondary, LockBoot, PreMain, PreMainFails, LoadNcpus, StoreNcpus, LoadPending,
             StorePending, UnlockHatch, UnlockBoot, BecomeAlive, Goto
    <3> QED BY <3>1, <3>2
  <2>2. Hatched = Cpus \ {m}
    BY <2>1 DEF CountInv
  <2>3. ~StorePending(c)
    <3>1. StorePending(c) => c \notin Hatched /\ c # m
      BY <1>1, <2>1, SetsGrow DEF StorePending, Goto
    <3> QED BY <2>2, <3>1
  <2> QED BY <1>1, <2>2, <2>3, SetsGrow
<1> QED BY <1>3, <1>4

LEMMA CountNumbers ==
    ASSUME CountInv
    PROVE  pending \in Int /\ ncpus \in Int
<1>1. /\ Cardinality(Cpus) \in Nat /\ Cardinality(Hatched) \in Nat /\ Cardinality(Stacked) \in Nat
  BY SetsFinite
<1>2. ncpus = 1 + Cardinality(Stacked)
  BY DEF CountInv
<1>3. pending = Cardinality(Cpus) - 1 - Cardinality(Hatched) \/ pending = 0
  BY DEF CountInv
<1> QED BY <1>1, <1>2, <1>3

LEMMA FlagsStep ==
    ASSUME HatchInv, Next
    PROVE  hatch' \in BOOLEAN /\ boot' \in BOOLEAN /\ master_mpu' \in BOOLEAN /\ alive' \subseteq Cpus
<1>1. PICK c \in Cpus : Start(c) \/ Main(c) \/ Secondary(c) \/ LockBoot(c)
  BY DEF Next
<1>2. hatch' \in {hatch, TRUE, FALSE} /\ boot' \in {boot, TRUE, FALSE} /\ master_mpu' \in {master_mpu, TRUE}
  BY <1>1 DEF Start, LockHatch, Elect, Main, Bootstrap, Setup, SetupRelease, SetupWait, BootOthers,
         Secondary, LockBoot, PreMain, PreMainFails, LoadNcpus, StoreNcpus, LoadPending,
         StorePending, UnlockHatch, UnlockBoot, BecomeAlive, locks
<1>3. alive' \in {alive, alive \cup {c}}
  BY <1>1 DEF Start, LockHatch, Elect, Main, Bootstrap, Setup, SetupRelease, SetupWait, BootOthers,
         Secondary, LockBoot, PreMain, PreMainFails, LoadNcpus, StoreNcpus, LoadPending,
         StorePending, UnlockHatch, UnlockBoot, BecomeAlive
<1>4. hatch \in BOOLEAN /\ boot \in BOOLEAN /\ master_mpu \in BOOLEAN /\ alive \subseteq Cpus
  BY DEF HatchInv
<1> QED BY <1>2, <1>3, <1>4

LEMMA HatchStart == Init => HatchInv
  BY InitInv, CountInit DEF Init, HatchInv

LEMMA HatchStep == HatchInv /\ [Next]_vars => HatchInv'
<1> SUFFICES ASSUME HatchInv, [Next]_vars PROVE HatchInv'
  OBVIOUS
<1>1. CASE Next
  <2>1. IInv /\ CountInv /\ master_mpu \in BOOLEAN
    BY DEF HatchInv
  <2>2. IInv'
    BY <1>1, <2>1, PcStep, MutexStep, MainStep, BootStep DEF IInv
  <2>3. pending \in Int /\ ncpus \in Int
    BY <2>1, CountNumbers
  <2>4. CountInv'
    <3>1. /\ reg' \in [Cpus -> Int]
          /\ \A d \in Cpus : (pc'[d] = "counted" => reg'[d] = ncpus') /\ (pc'[d] = "write" => reg'[d] = pending')
      BY <1>1, <2>1, <2>3, RegisterStep
    <3>2. failed' \in SUBSET Cpus /\ \A d \in failed' : pc'[d] \in {"read", "write"} \cup Done
      BY <1>1, <2>1, FailedStep
    <3>3. master_mpu' = TRUE => \E m \in Cpus : pc'[m] \in MainPc
      BY <1>1, <2>1, MasterStep
    <3>4. \A d \in Cpus : pc'[d] \in SlavePc => \E m \in Cpus : pc'[m] \in Past
      BY <1>1, <2>1, SlaveStep
    <3>5. ncpus' = 1 + Cardinality(Stacked')
      BY <1>1, <2>1, NcpusStep
    <3>6. IF \E m \in Cpus : pc'[m] \in {"release"} \cup Past
          THEN pending' = Cardinality(Cpus) - 1 - Cardinality(Hatched') ELSE pending' = 0
      BY <1>1, <2>1, PendingStep
    <3>7. \A m \in Cpus : pc'[m] \in {"boot", "running"} => Hatched' = Cpus \ {m}
      BY <1>1, <2>1, LastStep
    <3> QED BY <3>1, <3>2, <3>3, <3>4, <3>5, <3>6, <3>7 DEF CountInv
  <2>5. hatch' \in BOOLEAN /\ boot' \in BOOLEAN /\ master_mpu' \in BOOLEAN /\ alive' \subseteq Cpus
    BY <1>1, FlagsStep
  <2> QED BY <2>2, <2>4, <2>5 DEF HatchInv
<1>2. CASE UNCHANGED vars
  BY <1>2 DEF vars, HatchInv, IInv, MutexInv, MainInv, BootInv, HatchExclusive, OneMain, Hatching,
              CountInv, Hatched, Stacked
<1> QED BY <1>1, <1>2

\* the count of the ones to wait for never falls below zero
LEMMA HatchTyped == HatchInv => TypeOK
<1> SUFFICES ASSUME HatchInv PROVE TypeOK
  OBVIOUS
<1>1. CountInv /\ pc \in [Cpus -> Pc]
  BY DEF HatchInv, IInv
<1>2. pending \in Nat
  <2>1. CASE \E m \in Cpus : pc[m] \in {"release"} \cup Past
    <3>1. PICK m \in Cpus : pc[m] \in {"release"} \cup Past
      BY <2>1
    <3>2. m \notin Hatched /\ Hatched \in SUBSET (Cpus \ {m})
      BY <3>1, MainNotHatched DEF MainPc, Past, Hatched
    <3>3. IsFiniteSet(Cpus \ {m}) /\ Cardinality(Cpus \ {m}) = Cardinality(Cpus) - 1
      BY SetsFinite, FS_RemoveElement
    <3>4. Cardinality(Hatched) <= Cardinality(Cpus \ {m})
      BY <3>2, <3>3, FS_Subset
    <3>5. pending = Cardinality(Cpus) - 1 - Cardinality(Hatched)
      BY <1>1, <2>1 DEF CountInv
    <3> QED BY <3>3, <3>4, <3>5, SetsFinite
  <2>2. CASE ~\E m \in Cpus : pc[m] \in {"release"} \cup Past
    BY <1>1, <2>2 DEF CountInv
  <2> QED BY <2>1, <2>2
<1>3. ncpus \in Nat
  BY <1>1, SetsFinite DEF CountInv
<1> QED BY <1>1, <1>2, <1>3 DEF HatchInv, CountInv, TypeOK

LEMMA HatchCounts == HatchInv => AllHatched
<1> SUFFICES ASSUME HatchInv, NEW m \in Cpus, pc[m] \in {"boot", "running"}
             PROVE  /\ \A c \in Cpus : pc[c] \in MainPc \cup {"unlock", "dead", "bootwait", "bootunlock",
                                                              "spl0", "alive"}
                    /\ ncpus = Cardinality(Cpus \ failed)
  BY DEF AllHatched
<1>1. CountInv
  BY DEF HatchInv
<1>2. Hatched = Cpus \ {m}
  BY <1>1 DEF CountInv
<1>3. \A c \in Cpus : pc[c] \in MainPc \cup {"unlock", "dead", "bootwait", "bootunlock", "spl0", "alive"}
  BY <1>2 DEF Hatched, Done, MainPc
<1>4. m \notin failed /\ m \notin Stacked
  BY <1>1, MainNotHatched DEF CountInv, Done, MainPc
<1>5. Stacked \cup {m} = Cpus \ failed
  BY <1>2, <1>4 DEF Hatched, Stacked
<1>6. Cardinality(Stacked \cup {m}) = Cardinality(Stacked) + 1
  BY <1>4, SetsFinite, FS_AddElement
<1>7. ncpus = 1 + Cardinality(Stacked)
  BY <1>1 DEF CountInv
<1> QED BY <1>3, <1>5, <1>6, <1>7, SetsFinite

(***************************************************************************)
(* The counters of the start are never out of their range: the count of    *)
(* the processors that are waited for, hatch_pending_count, which each one *)
(* loads, decrements and stores, does not fall below zero.                 *)
(***************************************************************************)
THEOREM CountersStayInRange == Spec => []TypeOK
<1>1. Spec => []HatchInv
  BY HatchStart, HatchStep, PTL DEF Spec
<1> QED BY <1>1, HatchTyped, PTL

(***************************************************************************)
(* When the main processor stops waiting in                                *)
(* cpu_setup_secondary_processors() every other one has hatched or given   *)
(* up, and ncpus is the number of those that run: no load and store of a   *)
(* counter overtakes that of another processor.                            *)
(***************************************************************************)
THEOREM WaitIsForAll == Spec => []AllHatched
<1>1. Spec => []HatchInv
  BY HatchStart, HatchStep, PTL DEF Spec
<1> QED BY <1>1, HatchCounts, PTL
=============================================================================
