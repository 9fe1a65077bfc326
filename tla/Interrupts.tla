----------------------------- MODULE Interrupts -----------------------------
(***************************************************************************)
(* Interrupt priorities, the interrupt dispatcher luna88k_ext_int() and    *)
(* interprocessor interrupts of a multiprocessor LUNA88K                   *)
(* (src/luna88k/machdep.c).                                                *)
(*                                                                         *)
(* A processor runs base code (kernel or user) until it takes an           *)
(* interrupt; every interrupt in progress is a frame on its stack, and an  *)
(* interrupt may nest wherever PSR_IND is clear.  The status register      *)
(* shows the highest raised level that int_mask_reg enables.  The code of  *)
(* m88k/eh_common.S, which enters and leaves luna88k_ext_int(), and the    *)
(* kernel lock itself are not in the repository.  Operators named ...Wrong *)
(* are faulted forms of the operator after them.                           *)
(***************************************************************************)
EXTENDS Naturals, FiniteSets, Sequences

CONSTANTS
    Cpus,       \* processors that are CIF_ALIVE
    Master,     \* master_cpu: the one that device interrupts are routed to
    Bits,       \* CI_IPI_DDB, CI_IPI_NOTIFY
    Sources,    \* the levels at which hardware interrupts occur
    Senders,    \* the processors whose base code sends IPIs
    BaseLevels, \* the priorities that base code sets
    Nobody      \* the owner of a free lock

SOFTINT == 1
CLOCK   == 6
SCHED   == 6
HIGH    == 7
Devices == {3, 4, 5}                     \* IPL_BIO, IPL_NET, IPL_TTY
Levels  == 0..HIGH

ASSUME MasterAssumption == Master \in Cpus
ASSUME SourcesAssumption == Sources \subseteq Devices \cup {CLOCK}
ASSUME SendersAssumption == Senders \subseteq Cpus
ASSUME BaseAssumption == BaseLevels \subseteq Levels
ASSUME NobodyAssumption == Nobody \notin Cpus

VARIABLES
    spl,        \* luna88k_curspl[]; int_mask_reg[] always follows it
    ind,        \* PSR_IND: the processor takes no interrupts
    stack,      \* luna88k_ext_int() invocations in progress, outermost first
    line,       \* device levels that are raised
    clk,        \* processors whose clock interrupt is raised
    swi,        \* processors whose software interrupt register is set
    ci_ipi,     \* ci_ipi of each processor
    send,       \* m88k_send_ipi()/m88k_broadcast_ipi() in progress in base code
    klock       \* kernel_lock: owner and depth

vars == <<spl, ind, stack, line, clk, swi, ci_ipi, send, klock>>
raised == <<line, clk, swi>>

Pc == {"read", "ipi", "swi", "clear", "lock", "setipl", "dispatch",
       "reread", "unlock", "out", "ret"}

Frame == [at : Pc, old : Levels, cur : Levels, ipi : SUBSET Bits, unmasked : BOOLEAN]
Quiet == [at |-> "test", bit |-> Nobody, left |-> {}]

TypeOK ==
    /\ spl \in [Cpus -> Levels]
    /\ ind \in [Cpus -> BOOLEAN]
    /\ stack \in [Cpus -> Seq(Frame)]
    /\ line \subseteq Devices /\ clk \subseteq Cpus /\ swi \subseteq Cpus
    /\ ci_ipi \in [Cpus -> SUBSET Bits]
    /\ send \in [Cpus -> [at : {"test", "set", "swi"}, bit : Bits \cup {Nobody},
                          left : SUBSET Cpus]]
    /\ klock \in [owner : Cpus \cup {Nobody}, depth : Nat]

Init ==
    /\ spl = [c \in Cpus |-> HIGH]
    /\ ind = [c \in Cpus |-> FALSE]
    /\ stack = [c \in Cpus |-> <<>>]
    /\ line = {} /\ clk = {} /\ swi = {}
    /\ ci_ipi = [c \in Cpus |-> {}]
    /\ send = [c \in Cpus |-> Quiet]
    /\ klock = [owner |-> Nobody, depth |-> 0]

(***************************************************************************)
(* The mask that setlevel() writes, and what the status register shows.    *)
(***************************************************************************)
IntSetValWrong(l) == IF l >= CLOCK THEN {} ELSE {SOFTINT} \cup {m \in 2..CLOCK : m >= l}

IntSetVal(l) == IF l >= CLOCK THEN {} ELSE {SOFTINT} \cup {m \in 2..CLOCK : m > l}

SlaveMask == {CLOCK, SOFTINT}

EnabledEverywhereWrong(c) == IntSetVal(spl[c])

Enabled(c) == IF c = Master THEN IntSetVal(spl[c]) ELSE IntSetVal(spl[c]) \cap SlaveMask

Raised(c) == line \cup {l \in {CLOCK} : c \in clk} \cup {l \in {SOFTINT} : c \in swi}

Highest(S) == CHOOSE l \in S \cup {0} : \A m \in S : m <= l

Status(c) == Highest(Raised(c) \cap Enabled(c))

(***************************************************************************)
(* Base code: priorities, and the kernel lock around a stretch of it.      *)
(***************************************************************************)
InBase(c) == stack[c] = <<>>

\* setipl(): splx() and spl0().
SetIpl(c, l) ==
    /\ InBase(c) /\ l # spl[c]
    /\ spl' = [spl EXCEPT ![c] = l]
    /\ UNCHANGED <<ind, stack, raised, ci_ipi, send, klock>>

\* raiseipl(): never lowers.
RaiseIpl(c, l) ==
    /\ InBase(c) /\ spl[c] < l
    /\ spl' = [spl EXCEPT ![c] = l]
    /\ UNCHANGED <<ind, stack, raised, ci_ipi, send, klock>>

MayLock(c) == klock.owner \in {Nobody, c}
Locked(c)  == [owner |-> c, depth |-> klock.depth + 1]
Unlocked   == IF klock.depth = 1 THEN [owner |-> Nobody, depth |-> 0]
                                 ELSE [klock EXCEPT !.depth = @ - 1]

KernelEnter(c) ==
    /\ InBase(c) /\ klock.owner = Nobody
    /\ klock' = Locked(c)
    /\ UNCHANGED <<spl, ind, stack, raised, ci_ipi, send>>

KernelLeave(c) ==
    /\ InBase(c) /\ klock.owner = c
    /\ klock' = Unlocked
    /\ UNCHANGED <<spl, ind, stack, raised, ci_ipi, send>>

(***************************************************************************)
(* Sending.  The bit is tested, set and announced in three steps, and the  *)
(* receiver, or an interrupt on the sender, may come in between.           *)
(***************************************************************************)
Send(c, b, targets) ==
    /\ c \in Senders /\ InBase(c) /\ send[c].left = {} /\ targets # {}
    /\ send' = [send EXCEPT ![c] = [at |-> "test", bit |-> b, left |-> targets]]
    /\ UNCHANGED <<spl, ind, stack, raised, ci_ipi, klock>>

Broadcast(c, b) == Send(c, b, Cpus \ {c})

\* The next processor of the loop, or the end of it.
Sent(c, t) ==
    LET left == send[c].left \ {t}
    IN  IF left = {} THEN Quiet ELSE [send[c] EXCEPT !.at = "test", !.left = left]

\* The sender is between the steps for one target: t is the one it works on.
Target(c) == CHOOSE t \in send[c].left : TRUE

Sending(c, p) == InBase(c) /\ send[c].left # {} /\ send[c].at = p

SendTest(c) ==
    /\ Sending(c, "test")
    /\ send' = [send EXCEPT ![c] = IF send[c].bit \in ci_ipi[Target(c)]
                                   THEN Sent(c, Target(c))
                                   ELSE [@ EXCEPT !.at = "set"]]
    /\ UNCHANGED <<spl, ind, stack, raised, ci_ipi, klock>>

SendSet(c) ==
    /\ Sending(c, "set")
    /\ ci_ipi' = [ci_ipi EXCEPT ![Target(c)] = @ \cup {send[c].bit}]
    /\ send' = [send EXCEPT ![c].at = "swi"]
    /\ UNCHANGED <<spl, ind, stack, raised, klock>>

SendSwi(c) ==
    /\ Sending(c, "swi")
    /\ swi' = swi \cup {Target(c)}
    /\ send' = [send EXCEPT ![c] = Sent(c, Target(c))]
    /\ UNCHANGED <<spl, ind, stack, line, clk, ci_ipi, klock>>

(***************************************************************************)
(* Hardware.                                                               *)
(***************************************************************************)
RaiseDevice(l) ==
    /\ l \in Sources \cap Devices /\ l \notin line
    /\ line' = line \cup {l}
    /\ UNCHANGED <<spl, ind, stack, clk, swi, ci_ipi, send, klock>>

RaiseClock(c) ==
    /\ CLOCK \in Sources /\ c \notin clk
    /\ clk' = clk \cup {c}
    /\ UNCHANGED <<spl, ind, stack, line, swi, ci_ipi, send, klock>>

\* The exception sets PSR_IND and eh_common.S saves curspl in tf_mask.
Take(c) ==
    /\ ~ind[c] /\ Status(c) # 0
    /\ ind' = [ind EXCEPT ![c] = TRUE]
    /\ stack' = [stack EXCEPT ![c] = Append(@,
           [at |-> "read", old |-> spl[c], cur |-> 0, ipi |-> {}, unmasked |-> FALSE])]
    /\ UNCHANGED <<spl, raised, ci_ipi, send, klock>>

(***************************************************************************)
(* luna88k_ext_int().                                                      *)
(***************************************************************************)
Top(c)     == stack[c][Len(stack[c])]
At(c, p)   == stack[c] # <<>> /\ Top(c).at = p
Step(c, f) == stack' = [stack EXCEPT ![c][Len(stack[c])] = f]

\* The status is read on entry, after every IPI and after every dispatch.
Following(c, level) ==
    IF level = 0 THEN "out"
    ELSE IF level = SOFTINT THEN "ipi"
    ELSE IF Top(c).old < SCHED THEN "lock" ELSE "setipl"

ReadStatus(c) ==
    /\ At(c, "read")
    /\ LET level == Status(c)
       IN  Step(c, [Top(c) EXCEPT !.cur = level, !.at = Following(c, level)])
    /\ UNCHANGED <<spl, ind, raised, ci_ipi, send, klock>>

IpiReadWrong(c) ==
    /\ At(c, "ipi")
    /\ ci_ipi' = [ci_ipi EXCEPT ![c] = {}]
    /\ Step(c, [Top(c) EXCEPT !.ipi = ci_ipi[c], !.at = "swi"])
    /\ UNCHANGED <<spl, ind, raised, send, klock>>

\* luna88k_ipi_handler(): which ones, reset the register, clear the bits.
IpiRead(c) ==
    /\ At(c, "ipi")
    /\ Step(c, [Top(c) EXCEPT !.ipi = ci_ipi[c], !.at = "swi"])
    /\ UNCHANGED <<spl, ind, raised, ci_ipi, send, klock>>

IpiReset(c) ==
    /\ At(c, "swi")
    /\ swi' = swi \ {c}
    /\ Step(c, [Top(c) EXCEPT !.at = "clear"])
    /\ UNCHANGED <<spl, ind, line, clk, ci_ipi, send, klock>>

IpiClear(c) ==
    /\ At(c, "clear")
    /\ ci_ipi' = [ci_ipi EXCEPT ![c] = @ \ Top(c).ipi]
    /\ Step(c, [Top(c) EXCEPT !.at = "read", !.ipi = {}])
    /\ UNCHANGED <<spl, ind, raised, send, klock>>

AcquireLock(c) ==
    /\ At(c, "lock") /\ MayLock(c)
    /\ klock' = Locked(c)
    /\ Step(c, [Top(c) EXCEPT !.at = "setipl"])
    /\ UNCHANGED <<spl, ind, raised, ci_ipi, send>>

\* The head of the do loop; interrupts are enabled in its first pass.
SetLevel(c) ==
    /\ At(c, "setipl")
    /\ spl' = [spl EXCEPT ![c] = Highest({Top(c).cur, Top(c).old})]
    /\ ind' = [ind EXCEPT ![c] = @ /\ Top(c).unmasked]
    /\ Step(c, [Top(c) EXCEPT !.at = "dispatch", !.unmasked = TRUE])
    /\ UNCHANGED <<raised, ci_ipi, send, klock>>

DispatchOnMasterWrong(c) ==
    /\ At(c, "dispatch")
    /\ clk' = IF Top(c).cur = CLOCK /\ c = Master THEN clk \ {c} ELSE clk
    /\ line' = IF c = Master THEN line \ ({Top(c).cur} \cap Devices) ELSE line
    /\ Step(c, [Top(c) EXCEPT !.at = "reread"])
    /\ UNCHANGED <<spl, ind, swi, ci_ipi, send, klock>>

\* The switch: clockintr() and the device handlers acknowledge; a slave, and
\* levels without a handler, do nothing.
Dispatch(c) ==
    /\ At(c, "dispatch")
    /\ clk' = IF Top(c).cur = CLOCK THEN clk \ {c} ELSE clk
    /\ line' = IF c = Master THEN line \ ({Top(c).cur} \cap Devices) ELSE line
    /\ Step(c, [Top(c) EXCEPT !.at = "reread"])
    /\ UNCHANGED <<spl, ind, swi, ci_ipi, send, klock>>

\* The tail of the do loop, with interrupts enabled.
Reread(c) ==
    /\ At(c, "reread")
    /\ LET level == Status(c)
       IN  Step(c, [Top(c) EXCEPT !.cur = level, !.at =
               IF level # 0 THEN "setipl" ELSE IF Top(c).old < SCHED THEN "unlock" ELSE "out"])
    /\ UNCHANGED <<spl, ind, raised, ci_ipi, send, klock>>

ReleaseLock(c) ==
    /\ At(c, "unlock")
    /\ klock' = Unlocked
    /\ Step(c, [Top(c) EXCEPT !.at = "out"])
    /\ UNCHANGED <<spl, ind, raised, ci_ipi, send>>

DisableInterrupts(c) ==
    /\ At(c, "out")
    /\ ind' = [ind EXCEPT ![c] = TRUE]
    /\ Step(c, [Top(c) EXCEPT !.at = "ret"])
    /\ UNCHANGED <<spl, raised, ci_ipi, send, klock>>

\* eh_common.S: the saved spl comes back, and rte re-enables interrupts.
Return(c) ==
    /\ At(c, "ret")
    /\ spl' = [spl EXCEPT ![c] = Top(c).old]
    /\ ind' = [ind EXCEPT ![c] = FALSE]
    /\ stack' = [stack EXCEPT ![c] = SubSeq(@, 1, Len(@) - 1)]
    /\ UNCHANGED <<raised, ci_ipi, send, klock>>

ExtInt(c) ==
    \/ ReadStatus(c) \/ IpiRead(c) \/ IpiReset(c) \/ IpiClear(c)
    \/ AcquireLock(c) \/ SetLevel(c) \/ Dispatch(c) \/ Reread(c) \/ ReleaseLock(c)
    \/ DisableInterrupts(c) \/ Return(c)

Sender(c) == SendTest(c) \/ SendSet(c) \/ SendSwi(c)

Next ==
    \/ \E c \in Cpus :
        \/ \E l \in BaseLevels : SetIpl(c, l) \/ RaiseIpl(c, l)
        \/ KernelEnter(c) \/ KernelLeave(c)
        \/ \E b \in Bits : Broadcast(c, b) \/ \E t \in Cpus \ {c} : Send(c, b, {t})
        \/ Sender(c) \/ RaiseClock(c) \/ Take(c) \/ ExtInt(c)
    \/ \E l \in Devices : RaiseDevice(l)

Spec == Init /\ [][Next]_vars
=============================================================================
