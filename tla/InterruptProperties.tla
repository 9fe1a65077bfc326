------------------------ MODULE InterruptProperties ------------------------
(***************************************************************************)
(* What the interrupt code is relied upon for.                             *)
(***************************************************************************)
EXTENDS Interrupts

Frames(c) == 1..Len(stack[c])

\* Frames that hold a reference on the kernel lock.
Holds(f) == f.old < SCHED /\
            f.at \in {"setipl", "dispatch", "reread", "unlock"}

Holding(c) == Cardinality({i \in Frames(c) : Holds(stack[c][i])})

\* Frames that are in the handlers of a device level.
InDriver(f) == f.at \in {"dispatch", "reread"} /\ f.cur \in Devices

(***************************************************************************)
(* Clock and device interrupts nest by strictly increasing level, so a     *)
(* processor has no more frames on its stack than levels that interrupt:   *)
(* the priority that the dispatch loop sets, the mask that goes with it    *)
(* and the disabled interrupts at both ends of luna88k_ext_int() together  *)
(* bound the kernel stack.                                                 *)
(***************************************************************************)
NestingBounded ==
    \A c \in Cpus : Len(stack[c]) <= Cardinality(Sources)

(***************************************************************************)
(* The reference count of the kernel lock is that of the interrupts in     *)
(* progress that took it, plus one if base code holds it: the test of      *)
(* old_spl before __mp_lock() and the one before __mp_unlock() agree       *)
(* although everything in between may be interrupted.                      *)
(***************************************************************************)
KernelLockBalanced ==
    \A c \in Cpus :
        IF klock.owner = c THEN klock.depth - Holding(c) \in {0, 1}
                           ELSE Holding(c) = 0

(***************************************************************************)
(* The frames on a processor's stack are bounded and account for its hold  *)
(* on the kernel lock.                                                     *)
(***************************************************************************)
FramesBounded == NestingBounded /\ KernelLockBalanced

(***************************************************************************)
(* Drivers run on the master processor only, under the kernel lock, and    *)
(* not at the same time at one level: a dispatch at level l is never       *)
(* entered while an outer frame is inside a handler of level l or above.   *)
(***************************************************************************)
DriversExclude ==
    \A c \in Cpus : \A i \in Frames(c) :
        InDriver(stack[c][i]) =>
            /\ c = Master
            /\ klock.owner = c
            /\ \A j \in 1..(i - 1) : InDriver(stack[c][j]) => stack[c][j].cur < stack[c][i].cur

(***************************************************************************)
(* "We rely on the interrupt mask to make sure that if we get an IPI, it's *)
(* really for us" (machdep.c:844), and what was announced is processed: a  *)
(* bit that is set in ci_ipi is cleared again.  With one kind of IPI and   *)
(* one sender for each receiver it is.                                     *)
(***************************************************************************)
EveryIpiHandled ==
    \A c \in Cpus : \A b \in Bits : b \in ci_ipi[c] ~> b \notin ci_ipi[c]

(***************************************************************************)
(* "Service the highest interrupt, in order" (machdep.c:867): what the     *)
(* dispatcher serves is an interrupt that is still raised.                 *)
(***************************************************************************)
ServesRaised ==
    [][\A c \in Cpus : Dispatch(c) => Top(c).cur \in Raised(c)]_vars

(***************************************************************************)
(* A clock or device interrupt is served although other processors contend *)
(* for the kernel lock with interrupts disabled, and although base code    *)
(* raises its priority again and again.                                    *)
(***************************************************************************)
InterruptsServed ==
    /\ \A c \in Cpus : c \in clk ~> c \notin clk
    /\ \A l \in Sources \cap Devices : l \in line ~> l \notin line

(***************************************************************************)
(* The processors run, base code keeps its priority raised and the kernel  *)
(* lock held for bounded times, a pending interrupt is taken before the    *)
(* next instruction, and __mp_lock() is not for ever overtaken.            *)
(***************************************************************************)
Fairness ==
    \A c \in Cpus :
        /\ WF_vars(ExtInt(c)) /\ WF_vars(Sender(c)) /\ WF_vars(KernelLeave(c))
        /\ WF_vars(SetIpl(c, 0)) /\ SF_vars(Take(c)) /\ SF_vars(AcquireLock(c))

(***************************************************************************)
(* No storms: the dispatcher serves IPIs in a loop, and a level that is    *)
(* raised again whenever it was served starves those below it.             *)
(***************************************************************************)
Request ==
    \/ \E c \in Cpus : \/ RaiseClock(c)
                       \/ \E b \in Bits : Broadcast(c, b) \/ \E t \in Cpus \ {c} : Send(c, b, {t})
    \/ \E l \in Devices : RaiseDevice(l)

FairSpec == Spec /\ Fairness /\ <>[][~Request]_vars
=============================================================================
