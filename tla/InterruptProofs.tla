-------------------------- MODULE InterruptProofs --------------------------
(***************************************************************************)
(* Proofs about the interrupt code, for any number of processors and any   *)
(* sources of interrupts: drivers exclude one another and the kernel lock  *)
(* is balanced, whatever IPIs are sent; without IPIs the frames on a       *)
(* processor's stack are no more than the levels that interrupt.           *)
(***************************************************************************)
EXTENDS InterruptProperties, FiniteSetTheorems, SequenceTheorems, TLAPS

-----------------------------------------------------------------------------
(* The inductive invariant *)

\* the priority that the code above frame i of a stack was entered at: the one saved
\* by the frame it was interrupted by, or the current one
Above(c, i) == IF i = Len(stack[c]) THEN spl[c] ELSE stack[c][i + 1].old

Serving == {"lock", "setipl", "dispatch", "reread"}

\* an invocation enables interrupts once it has set its level, and until it returns
Interruptible(f) == f.unmasked /\ f.at # "ret"

\* One frame, a the priority above it: the priority is never below the one it saved,
\* and while it serves level cur it is not below that either; the level was found
\* above the saved one, and device levels are found on the master only.
FrameOk(c, f, a) ==
    /\ f.old <= a
    /\ f.at \in {"dispatch", "reread"} => f.cur <= a
    /\ ~f.unmasked => a = f.old
    /\ f.at \in Serving =>
          /\ f.cur \in 1..CLOCK
          /\ f.cur = SOFTINT \/ f.old < f.cur
          /\ f.cur \in Devices => c = Master
    /\ f.at \in {"lock", "unlock"} => f.old < SCHED
    /\ f.at \in {"read", "ipi", "swi", "clear", "lock"} => ~f.unmasked
    /\ f.at \in {"dispatch", "reread", "unlock"} => f.unmasked

\* The stack of a processor: saved priorities do not decrease, only the last frame may
\* run with interrupts disabled, and PSR_IND says whether it does.
StackOk(c) ==
    /\ \A i \in Frames(c) : FrameOk(c, stack[c][i], Above(c, i))
    /\ \A i, j \in Frames(c) : i < j => Interruptible(stack[c][i]) /\ Above(c, i) <= stack[c][j].old
    /\ ind[c] <=> stack[c] # <<>> /\ ~Interruptible(Top(c))

\* the kernel lock is owned exactly while it is held
LockOk == (klock.owner = Nobody <=> klock.depth = 0) /\ KernelLockBalanced

\* an IPI that is being sent is one
SendOk == \A c \in Cpus : send[c].left # {} => send[c].bit \in Bits

IntInv == (\A c \in Cpus : StackOk(c)) /\ LockOk /\ SendOk

\* Without IPIs every interrupt is one of Sources, and is served at a level above the
\* one that was saved.
NestOk(c, f, a) ==
    /\ \E l \in Sources : f.old < l
    /\ f.unmasked => a \in Sources /\ f.old < a
    /\ f.at \in Serving => f.cur \in Sources /\ f.old < f.cur

NestInv ==
    /\ line \subseteq Sources /\ (clk # {} => CLOCK \in Sources) /\ swi = {}
    /\ \A c \in Cpus : send[c].left = {}
    /\ \A c \in Cpus : \A i \in Frames(c) : NestOk(c, stack[c][i], Above(c, i))

-----------------------------------------------------------------------------
(* Levels *)

\* The highest of a set of levels is one of them, or 0 if there is none.
LEMMA HighestOf ==
  ASSUME NEW S \in SUBSET Levels
  PROVE  Highest(S) \in S \cup {0} /\ \A m \in S : m <= Highest(S)
<1> DEFINE IsHighest(l) == l \in S \cup {0} /\ \A m \in S : m <= l
<1>1. S \subseteq 0..7
  BY DEF Levels, HIGH
<1>2. \E l : IsHighest(l)
  <2>1. CASE 7 \in S
    BY <1>1, <2>1
  <2>2. CASE 7 \notin S /\ 6 \in S
    BY <1>1, <2>2
  <2>3. CASE S \subseteq 0..5 /\ 5 \in S
    BY <2>3
  <2>4. CASE S \subseteq 0..4 /\ 4 \in S
    BY <2>4
  <2>5. CASE S \subseteq 0..3 /\ 3 \in S
    BY <2>5
  <2>6. CASE S \subseteq 0..2 /\ 2 \in S
    BY <2>6
  <2>7. CASE S \subseteq 0..1
    BY <2>7
  <2> QED  BY <1>1, <2>1, <2>2, <2>3, <2>4, <2>5, <2>6, <2>7
<1> QED  BY <1>2 DEF Highest

\* What the status register shows is raised and above the priority of the processor,
\* unless it is a software interrupt; device levels show on the master only.
LEMMA StatusShows ==
  ASSUME TypeOK, NEW c \in Cpus, Status(c) # 0
  PROVE  /\ Status(c) \in Raised(c) /\ Status(c) \in 1..CLOCK
         /\ Status(c) = SOFTINT \/ spl[c] < Status(c)
         /\ Status(c) \in Devices => c = Master
<1>1. Raised(c) \subseteq 1..6 /\ spl[c] \in 0..7
  <2>1. line \subseteq {3, 4, 5} /\ spl[c] \in 0..7
    BY DEF TypeOK, Devices, Levels, HIGH
  <2>2. {l \in {CLOCK} : c \in clk} \subseteq {6} /\ {l \in {SOFTINT} : c \in swi} \subseteq {1}
    BY DEF CLOCK, SOFTINT
  <2>3. Raised(c) \subseteq {3, 4, 5} \cup {6} \cup {1}
    BY <2>1, <2>2 DEF Raised
  <2> QED  BY <2>1, <2>3
<1>2. Status(c) \in Raised(c) \cap Enabled(c)
  BY <1>1, HighestOf DEF Status, Levels, HIGH
<1> QED  BY <1>1, <1>2 DEF Enabled, IntSetVal, SlaveMask, Devices, CLOCK, SOFTINT

LEMMA StatusType ==
  ASSUME TypeOK, NEW c \in Cpus
  PROVE  Status(c) \in 0..6 /\ Status(c) \in Levels
BY StatusShows DEF Levels, HIGH, CLOCK

-----------------------------------------------------------------------------
(* Frames that hold the kernel lock *)

HeldIn(s) == {i \in 1..Len(s) : Holds(s[i])}

LEMMA HeldFinite ==
  ASSUME NEW s \in Seq(Frame)
  PROVE  IsFiniteSet(HeldIn(s)) /\ Cardinality(HeldIn(s)) \in Nat
<1>1. IsFiniteSet(1..Len(s))
  BY FS_Interval
<1> QED  BY <1>1, FS_Subset, FS_CardinalityType DEF HeldIn

Counts(f) == IF Holds(f) THEN 1 ELSE 0

\* Replacing the last frame
LEMMA HeldReplaced ==
  ASSUME NEW s \in Seq(Frame), s # <<>>, NEW f \in Frame
  PROVE  LET t == [s EXCEPT ![Len(s)] = f]
         IN  /\ t \in Seq(Frame) /\ Len(t) = Len(s) /\ t[Len(s)] = f
             /\ \A i \in 1..Len(s) : i # Len(s) => t[i] = s[i]
             /\ Cardinality(HeldIn(t)) = Cardinality(HeldIn(s)) - Counts(s[Len(s)]) + Counts(f)
<1> DEFINE n == Len(s)
           t == [s EXCEPT ![n] = f]
           H == HeldIn(s)
<1>1. n \in Nat /\ n \in 1..n
  OBVIOUS
<1>2. t \in Seq(Frame) /\ Len(t) = n /\ t[n] = f /\ \A i \in 1..n : i # n => t[i] = s[i]
  BY <1>1
<1>3. IsFiniteSet(H) /\ Cardinality(H) \in Nat
  BY HeldFinite
<1>4. n \in H <=> Holds(s[n])
  BY <1>1 DEF HeldIn
<1>5. HeldIn(t) = IF Holds(f) THEN H \cup {n} ELSE H \ {n}
  BY <1>1, <1>2 DEF HeldIn
<1>6. Cardinality(H \cup {n}) = IF n \in H THEN Cardinality(H) ELSE Cardinality(H) + 1
  BY <1>3, FS_AddElement
<1>7. Cardinality(H \ {n}) = IF n \in H THEN Cardinality(H) - 1 ELSE Cardinality(H)
  BY <1>3, FS_RemoveElement
<1>8. Cardinality(HeldIn(t)) = Cardinality(H) - Counts(s[n]) + Counts(f)
  BY <1>3, <1>4, <1>5, <1>6, <1>7 DEF Counts
<1> QED  BY <1>2, <1>8

\* Pushing and popping one that does not hold it
LEMMA HeldPushed ==
  ASSUME NEW s \in Seq(Frame), NEW f \in Frame, ~Holds(f)
  PROVE  HeldIn(Append(s, f)) = HeldIn(s)
<1>1. Len(s) \in Nat /\ Len(Append(s, f)) = Len(s) + 1 /\ Append(s, f)[Len(s) + 1] = f
      /\ \A i \in 1..Len(s) : Append(s, f)[i] = s[i]
  OBVIOUS
<1> QED  BY <1>1 DEF HeldIn

LEMMA HeldPopped ==
  ASSUME NEW s \in Seq(Frame), s # <<>>
  PROVE  LET t == SubSeq(s, 1, Len(s) - 1)
         IN  /\ t \in Seq(Frame) /\ Len(s) \in Nat \ {0} /\ Len(t) = Len(s) - 1
             /\ \A i \in 1..(Len(s) - 1) : t[i] = s[i]
             /\ ~Holds(s[Len(s)]) => HeldIn(t) = HeldIn(s)
<1> DEFINE t == SubSeq(s, 1, Len(s) - 1)
<1>1. Len(s) \in Nat \ {0} /\ Len(s) - 1 \in Int
  BY EmptySeq
<1>2. \A i \in 1..(Len(s) - 1) : s[i] \in Frame
  BY <1>1
<1>3. /\ t \in Seq(Frame)
      /\ Len(t) = IF 1 <= Len(s) - 1 THEN Len(s) - 1 - 1 + 1 ELSE 0
      /\ \A i \in 1..(Len(s) - 1 - 1 + 1) : t[i] = s[1 + i - 1]
  BY <1>1, <1>2, SubSeqProperties
<1> HIDE DEF t
<1>4. Len(t) = Len(s) - 1 /\ \A i \in 1..(Len(s) - 1) : t[i] = s[i]
  <2>1. \A n \in Nat \ {0} : (IF 1 <= n - 1 THEN n - 1 - 1 + 1 ELSE 0) = n - 1
    OBVIOUS
  <2>2. ASSUME NEW i \in 1..(Len(s) - 1) PROVE t[i] = s[i]
    <3>1. i \in 1..(Len(s) - 1 - 1 + 1) /\ 1 + i - 1 = i
      BY <1>1
    <3> QED  BY <3>1, <1>3
  <2>3. Len(t) = Len(s) - 1
    BY <1>1, <1>3, <2>1
  <2> QED  BY <2>2, <2>3
<1>5. ~Holds(s[Len(s)]) => HeldIn(t) = HeldIn(s)
  BY <1>1, <1>4 DEF HeldIn
<1> QED  BY <1>1, <1>3, <1>4, <1>5 DEF t

LEMMA HoldingIs ==
  ASSUME NEW c \in Cpus
  PROVE  Holding(c) = Cardinality(HeldIn(stack[c]))
BY DEF Holding, HeldIn, Frames

\* ... and what the counts of one processor mean for the kernel lock
LEMMA HoldingType ==
  ASSUME TypeOK
  PROVE  \A c \in Cpus : Holding(c) \in Nat
BY HoldingIs, HeldFinite DEF TypeOK

-----------------------------------------------------------------------------
(* Stacks.  An action of processor c leaves the others alone, and changes  *)
(* c's stack at its end.                                                   *)

LEMMA TopType ==
  ASSUME TypeOK, NEW c \in Cpus, stack[c] # <<>>
  PROVE  /\ Len(stack[c]) \in Nat \ {0} /\ Len(stack[c]) \in Frames(c)
         /\ Top(c) = stack[c][Len(stack[c])] /\ Top(c) \in Frame
         /\ Above(c, Len(stack[c])) = spl[c]
<1>1. stack[c] \in Seq(Frame) /\ Len(stack[c]) \in Nat \ {0}
  BY EmptySeq DEF TypeOK
<1>2. stack[c][Len(stack[c])] \in Frame
  BY <1>1
<1> QED  BY <1>1, <1>2 DEF Frames, Top, Above

\* A processor that is left alone
LEMMA StackKept ==
  ASSUME NEW c \in Cpus, StackOk(c),
         stack'[c] = stack[c], spl'[c] = spl[c], ind'[c] = ind[c]
  PROVE  StackOk(c)' /\ Holding(c)' = Holding(c)
<1>1. Len(stack'[c]) = Len(stack[c]) /\ Frames(c)' = Frames(c) /\ Top(c)' = Top(c)
  BY DEF Frames, Top
<1>2. \A i \in Frames(c) : Above(c, i)' = Above(c, i)
  BY <1>1 DEF Above
<1>3. StackOk(c)'
  BY <1>1, <1>2 DEF StackOk
<1>4. Holding(c)' = Holding(c)
  BY <1>1 DEF Holding
<1> QED  BY <1>3, <1>4

\* A processor without frames
LEMMA StackEmpty ==
  ASSUME NEW c \in Cpus, stack[c] = <<>>
  PROVE  Holding(c) = 0 /\ Frames(c) = {} /\ (StackOk(c) <=> ~ind[c])
<1>1. Frames(c) = {}
  BY DEF Frames
<1>2. Holding(c) = 0
  BY <1>1, FS_EmptySet DEF Holding
<1> QED  BY <1>1, <1>2 DEF StackOk

\* Its last frame becomes f
LEMMA StepShape ==
  ASSUME TypeOK, NEW c \in Cpus, stack[c] # <<>>,
         NEW f \in Frame, f.old = Top(c).old, Step(c, f)
  PROVE  /\ stack' \in [Cpus -> Seq(Frame)] /\ \A d \in Cpus \ {c} : stack'[d] = stack[d]
         /\ Frames(c)' = Frames(c) /\ Top(c)' = f /\ stack'[c] # <<>>
         /\ \A i \in Frames(c) :
               /\ stack'[c][i] = IF i = Len(stack[c]) THEN f ELSE stack[c][i]
               /\ Above(c, i)' = IF i = Len(stack[c]) THEN spl'[c] ELSE Above(c, i)
         /\ Holding(c)' = Holding(c) - Counts(Top(c)) + Counts(f)
<1> DEFINE s == stack[c]
           n == Len(s)
           t == [s EXCEPT ![n] = f]
<1>1. s \in Seq(Frame) /\ n \in Nat \ {0} /\ n \in 1..n /\ Top(c) = s[n] /\ s # <<>>
  BY TopType DEF TypeOK, Frames
<1>2. stack' = [stack EXCEPT ![c] = t]
  BY DEF Step
<1>3. /\ t \in Seq(Frame) /\ Len(t) = n /\ t[n] = f
      /\ \A i \in 1..n : i # n => t[i] = s[i]
      /\ Cardinality(HeldIn(t)) = Cardinality(HeldIn(s)) - Counts(s[n]) + Counts(f)
  BY <1>1, HeldReplaced
<1> HIDE DEF t
<1>4. stack'[c] = t /\ stack' \in [Cpus -> Seq(Frame)] /\ \A d \in Cpus \ {c} : stack'[d] = stack[d]
  BY <1>2, <1>3 DEF TypeOK
<1>5. Holding(c)' = Holding(c) - Counts(Top(c)) + Counts(f)
  BY <1>1, <1>3, <1>4 DEF Holding, HeldIn, Frames
<1>6. Frames(c) = 1..n /\ Frames(c)' = 1..n /\ Top(c)' = f /\ stack'[c] # <<>>
  <2>1. Frames(c) = 1..n /\ Frames(c)' = 1..n /\ Top(c)' = f
    BY <1>3, <1>4 DEF Frames, Top
  <2>2. t # <<>>
    BY <1>1, <1>3
  <2> QED  BY <2>1, <2>2, <1>4
<1>7. \A i \in 1..n : Above(c, i)' = IF i = n THEN spl'[c] ELSE Above(c, i)
  <2>1. ASSUME NEW i \in 1..n, i = n PROVE Above(c, i)' = spl'[c]
    BY <2>1, <1>3, <1>4 DEF Above
  <2>2. ASSUME NEW i \in 1..n, i # n PROVE Above(c, i)' = Above(c, i)
    <3>1. i + 1 \in 1..n /\ Above(c, i) = s[i + 1].old /\ Above(c, i)' = t[i + 1].old
      BY <1>1, <1>3, <1>4, <2>2 DEF Above
    <3>2. CASE i + 1 = n
      BY <3>1, <3>2, <1>1, <1>3
    <3>3. CASE i + 1 # n
      BY <3>1, <3>3, <1>3
    <3> QED  BY <3>2, <3>3
  <2> QED  BY <2>1, <2>2
<1>8. \A i \in 1..n : t[i] = IF i = n THEN f ELSE s[i]
  BY <1>3
<1> QED  BY <1>4, <1>5, <1>6, <1>7, <1>8

\* ... so that the invariant of the stack is one of f
LEMMA StackStep ==
  ASSUME TypeOK, NEW c \in Cpus, StackOk(c), stack[c] # <<>>,
         NEW f \in Frame, f.old = Top(c).old, Step(c, f),
         FrameOk(c, f, spl'[c]), ind'[c] <=> ~Interruptible(f), ind'[c] \in BOOLEAN
  PROVE  StackOk(c)'
<1> DEFINE n == Len(stack[c])
<1>1. n \in Nat \ {0} /\ Frames(c) = 1..n /\ Top(c) = stack[c][n]
  BY TopType DEF Frames
<1>2. /\ Frames(c)' = Frames(c) /\ Top(c)' = f /\ stack'[c] # <<>>
      /\ \A i \in Frames(c) :
            /\ stack'[c][i] = IF i = n THEN f ELSE stack[c][i]
            /\ Above(c, i)' = IF i = n THEN spl'[c] ELSE Above(c, i)
  BY StepShape
<1> HIDE DEF n
<1>3. \A i \in Frames(c) : FrameOk(c, stack'[c][i], Above(c, i)')
  <2>1. ASSUME NEW i \in Frames(c), i # n PROVE FrameOk(c, stack'[c][i], Above(c, i)')
    BY <2>1, <1>2 DEF StackOk
  <2>2. ASSUME NEW i \in Frames(c), i = n PROVE FrameOk(c, stack'[c][i], Above(c, i)')
    BY <2>2, <1>2
  <2> QED  BY <2>1, <2>2
<1>4. ASSUME NEW i \in Frames(c), NEW j \in Frames(c), i < j
      PROVE  Interruptible(stack'[c][i]) /\ Above(c, i)' <= stack'[c][j].old
  <2>1. i # n
    BY <1>1, <1>4
  <2>2. stack'[c][i] = stack[c][i] /\ stack'[c][j].old = stack[c][j].old /\ Above(c, i)' = Above(c, i)
    BY <1>1, <1>2, <2>1
  <2> QED  BY <2>2, <1>4 DEF StackOk
<1>5. StackOk(c)'
  BY <1>2, <1>3, <1>4 DEF StackOk
<1> QED  BY <1>5

\* A frame f is pushed by an interrupt
LEMMA PushShape ==
  ASSUME TypeOK, NEW c \in Cpus, NEW f \in Frame, ~Holds(f),
         stack' = [stack EXCEPT ![c] = Append(@, f)], spl' = spl, f.old = spl[c]
  PROVE  /\ stack' \in [Cpus -> Seq(Frame)] /\ \A d \in Cpus \ {c} : stack'[d] = stack[d]
         /\ Frames(c)' = 1..(Len(stack[c]) + 1) /\ Top(c)' = f /\ stack'[c] # <<>>
         /\ \A i \in 1..(Len(stack[c]) + 1) :
               /\ stack'[c][i] = IF i = Len(stack[c]) + 1 THEN f ELSE stack[c][i]
               /\ Above(c, i)' = IF i = Len(stack[c]) + 1 THEN spl[c] ELSE Above(c, i)
         /\ Holding(c)' = Holding(c)
<1> DEFINE s == stack[c]
           n == Len(s)
           t == Append(s, f)
<1>1. s \in Seq(Frame) /\ n \in Nat /\ spl[c] \in Nat
  <2>1. s \in Seq(Frame) /\ spl[c] \in Levels
    BY DEF TypeOK
  <2> QED  BY <2>1 DEF Levels, HIGH
<1>2. t \in Seq(Frame) /\ Len(t) = n + 1 /\ t[n + 1] = f /\ (\A i \in 1..n : t[i] = s[i]) /\ t # <<>>
  BY <1>1
<1>3. HeldIn(t) = HeldIn(s)
  BY <1>1, HeldPushed
<1> HIDE DEF t
<1>4. stack'[c] = t /\ stack' \in [Cpus -> Seq(Frame)] /\ \A d \in Cpus \ {c} : stack'[d] = stack[d]
  BY <1>2 DEF TypeOK, t
<1>5. Holding(c)' = Holding(c)
  BY <1>3, <1>4 DEF Holding, HeldIn, Frames
<1>6. Frames(c) = 1..n /\ Frames(c)' = 1..(n + 1) /\ Top(c)' = f
  BY <1>2, <1>4 DEF Frames, Top
<1>7. \A i \in 1..(n + 1) : Above(c, i)' = IF i = n + 1 THEN spl[c] ELSE Above(c, i)
  <2>1. ASSUME NEW i \in 1..(n + 1), i = n + 1 PROVE Above(c, i)' = spl[c]
    <3>1. spl'[c] = spl[c] /\ Len(stack'[c]) = n + 1
      BY <1>2, <1>4
    <3> QED  BY <2>1, <3>1 DEF Above
  <2>2. ASSUME NEW i \in 1..n PROVE Above(c, i)' = Above(c, i)
    <3>1. CASE i = n
      BY <3>1, <1>1, <1>2, <1>4 DEF Above
    <3>2. CASE i # n
      BY <3>2, <1>1, <1>2, <1>4 DEF Above
    <3> QED  BY <3>1, <3>2
  <2>3. ASSUME NEW i \in 1..(n + 1) PROVE Above(c, i)' = IF i = n + 1 THEN spl[c] ELSE Above(c, i)
    <3>1. i # n + 1 => i \in 1..n
      BY <1>1
    <3> QED  BY <3>1, <2>1, <2>2
  <2> QED  BY <2>3
<1>8. \A i \in 1..(n + 1) : t[i] = IF i = n + 1 THEN f ELSE s[i]
  <2>1. \A i \in 1..(n + 1) : i # n + 1 => i \in 1..n
    BY <1>1
  <2> QED  BY <2>1, <1>2
<1> QED  BY <1>2, <1>4, <1>5, <1>6, <1>7, <1>8

LEMMA StackPush ==
  ASSUME TypeOK, NEW c \in Cpus, StackOk(c), ~ind[c],
         NEW f \in Frame, f.old = spl[c], ~Holds(f), ~Interruptible(f),
         stack' = [stack EXCEPT ![c] = Append(@, f)], spl' = spl,
         FrameOk(c, f, spl[c]), ind'[c] = TRUE
  PROVE  StackOk(c)'
<1> DEFINE s == stack[c]
           n == Len(s)
           t == stack'[c]
<1>1. s \in Seq(Frame) /\ n \in Nat /\ spl[c] \in Nat
  <2>1. s \in Seq(Frame) /\ spl[c] \in Levels
    BY DEF TypeOK
  <2> QED  BY <2>1 DEF Levels, HIGH
<1>2. /\ Frames(c)' = 1..(n + 1) /\ Top(c)' = f /\ t # <<>>
      /\ \A i \in 1..(n + 1) :
            /\ t[i] = IF i = n + 1 THEN f ELSE s[i]
            /\ Above(c, i)' = IF i = n + 1 THEN spl[c] ELSE Above(c, i)
  BY PushShape
<1>3. Frames(c) = 1..n /\ \A i \in 1..n : i \in 1..(n + 1) /\ i # n + 1
  BY <1>1 DEF Frames
<1>4. \A i \in 1..(n + 1) : i # n + 1 => i \in 1..n
  BY <1>1
<1> HIDE DEF t
<1>8. \A i \in 1..n : Interruptible(s[i]) /\ Above(c, i) <= spl[c]
  <2>1. CASE n = 0
    BY <2>1
  <2>2. CASE n # 0
    <3>1. s # <<>> /\ n \in 1..n /\ Above(c, n) = spl[c] /\ Top(c) = s[n]
      BY <2>2, <1>1 DEF Above, Top
    <3>2. Interruptible(s[n])
      BY <3>1 DEF StackOk
    <3>3. s[n].old <= spl[c] /\ s[n].old \in Nat
      <4>1. FrameOk(c, s[n], spl[c])
        BY <3>1, <1>3 DEF StackOk
      <4>2. s[n] \in Frame
        BY <3>1, <1>1
      <4>3. s[n].old \in Levels
        BY <4>2 DEF Frame
      <4> QED  BY <4>1, <4>3 DEF FrameOk, Levels, HIGH
    <3>4. ASSUME NEW i \in 1..n, i # n PROVE Interruptible(s[i]) /\ Above(c, i) <= spl[c]
      <4>1. i < n /\ Above(c, i) = s[i + 1].old /\ i + 1 \in 1..n
        BY <3>4, <1>1 DEF Above
      <4>2. Interruptible(s[i]) /\ Above(c, i) <= s[n].old
        BY <4>1, <3>1, <1>3 DEF StackOk
      <4>3. Above(c, i) \in Nat
        <5>1. \A k \in 1..n : s[k] \in Frame
          BY <1>1
        <5>2. s[i + 1].old \in Levels
          BY <5>1, <4>1 DEF Frame
        <5> QED  BY <4>1, <5>2 DEF Levels, HIGH
      <4> QED  BY <4>2, <4>3, <3>3, <1>1
    <3> QED  BY <3>1, <3>2, <3>4, <1>1
  <2> QED  BY <2>1, <2>2
<1>9. \A i \in 1..(n + 1) : FrameOk(c, t[i], Above(c, i)')
  <2>1. ASSUME NEW i \in 1..n PROVE FrameOk(c, t[i], Above(c, i)')
    BY <1>2, <1>3 DEF StackOk
  <2>2. ASSUME NEW i \in 1..(n + 1), i = n + 1 PROVE FrameOk(c, t[i], Above(c, i)')
    BY <2>2, <1>2
  <2> QED  BY <2>1, <2>2, <1>4
<1>10. ASSUME NEW i \in 1..(n + 1), NEW j \in 1..(n + 1), i < j
       PROVE  Interruptible(t[i]) /\ Above(c, i)' <= t[j].old
  <2>1. i \in 1..n /\ t[i] = s[i] /\ Above(c, i)' = Above(c, i)
    BY <1>1, <1>2, <1>10
  <2>2. CASE j = n + 1
    BY <2>1, <2>2, <1>2, <1>8
  <2>3. CASE j # n + 1
    <3>1. j \in 1..n /\ t[j] = s[j]
      BY <2>3, <1>2, <1>4
    <3> QED  BY <2>1, <3>1, <1>3, <1>10 DEF StackOk
  <2> QED  BY <2>2, <2>3
<1>11. StackOk(c)'
  BY <1>2, <1>9, <1>10 DEF StackOk, t
<1> QED  BY <1>11

\* The last frame is popped
LEMMA PopShape ==
  ASSUME TypeOK, NEW c \in Cpus, stack[c] # <<>>, ~Holds(Top(c)),
         stack' = [stack EXCEPT ![c] = SubSeq(@, 1, Len(@) - 1)], spl'[c] = Top(c).old
  PROVE  /\ stack' \in [Cpus -> Seq(Frame)] /\ \A d \in Cpus \ {c} : stack'[d] = stack[d]
         /\ Len(stack'[c]) = Len(stack[c]) - 1 /\ Frames(c)' = 1..(Len(stack[c]) - 1)
         /\ \A i \in 1..(Len(stack[c]) - 1) :
               i \in Frames(c) /\ stack'[c][i] = stack[c][i] /\ Above(c, i)' = Above(c, i)
         /\ Holding(c)' = Holding(c)
<1> DEFINE s == stack[c]
           n == Len(s)
           t == SubSeq(s, 1, n - 1)
<1>1. s \in Seq(Frame) /\ n \in Nat \ {0} /\ Top(c) = s[n] /\ s # <<>>
  BY TopType DEF TypeOK
<1>2. t \in Seq(Frame) /\ Len(t) = n - 1 /\ (\A i \in 1..(n - 1) : t[i] = s[i])
      /\ HeldIn(t) = HeldIn(s)
  BY <1>1, HeldPopped
<1> HIDE DEF t
<1>3. stack'[c] = t /\ stack' \in [Cpus -> Seq(Frame)] /\ \A d \in Cpus \ {c} : stack'[d] = stack[d]
  BY <1>2 DEF TypeOK, t
<1>4. Holding(c)' = Holding(c)
  BY <1>2, <1>3 DEF Holding, HeldIn, Frames
<1>5. Frames(c) = 1..n /\ Frames(c)' = 1..(n - 1)
  BY <1>2, <1>3 DEF Frames
<1>6. ASSUME NEW i \in 1..(n - 1) PROVE Above(c, i)' = Above(c, i)
  <2>1. CASE i = n - 1
    BY <2>1, <1>1, <1>2, <1>3 DEF Above
  <2>2. CASE i # n - 1
    <3>1. i + 1 \in 1..(n - 1) /\ i # n
      BY <2>2, <1>1
    <3> QED  BY <2>2, <3>1, <1>1, <1>2, <1>3 DEF Above
  <2> QED  BY <2>1, <2>2
<1>7. \A i \in 1..(n - 1) : i \in Frames(c)
  BY <1>1, <1>5
<1> QED  BY <1>2, <1>3, <1>4, <1>5, <1>6, <1>7

LEMMA StackPop ==
  ASSUME TypeOK, NEW c \in Cpus, StackOk(c), stack[c] # <<>>, ~Holds(Top(c)),
         stack' = [stack EXCEPT ![c] = SubSeq(@, 1, Len(@) - 1)],
         spl'[c] = Top(c).old, ind'[c] = FALSE
  PROVE  StackOk(c)'
<1> DEFINE s == stack[c]
           n == Len(s)
           t == stack'[c]
<1>1. s \in Seq(Frame) /\ n \in Nat \ {0} /\ Frames(c) = 1..n
  BY TopType DEF TypeOK, Frames
<1>2. /\ t \in Seq(Frame) /\ Len(t) = n - 1 /\ Frames(c)' = 1..(n - 1)
      /\ \A i \in 1..(n - 1) : i \in Frames(c) /\ t[i] = s[i] /\ Above(c, i)' = Above(c, i)
  BY PopShape
<1> HIDE DEF t
<1>3. ASSUME NEW i \in 1..(n - 1) PROVE FrameOk(c, t[i], Above(c, i)')
  <2>1. t[i] = s[i] /\ i \in Frames(c) /\ Above(c, i)' = Above(c, i)
    BY <1>2
  <2> QED  BY <2>1 DEF StackOk
<1>4. ASSUME NEW i \in 1..(n - 1), NEW j \in 1..(n - 1), i < j
      PROVE  Interruptible(t[i]) /\ Above(c, i)' <= t[j].old
  <2>1. t[i] = s[i] /\ t[j] = s[j] /\ i \in Frames(c) /\ j \in Frames(c)
        /\ Above(c, i)' = Above(c, i)
    BY <1>2
  <2> QED  BY <2>1, <1>4 DEF StackOk
<1>5. t # <<>> => Interruptible(Top(c)')
  <2>1. CASE n = 1
    BY <2>1, <1>2, EmptySeq
  <2>2. CASE n # 1
    <3>1. n - 1 \in 1..(n - 1) /\ n - 1 \in 1..n /\ n \in 1..n /\ n - 1 < n
      <4>1. \A k \in Nat \ {0} : k # 1 =>
                k - 1 \in 1..(k - 1) /\ k - 1 \in 1..k /\ k \in 1..k /\ k - 1 < k
        OBVIOUS
      <4> QED  BY <4>1, <2>2, <1>1
    <3>2. Top(c)' = s[n - 1]
      BY <3>1, <1>2 DEF Top, t
    <3> QED  BY <3>1, <3>2, <1>1 DEF StackOk
  <2> QED  BY <2>1, <2>2
<1>6. StackOk(c)'
  BY <1>2, <1>3, <1>4, <1>5 DEF StackOk, t
<1> QED  BY <1>6

-----------------------------------------------------------------------------
(* The invariant holds at the start, and every action keeps it: first what *)
(* an action of c's frames, of base code or of the hardware leaves alone.  *)

LEMMA OthersKept ==
  ASSUME IntInv, NEW c \in Cpus,
         \A d \in Cpus \ {c} : stack'[d] = stack[d] /\ spl'[d] = spl[d] /\ ind'[d] = ind[d]
  PROVE  \A d \in Cpus \ {c} : StackOk(d)' /\ Holding(d)' = Holding(d)
BY StackKept DEF IntInv

LEMMA AllKept ==
  ASSUME TypeOK, IntInv, UNCHANGED <<spl, ind, stack, klock>>
  PROVE  (\A d \in Cpus : StackOk(d)') /\ LockOk'
<1>1. \A d \in Cpus : StackOk(d)' /\ Holding(d)' = Holding(d)
  BY StackKept DEF IntInv
<1>2. LockOk'
  BY <1>1 DEF IntInv, LockOk, KernelLockBalanced
<1> QED  BY <1>1, <1>2

LEMMA LockKept ==
  ASSUME IntInv, klock' = klock, \A d \in Cpus : Holding(d)' = Holding(d)
  PROVE  LockOk'
BY DEF IntInv, LockOk, KernelLockBalanced

\* The last frame of c becomes f
LEMMA FrameStep ==
  ASSUME TypeOK, IntInv, NEW c \in Cpus, stack[c] # <<>>,
         NEW f \in Frame, f.old = Top(c).old, Step(c, f),
         spl' \in [Cpus -> Levels], ind' \in [Cpus -> BOOLEAN],
         \A d \in Cpus \ {c} : spl'[d] = spl[d] /\ ind'[d] = ind[d],
         FrameOk(c, f, spl'[c]), ind'[c] <=> ~Interruptible(f)
  PROVE  /\ stack' \in [Cpus -> Seq(Frame)]
         /\ \A d \in Cpus : StackOk(d)'
         /\ \A d \in Cpus \ {c} : Holding(d)' = Holding(d)
         /\ Holding(c)' = Holding(c) - Counts(Top(c)) + Counts(f)
         /\ (Holds(f) <=> Holds(Top(c))) /\ klock' = klock => LockOk'
<1>1. StackOk(c) /\ ind'[c] \in BOOLEAN
  BY DEF IntInv
<1>2. /\ stack' \in [Cpus -> Seq(Frame)]
      /\ \A d \in Cpus \ {c} : stack'[d] = stack[d]
      /\ StackOk(c)'
      /\ Holding(c)' = Holding(c) - Counts(Top(c)) + Counts(f)
  BY <1>1, StackStep, StepShape
<1>3. \A d \in Cpus \ {c} : StackOk(d)' /\ Holding(d)' = Holding(d)
  BY <1>2, OthersKept
<1>4. \A d \in Cpus : StackOk(d)'
  BY <1>2, <1>3
<1>5. ASSUME Holds(f) <=> Holds(Top(c)), klock' = klock PROVE LockOk'
  <2>1. Holding(c)' = Holding(c)
    BY <1>2, <1>5, HoldingType DEF Counts
  <2> QED  BY <2>1, <1>3, <1>5, LockKept
<1> QED  BY <1>2, <1>3, <1>4, <1>5

\* What is known of the last frame
LEMMA TopOk ==
  ASSUME TypeOK, IntInv, NEW c \in Cpus, stack[c] # <<>>
  PROVE  /\ Top(c) \in Frame /\ FrameOk(c, Top(c), spl[c])
         /\ (ind[c] <=> ~Interruptible(Top(c)))
         /\ Top(c).at \in Pc /\ Top(c).old \in 0..7 /\ Top(c).cur \in 0..7 /\ spl[c] \in 0..7
         /\ Top(c).ipi \in SUBSET Bits /\ Top(c).unmasked \in BOOLEAN
<1>1. Top(c) \in Frame /\ FrameOk(c, Top(c), spl[c]) /\ (ind[c] <=> ~Interruptible(Top(c)))
  BY TopType DEF IntInv, StackOk
<1>2. spl[c] \in Levels
  BY DEF TypeOK
<1> QED  BY <1>1, <1>2 DEF Frame, Levels, HIGH

LEMMA InitInv == Init => TypeOK /\ IntInv
<1> SUFFICES ASSUME Init PROVE TypeOK /\ IntInv
  OBVIOUS
<1>1. TypeOK
  <2>1. \A c \in Cpus : <<>> \in Seq(Frame)
    BY EmptySeq
  <2>2. HIGH \in Levels /\ 0 \in Nat
    BY DEF HIGH, Levels
  <2> QED  BY <2>1, <2>2 DEF Init, TypeOK, Quiet
<1>2. \A c \in Cpus : stack[c] = <<>> /\ ~ind[c]
  BY DEF Init
<1>3. \A c \in Cpus : StackOk(c) /\ Holding(c) = 0
  BY <1>2, StackEmpty
<1>4. LockOk
  BY <1>3, NobodyAssumption DEF LockOk, KernelLockBalanced, Init
<1>5. SendOk
  BY DEF SendOk, Init, Quiet
<1> QED  BY <1>1, <1>3, <1>4, <1>5 DEF IntInv

\* setipl() and raiseipl() run in base code, whose processor has no frames.
LEMMA PriorityStep ==
  ASSUME TypeOK, IntInv, NEW c \in Cpus, NEW l \in BaseLevels, SetIpl(c, l) \/ RaiseIpl(c, l)
  PROVE  TypeOK' /\ IntInv'
<1>1. /\ stack[c] = <<>> /\ spl' = [spl EXCEPT ![c] = l]
      /\ UNCHANGED <<ind, stack, raised, ci_ipi, send, klock>>
  BY DEF SetIpl, RaiseIpl, InBase
<1>2. TypeOK'
  BY <1>1, BaseAssumption DEF TypeOK, raised
<1>3. stack'[c] = <<>> /\ ~ind'[c] /\ Holding(c) = 0
  BY <1>1, StackEmpty DEF IntInv
<1>4. StackOk(c)' /\ Holding(c)' = 0
  BY <1>3, FS_EmptySet DEF StackOk, Holding, Frames
<1>5. \A d \in Cpus \ {c} : StackOk(d)' /\ Holding(d)' = Holding(d)
  BY <1>1, OthersKept DEF TypeOK
<1>6. LockOk'
  BY <1>1, <1>3, <1>4, <1>5, LockKept
<1>7. SendOk'
  BY <1>1 DEF IntInv, SendOk
<1> QED  BY <1>2, <1>4, <1>5, <1>6, <1>7 DEF IntInv

\* Base code enters and leaves the kernel.
LEMMA KernelStep ==
  ASSUME TypeOK, IntInv, NEW c \in Cpus, KernelEnter(c) \/ KernelLeave(c)
  PROVE  TypeOK' /\ IntInv'
<1>1. stack[c] = <<>> /\ UNCHANGED <<spl, ind, stack, raised, ci_ipi, send>>
  BY DEF KernelEnter, KernelLeave, InBase
<1>2. \A d \in Cpus : StackOk(d)' /\ Holding(d)' = Holding(d) /\ Holding(d) \in Nat
  BY <1>1, StackKept, HoldingType DEF IntInv
<1>3. Holding(c) = 0 /\ klock.depth \in Nat
  BY <1>1, StackEmpty DEF TypeOK
<1>4. klock' \in [owner : Cpus \cup {Nobody}, depth : Nat] /\ LockOk'
  <2>1. CASE KernelEnter(c)
    <3>1. klock.depth = 0 /\ klock.owner = Nobody /\ klock' = [owner |-> c, depth |-> 1]
      BY <2>1, <1>3 DEF KernelEnter, Locked, IntInv, LockOk
    <3>2. \A d \in Cpus : Holding(d) = 0
      BY <3>1, NobodyAssumption DEF IntInv, LockOk, KernelLockBalanced
    <3>3. \A d \in Cpus : Holding(d)' = 0
      BY <3>2, <1>2
    <3> QED  BY <3>1, <3>3, NobodyAssumption DEF LockOk, KernelLockBalanced
  <2>2. CASE KernelLeave(c)
    <3>1. klock.owner = c /\ klock.depth = 1
      BY <2>2, <1>3, NobodyAssumption DEF KernelLeave, IntInv, LockOk, KernelLockBalanced
    <3>2. klock' = [owner |-> Nobody, depth |-> 0]
      BY <2>2, <3>1 DEF KernelLeave, Unlocked
    <3>3. \A d \in Cpus : Holding(d)' = 0
      BY <3>1, <1>2, <1>3 DEF IntInv, LockOk, KernelLockBalanced
    <3> QED  BY <3>2, <3>3, NobodyAssumption DEF LockOk, KernelLockBalanced
  <2> QED  BY <2>1, <2>2
<1>5. TypeOK'
  BY <1>1, <1>4 DEF TypeOK, raised
<1>6. SendOk'
  BY <1>1 DEF IntInv, SendOk
<1> QED  BY <1>2, <1>4, <1>5, <1>6 DEF IntInv

\* Requests: an IPI is begun, or the hardware raises an interrupt.
LEMMA RequestStep ==
  ASSUME TypeOK, IntInv, Request
  PROVE  TypeOK' /\ IntInv'
<1>1. UNCHANGED <<spl, ind, stack, klock>>
  BY DEF Request, Broadcast, Send, RaiseClock, RaiseDevice
<1>2. TypeOK' /\ SendOk'
  <2>1. ASSUME NEW c \in Cpus, RaiseClock(c) PROVE TypeOK' /\ SendOk'
    BY <2>1 DEF RaiseClock, TypeOK, IntInv, SendOk
  <2>2. ASSUME NEW l \in Devices, RaiseDevice(l) PROVE TypeOK' /\ SendOk'
    BY <2>2 DEF RaiseDevice, TypeOK, IntInv, SendOk
  <2>3. ASSUME NEW c \in Cpus, NEW b \in Bits, NEW T \in SUBSET Cpus, Send(c, b, T)
        PROVE  TypeOK' /\ SendOk'
    <3>1. /\ UNCHANGED <<spl, ind, stack, raised, ci_ipi, klock>>
          /\ send' = [send EXCEPT ![c] = [at |-> "test", bit |-> b, left |-> T]]
      BY <2>3 DEF Send
    <3> QED  BY <3>1 DEF TypeOK, IntInv, SendOk, raised
  <2>4. \A c \in Cpus, b \in Bits : Broadcast(c, b) => TypeOK' /\ SendOk'
    BY <2>3 DEF Broadcast
  <2>5. \A c \in Cpus, b \in Bits, t \in Cpus : Send(c, b, {t}) => TypeOK' /\ SendOk'
    BY <2>3
  <2> QED  BY <2>1, <2>2, <2>4, <2>5 DEF Request
<1> QED  BY <1>1, <1>2, AllKept DEF IntInv

\* A processor in the middle of sending has a target, and sends an IPI.
LEMMA SenderStep ==
  ASSUME TypeOK, IntInv, NEW c \in Cpus, Sender(c)
  PROVE  TypeOK' /\ IntInv'
<1>1. UNCHANGED <<spl, ind, stack, klock, line, clk>>
  BY DEF Sender, SendTest, SendSet, SendSwi, raised
<1>2. /\ send[c].left # {} /\ Target(c) \in send[c].left /\ Target(c) \in Cpus
      /\ send[c].bit \in Bits /\ send[c].left \subseteq Cpus
  <2>1. send[c].left # {} /\ send[c].left \subseteq Cpus
    BY DEF Sender, SendTest, SendSet, SendSwi, Sending, TypeOK
  <2> QED  BY <2>1 DEF Target, IntInv, SendOk
<1> DEFINE S == [at : {"test", "set", "swi"}, bit : Bits \cup {Nobody}, left : SUBSET Cpus]
<1> DEFINE r == send[c]
           L == r.left \ {Target(c)}
<1>3. r \in S /\ send \in [Cpus -> S]
  BY DEF TypeOK
<1>4. /\ Sent(c, Target(c)) \in S
      /\ Sent(c, Target(c)).left # {} => Sent(c, Target(c)).bit \in Bits
  <2>1. CASE L = {}
    <3>1. Sent(c, Target(c)) = [at |-> "test", bit |-> Nobody, left |-> {}]
      BY <2>1 DEF Sent, Quiet
    <3> QED  BY <3>1
  <2>2. CASE L # {}
    <3>1. Sent(c, Target(c)) = [r EXCEPT !.at = "test", !.left = L]
      BY <2>2 DEF Sent
    <3>2. Sent(c, Target(c)) = [at |-> "test", bit |-> r.bit, left |-> L]
      BY <3>1, <1>3
    <3> QED  BY <3>2, <1>2
  <2> QED  BY <2>1, <2>2
<1>5. \A p \in {"test", "set", "swi"} :
         [r EXCEPT !.at = p] \in S /\ [r EXCEPT !.at = p].bit \in Bits
  BY <1>2, <1>3
<1>6. /\ send' \in [Cpus -> S] /\ SendOk'
      /\ ci_ipi' \in [Cpus -> SUBSET Bits] /\ swi' \subseteq Cpus
  <2>1. CASE SendTest(c)
    <3>1. /\ UNCHANGED <<ci_ipi, swi>>
          /\ \/ send' = [send EXCEPT ![c] = Sent(c, Target(c))]
             \/ send' = [send EXCEPT ![c] = [send[c] EXCEPT !.at = "set"]]
      BY <2>1 DEF SendTest, raised
    <3>2. \A p \in {Sent(c, Target(c)), [r EXCEPT !.at = "set"]} :
             p \in S /\ (p.left # {} => p.bit \in Bits)
      BY <1>4, <1>5
    <3>3. PICK p \in S : send' = [send EXCEPT ![c] = p] /\ (p.left # {} => p.bit \in Bits)
      BY <3>1, <3>2
    <3>4. send' \in [Cpus -> S] /\ SendOk'
      BY <3>3, <1>3 DEF IntInv, SendOk
    <3> QED  BY <3>1, <3>4 DEF TypeOK
  <2>2. CASE SendSet(c)
    <3>1. /\ swi' = swi
          /\ ci_ipi' = [ci_ipi EXCEPT ![Target(c)] = ci_ipi[Target(c)] \cup {send[c].bit}]
          /\ send' = [send EXCEPT ![c] = [send[c] EXCEPT !.at = "swi"]]
      BY <2>2 DEF SendSet, raised
    <3> QED  BY <3>1, <1>2, <1>3, <1>5 DEF TypeOK, IntInv, SendOk
  <2>3. CASE SendSwi(c)
    <3>1. /\ ci_ipi' = ci_ipi /\ swi' = swi \cup {Target(c)}
          /\ send' = [send EXCEPT ![c] = Sent(c, Target(c))]
      BY <2>3 DEF SendSwi
    <3> QED  BY <3>1, <1>2, <1>3, <1>4 DEF TypeOK, IntInv, SendOk
  <2> QED  BY <2>1, <2>2, <2>3 DEF Sender
<1>7. TypeOK'
  BY <1>1, <1>6 DEF TypeOK
<1> QED  BY <1>1, <1>6, <1>7, AllKept DEF IntInv

\* An interrupt is taken: a frame at "read" is pushed, at the priority of the processor.
LEMMA TakeStep ==
  ASSUME TypeOK, IntInv, NEW c \in Cpus, Take(c)
  PROVE  TypeOK' /\ IntInv'
<1> DEFINE f == [at |-> "read", old |-> spl[c], cur |-> 0, ipi |-> {}, unmasked |-> FALSE]
<1>1. /\ ~ind[c] /\ ind' = [ind EXCEPT ![c] = TRUE]
      /\ stack' = [stack EXCEPT ![c] = Append(@, f)]
      /\ UNCHANGED <<spl, raised, ci_ipi, send, klock>>
  BY DEF Take
<1>2. f \in Frame /\ f.old = spl[c] /\ ~Holds(f) /\ ~Interruptible(f) /\ FrameOk(c, f, spl[c])
  <2>1. spl[c] \in Levels /\ 0 \in Levels /\ "read" \in Pc
    BY DEF TypeOK, Levels, HIGH, Pc
  <2>2. f \in Frame
    BY <2>1 DEF Frame
  <2> QED  BY <2>1, <2>2 DEF Holds, Interruptible, FrameOk, Serving, Levels, HIGH
<1> HIDE DEF f
<1>3. ind'[c] = TRUE /\ ind' \in [Cpus -> BOOLEAN] /\ StackOk(c)
      /\ \A d \in Cpus \ {c} : ind'[d] = ind[d]
  BY <1>1 DEF TypeOK, IntInv
<1>4. /\ stack' \in [Cpus -> Seq(Frame)] /\ \A d \in Cpus \ {c} : stack'[d] = stack[d]
      /\ StackOk(c)' /\ Holding(c)' = Holding(c)
  BY <1>1, <1>2, <1>3, StackPush, PushShape
<1>5. \A d \in Cpus \ {c} : StackOk(d)' /\ Holding(d)' = Holding(d)
  BY <1>1, <1>3, <1>4, OthersKept
<1>6. LockOk'
  BY <1>1, <1>4, <1>5, LockKept
<1>7. TypeOK' /\ SendOk'
  BY <1>1, <1>3, <1>4 DEF TypeOK, IntInv, SendOk, raised
<1> QED  BY <1>4, <1>5, <1>6, <1>7 DEF IntInv

\* A frame returns: the priority it saved comes back, and interrupts are enabled.
LEMMA ReturnStep ==
  ASSUME TypeOK, IntInv, NEW c \in Cpus, Return(c)
  PROVE  TypeOK' /\ IntInv'
<1>1. /\ stack[c] # <<>> /\ Top(c).at = "ret"
      /\ spl' = [spl EXCEPT ![c] = Top(c).old] /\ ind' = [ind EXCEPT ![c] = FALSE]
      /\ stack' = [stack EXCEPT ![c] = SubSeq(@, 1, Len(@) - 1)]
      /\ UNCHANGED <<raised, ci_ipi, send, klock>>
  BY DEF Return, At
<1>2. Top(c).old \in Levels /\ ~Holds(Top(c)) /\ StackOk(c)
  BY <1>1, TopOk DEF Levels, HIGH, Holds, IntInv
<1>3. /\ ind'[c] = FALSE /\ ind' \in [Cpus -> BOOLEAN]
      /\ spl'[c] = Top(c).old /\ spl' \in [Cpus -> Levels]
      /\ \A d \in Cpus \ {c} : ind'[d] = ind[d] /\ spl'[d] = spl[d]
  BY <1>1, <1>2 DEF TypeOK
<1>4. /\ stack' \in [Cpus -> Seq(Frame)] /\ \A d \in Cpus \ {c} : stack'[d] = stack[d]
      /\ StackOk(c)' /\ Holding(c)' = Holding(c)
  BY <1>1, <1>2, <1>3, StackPop, PopShape
<1>5. \A d \in Cpus \ {c} : StackOk(d)' /\ Holding(d)' = Holding(d)
  BY <1>3, <1>4, OthersKept
<1>6. LockOk'
  BY <1>1, <1>4, <1>5, LockKept
<1>7. TypeOK' /\ SendOk'
  BY <1>1, <1>3, <1>4 DEF TypeOK, IntInv, SendOk, raised
<1> QED  BY <1>4, <1>5, <1>6, <1>7 DEF IntInv

\* The other actions of luna88k_ext_int() change the last frame: what is left to show
\* is what the frame becomes, and that the registers and the lock keep their types.
LEMMA FrameInv ==
  ASSUME TypeOK, IntInv, NEW c \in Cpus, stack[c] # <<>>,
         NEW f \in Frame, f.old = Top(c).old, Step(c, f),
         spl' \in [Cpus -> Levels], ind' \in [Cpus -> BOOLEAN],
         \A d \in Cpus \ {c} : spl'[d] = spl[d] /\ ind'[d] = ind[d],
         FrameOk(c, f, spl'[c]), ind'[c] <=> ~Interruptible(f),
         line' \subseteq line, clk' \subseteq clk, swi' \subseteq swi,
         ci_ipi' \in [Cpus -> SUBSET Bits], send' = send,
         klock' = klock, Holds(f) <=> Holds(Top(c))
  PROVE  TypeOK' /\ IntInv'
<1>1. stack' \in [Cpus -> Seq(Frame)] /\ (\A d \in Cpus : StackOk(d)') /\ LockOk'
  BY FrameStep
<1>2. TypeOK' /\ SendOk'
  BY <1>1 DEF TypeOK, IntInv, SendOk
<1> QED  BY <1>1, <1>2 DEF IntInv

LEMMA IpiStep ==
  ASSUME TypeOK, IntInv, NEW c \in Cpus, IpiRead(c) \/ IpiReset(c) \/ IpiClear(c)
  PROVE  TypeOK' /\ IntInv'
<1> DEFINE g == Top(c)
<1>1. PICK f : /\ Step(c, f) /\ f \in {[g EXCEPT !.ipi = ci_ipi[c], !.at = "swi"],
                                       [g EXCEPT !.at = "clear"],
                                       [g EXCEPT !.at = "read", !.ipi = {}]}
               /\ stack[c] # <<>> /\ g.at \in {"ipi", "swi", "clear"}
  BY DEF IpiRead, IpiReset, IpiClear, At
<1>2. /\ spl' = spl /\ ind' = ind /\ line' = line /\ clk' = clk /\ swi' \subseteq swi
      /\ ci_ipi' \in [Cpus -> SUBSET Bits] /\ send' = send /\ klock' = klock
  BY DEF IpiRead, IpiReset, IpiClear, raised, TypeOK
<1>3. /\ g \in Frame /\ FrameOk(c, g, spl[c]) /\ (ind[c] <=> ~Interruptible(g))
      /\ ci_ipi[c] \in SUBSET Bits
  BY <1>1, TopOk DEF TypeOK
<1> HIDE DEF g
<1>4. /\ f \in Frame /\ f.old = g.old /\ f.unmasked = g.unmasked
      /\ f.at \in {"swi", "clear", "read"}
  BY <1>1, <1>3 DEF Frame, Pc
<1>5. /\ FrameOk(c, f, spl[c]) /\ ~Interruptible(f) /\ ~Interruptible(g)
      /\ ~Holds(f) /\ ~Holds(g)
  BY <1>1, <1>3, <1>4 DEF FrameOk, Interruptible, Holds, Serving
<1> QED  BY <1>1, <1>2, <1>3, <1>4, <1>5, FrameInv DEF g, TypeOK

\* The status is read: on entry a frame is entered with interrupts disabled, and
\* whatever it finds is above the priority of the processor, which it saved.
LEMMA ReadStep ==
  ASSUME TypeOK, IntInv, NEW c \in Cpus, ReadStatus(c)
  PROVE  TypeOK' /\ IntInv'
<1> DEFINE g == Top(c)
           level == Status(c)
           f == [g EXCEPT !.cur = level, !.at = Following(c, level)]
<1>1. /\ stack[c] # <<>> /\ g.at = "read" /\ Step(c, f)
      /\ UNCHANGED <<spl, ind, line, clk, swi, ci_ipi, send, klock>>
  BY DEF ReadStatus, At, raised
<1>2. g \in Frame /\ FrameOk(c, g, spl[c]) /\ (ind[c] <=> ~Interruptible(g)) /\ g.old \in 0..7
      /\ spl[c] \in 0..7
  BY <1>1, TopOk
<1>3. /\ level \in Levels /\ level \in 0..6
      /\ level # 0 => /\ level \in 1..CLOCK /\ (level = SOFTINT \/ spl[c] < level)
                      /\ level \in Devices => c = Master
  BY StatusShows, StatusType
<1>4. Following(c, level) = IF level = 0 THEN "out" ELSE IF level = SOFTINT THEN "ipi"
                            ELSE IF g.old < SCHED THEN "lock" ELSE "setipl"
  BY DEF Following
<1> HIDE DEF g, level
<1>5. /\ f \in Frame /\ f.old = g.old /\ f.unmasked = g.unmasked /\ f.cur = level
      /\ f.at = Following(c, level)
  BY <1>2, <1>3, <1>4 DEF Frame, Pc
<1> HIDE DEF f
<1>6. ~g.unmasked /\ spl[c] = g.old
  BY <1>1, <1>2 DEF FrameOk
<1>7. ~Interruptible(f) /\ ~Interruptible(g) /\ ~Holds(g) /\ ~Holds(f)
  BY <1>1, <1>4, <1>5, <1>6 DEF Interruptible, Holds
<1>8. FrameOk(c, f, spl[c])
  BY <1>2, <1>3, <1>4, <1>5, <1>6 DEF FrameOk, Serving
<1> QED  BY <1>1, <1>2, <1>5, <1>7, <1>8, FrameInv DEF g, TypeOK

\* The head of the loop sets the priority to the higher of the level it serves and the
\* saved one, and enables interrupts.
LEMMA SetLevelStep ==
  ASSUME TypeOK, IntInv, NEW c \in Cpus, SetLevel(c)
  PROVE  TypeOK' /\ IntInv'
<1> DEFINE g == Top(c)
           f == [g EXCEPT !.at = "dispatch", !.unmasked = TRUE]
           a == Highest({g.cur, g.old})
<1>1. /\ stack[c] # <<>> /\ g.at = "setipl" /\ Step(c, f)
      /\ spl' = [spl EXCEPT ![c] = a] /\ ind' = [ind EXCEPT ![c] = ind[c] /\ g.unmasked]
      /\ UNCHANGED <<line, clk, swi, ci_ipi, send, klock>>
  BY DEF SetLevel, At, raised
<1>2. g \in Frame /\ FrameOk(c, g, spl[c]) /\ (ind[c] <=> ~Interruptible(g)) /\ g.old \in 0..7
      /\ g.cur \in 0..7 /\ g.unmasked \in BOOLEAN
  BY <1>1, TopOk
<1>3. a \in 0..7 /\ a >= g.cur /\ a >= g.old
  <2>1. {g.cur, g.old} \in SUBSET Levels
    BY <1>2 DEF Levels, HIGH
  <2> QED  BY <2>1, <1>2, HighestOf
<1> HIDE DEF g, a
<1>4. f \in Frame /\ f.old = g.old /\ f.unmasked = TRUE /\ f.cur = g.cur /\ f.at = "dispatch"
  BY <1>2 DEF Frame, Pc
<1> HIDE DEF f
<1>5. spl' \in [Cpus -> Levels] /\ ind' \in [Cpus -> BOOLEAN] /\ spl'[c] = a
      /\ ind'[c] = (ind[c] /\ g.unmasked)
      /\ \A d \in Cpus \ {c} : spl'[d] = spl[d] /\ ind'[d] = ind[d]
  <2>1. a \in Levels /\ (ind[c] /\ g.unmasked) \in BOOLEAN
    BY <1>3 DEF Levels, HIGH
  <2> QED  BY <2>1, <1>1 DEF TypeOK
<1>6. Interruptible(f) /\ ~ind'[c] /\ (Holds(f) <=> Holds(g))
  BY <1>1, <1>2, <1>4, <1>5 DEF Interruptible, Holds
<1>7. FrameOk(c, f, a)
  BY <1>1, <1>2, <1>3, <1>4 DEF FrameOk, Serving
<1> QED  BY <1>1, <1>2, <1>4, <1>5, <1>6, <1>7, FrameInv DEF g, TypeOK

\* The switch, and the end of luna88k_ext_int(): the priority stays what it is.
LEMMA DispatchStep ==
  ASSUME TypeOK, IntInv, NEW c \in Cpus, Dispatch(c)
  PROVE  TypeOK' /\ IntInv'
<1> DEFINE g == Top(c)
           f == [g EXCEPT !.at = "reread"]
<1>1. /\ stack[c] # <<>> /\ g.at = "dispatch" /\ Step(c, f)
      /\ line' \subseteq line /\ clk' \subseteq clk
      /\ UNCHANGED <<spl, ind, swi, ci_ipi, send, klock>>
  BY DEF Dispatch, At
<1>2. g \in Frame /\ FrameOk(c, g, spl[c]) /\ (ind[c] <=> ~Interruptible(g))
  BY <1>1, TopOk
<1> HIDE DEF g
<1>3. f \in Frame /\ f.old = g.old /\ f.unmasked = g.unmasked /\ f.cur = g.cur /\ f.at = "reread"
  BY <1>2 DEF Frame, Pc
<1> HIDE DEF f
<1>4. (Interruptible(f) <=> Interruptible(g)) /\ (Holds(f) <=> Holds(g))
  BY <1>1, <1>3 DEF Interruptible, Holds
<1>5. FrameOk(c, f, spl[c])
  BY <1>1, <1>2, <1>3 DEF FrameOk, Serving
<1> QED  BY <1>1, <1>2, <1>3, <1>4, <1>5, FrameInv DEF g, TypeOK

LEMMA DisableStep ==
  ASSUME TypeOK, IntInv, NEW c \in Cpus, DisableInterrupts(c)
  PROVE  TypeOK' /\ IntInv'
<1> DEFINE g == Top(c)
           f == [g EXCEPT !.at = "ret"]
<1>1. /\ stack[c] # <<>> /\ g.at = "out" /\ Step(c, f) /\ ind' = [ind EXCEPT ![c] = TRUE]
      /\ UNCHANGED <<spl, line, clk, swi, ci_ipi, send, klock>>
  BY DEF DisableInterrupts, At, raised
<1>2. g \in Frame /\ FrameOk(c, g, spl[c])
  BY <1>1, TopOk
<1> HIDE DEF g
<1>3. f \in Frame /\ f.old = g.old /\ f.unmasked = g.unmasked /\ f.cur = g.cur /\ f.at = "ret"
  BY <1>2 DEF Frame, Pc
<1> HIDE DEF f
<1>4. ~Interruptible(f) /\ ~Holds(f) /\ ~Holds(g)
  BY <1>1, <1>3 DEF Interruptible, Holds
<1>5. FrameOk(c, f, spl[c])
  BY <1>1, <1>2, <1>3 DEF FrameOk, Serving
<1>6. ind' \in [Cpus -> BOOLEAN] /\ ind'[c] = TRUE /\ \A d \in Cpus \ {c} : ind'[d] = ind[d]
  BY <1>1 DEF TypeOK
<1> QED  BY <1>1, <1>2, <1>3, <1>4, <1>5, <1>6, FrameInv DEF g, TypeOK

\* The tail of the loop: another level is above the priority; or the lock is given
\* back, if it was taken.
LEMMA RereadStep ==
  ASSUME TypeOK, IntInv, NEW c \in Cpus, Reread(c)
  PROVE  TypeOK' /\ IntInv'
<1> DEFINE g == Top(c)
           level == Status(c)
           p == IF level # 0 THEN "setipl" ELSE IF g.old < SCHED THEN "unlock" ELSE "out"
           f == [g EXCEPT !.cur = level, !.at = p]
<1>1. /\ stack[c] # <<>> /\ g.at = "reread" /\ Step(c, f)
      /\ UNCHANGED <<spl, ind, line, clk, swi, ci_ipi, send, klock>>
  BY DEF Reread, At, raised
<1>2. g \in Frame /\ FrameOk(c, g, spl[c]) /\ (ind[c] <=> ~Interruptible(g)) /\ g.old \in 0..7
      /\ spl[c] \in 0..7
  BY <1>1, TopOk
<1>3. /\ level \in Levels /\ level \in 0..6
      /\ level # 0 => /\ level \in 1..CLOCK /\ (level = SOFTINT \/ spl[c] < level)
                      /\ level \in Devices => c = Master
  BY StatusShows, StatusType
<1> HIDE DEF g, level
<1>4. /\ f \in Frame /\ f.old = g.old /\ f.unmasked = g.unmasked /\ f.cur = level
      /\ f.at = p
  BY <1>2, <1>3 DEF Frame, Pc
<1> HIDE DEF f
<1>5. g.unmasked /\ g.old <= spl[c]
  BY <1>1, <1>2 DEF FrameOk
<1>6. Interruptible(f) /\ Interruptible(g)
  BY <1>1, <1>4, <1>5 DEF Interruptible
<1>7. Holds(f) <=> Holds(g)
  BY <1>1, <1>2, <1>4 DEF Holds
<1>8. FrameOk(c, f, spl[c])
  BY <1>2, <1>3, <1>4, <1>5 DEF FrameOk, Serving
<1> QED  BY <1>1, <1>2, <1>4, <1>6, <1>7, <1>8, FrameInv DEF g, TypeOK

\* __mp_lock(): one more frame holds the lock, which is free or already this
\* processor's.
LEMMA AcquireStep ==
  ASSUME TypeOK, IntInv, NEW c \in Cpus, AcquireLock(c)
  PROVE  TypeOK' /\ IntInv'
<1> DEFINE g == Top(c)
           f == [g EXCEPT !.at = "setipl"]
<1>1. /\ stack[c] # <<>> /\ g.at = "lock" /\ Step(c, f) /\ MayLock(c) /\ klock' = Locked(c)
      /\ UNCHANGED <<spl, ind, line, clk, swi, ci_ipi, send>>
  BY DEF AcquireLock, At, raised
<1>2. g \in Frame /\ FrameOk(c, g, spl[c]) /\ (ind[c] <=> ~Interruptible(g))
  BY <1>1, TopOk
<1> HIDE DEF g
<1>3. f \in Frame /\ f.old = g.old /\ f.unmasked = g.unmasked /\ f.cur = g.cur /\ f.at = "setipl"
  BY <1>2 DEF Frame, Pc
<1> HIDE DEF f
<1>4. (Interruptible(f) <=> Interruptible(g)) /\ Counts(f) = 1 /\ Counts(g) = 0
  BY <1>1, <1>2, <1>3 DEF Interruptible, Holds, Counts, FrameOk
<1>5. FrameOk(c, f, spl[c])
  BY <1>1, <1>2, <1>3 DEF FrameOk, Serving
<1>6. /\ stack' \in [Cpus -> Seq(Frame)] /\ \A d \in Cpus : StackOk(d)'
      /\ \A d \in Cpus \ {c} : Holding(d)' = Holding(d)
      /\ Holding(c)' = Holding(c) - 0 + 1
  BY <1>1, <1>2, <1>3, <1>4, <1>5, FrameStep DEF g, TypeOK
<1>7. klock' = [owner |-> c, depth |-> klock.depth + 1] /\ klock.owner \in {Nobody, c}
      /\ klock.depth \in Nat /\ Holding(c) \in Nat
  BY <1>1, HoldingType DEF Locked, MayLock, TypeOK
<1>8. klock.depth - Holding(c) \in {0, 1} /\ \A d \in Cpus \ {c} : Holding(d) = 0
  BY <1>7, NobodyAssumption DEF IntInv, LockOk, KernelLockBalanced
<1>9. LockOk'
  <2>1. klock'.owner = c /\ klock'.depth = klock.depth + 1 /\ klock'.depth # 0 /\ c # Nobody
    BY <1>7, NobodyAssumption
  <2>2. klock'.depth - Holding(c)' \in {0, 1}
    BY <2>1, <1>6, <1>7, <1>8
  <2>3. \A d \in Cpus \ {c} : Holding(d)' = 0
    BY <1>6, <1>8
  <2> QED  BY <2>1, <2>2, <2>3 DEF LockOk, KernelLockBalanced
<1>10. TypeOK' /\ SendOk'
  BY <1>1, <1>6, <1>7 DEF TypeOK, IntInv, SendOk
<1> QED  BY <1>6, <1>9, <1>10 DEF IntInv

\* __mp_unlock(): the lock was this processor's.
LEMMA ReleaseStep ==
  ASSUME TypeOK, IntInv, NEW c \in Cpus, ReleaseLock(c)
  PROVE  TypeOK' /\ IntInv'
<1> DEFINE g == Top(c)
           f == [g EXCEPT !.at = "out"]
<1>1. /\ stack[c] # <<>> /\ g.at = "unlock" /\ Step(c, f) /\ klock' = Unlocked
      /\ UNCHANGED <<spl, ind, line, clk, swi, ci_ipi, send>>
  BY DEF ReleaseLock, At, raised
<1>2. g \in Frame /\ FrameOk(c, g, spl[c]) /\ (ind[c] <=> ~Interruptible(g))
  BY <1>1, TopOk
<1> HIDE DEF g
<1>3. f \in Frame /\ f.old = g.old /\ f.unmasked = g.unmasked /\ f.cur = g.cur /\ f.at = "out"
  BY <1>2 DEF Frame, Pc
<1> HIDE DEF f
<1>4. (Interruptible(f) <=> Interruptible(g)) /\ Counts(f) = 0 /\ Counts(g) = 1
  BY <1>1, <1>2, <1>3 DEF Interruptible, Holds, Counts, FrameOk
<1>5. FrameOk(c, f, spl[c])
  BY <1>1, <1>2, <1>3 DEF FrameOk, Serving
<1>6. /\ stack' \in [Cpus -> Seq(Frame)] /\ \A d \in Cpus : StackOk(d)'
      /\ \A d \in Cpus \ {c} : Holding(d)' = Holding(d)
      /\ Holding(c)' = Holding(c) - 1 + 0
  BY <1>1, <1>2, <1>3, <1>4, <1>5, FrameStep DEF g, TypeOK
<1>7. Holding(c) \in Nat /\ Holding(c)' \in Nat /\ klock.depth \in Nat
      /\ klock \in [owner : Cpus \cup {Nobody}, depth : Nat]
  <2>1. Holding(c)' \in Nat
    BY <1>6, HeldFinite DEF Holding, HeldIn, Frames
  <2> QED  BY <2>1, HoldingType DEF TypeOK
<1>8. Holding(c) # 0
  BY <1>6, <1>7
<1>9. /\ klock.owner = c /\ klock.depth # 0 /\ klock.depth - Holding(c) \in {0, 1}
      /\ \A d \in Cpus \ {c} : Holding(d) = 0
  BY <1>8, NobodyAssumption DEF IntInv, LockOk, KernelLockBalanced
<1>10. klock' \in [owner : Cpus \cup {Nobody}, depth : Nat] /\ LockOk'
  <2>1. \A d \in Cpus \ {c} : Holding(d)' = 0
    BY <1>6, <1>9
  <2>2. CASE klock.depth = 1
    <3>1. klock' = [owner |-> Nobody, depth |-> 0] /\ Holding(c)' = 0
      BY <2>2, <1>1, <1>6, <1>7, <1>8, <1>9 DEF Unlocked
    <3> QED  BY <3>1, <2>1, NobodyAssumption DEF LockOk, KernelLockBalanced
  <2>3. CASE klock.depth # 1
    <3>1. klock' = [owner |-> c, depth |-> klock.depth - 1]
      BY <2>3, <1>1, <1>7, <1>9 DEF Unlocked
    <3>2. klock'.depth \in Nat \ {0} /\ klock'.depth - Holding(c)' \in {0, 1}
      BY <3>1, <2>3, <1>6, <1>7, <1>9
    <3> QED  BY <3>1, <3>2, <2>1, NobodyAssumption DEF LockOk, KernelLockBalanced
  <2> QED  BY <2>2, <2>3
<1>11. TypeOK' /\ SendOk'
  BY <1>1, <1>6, <1>10 DEF TypeOK, IntInv, SendOk
<1> QED  BY <1>6, <1>10, <1>11 DEF IntInv

LEMMA NextInv == TypeOK /\ IntInv /\ [Next]_vars => TypeOK' /\ IntInv'
<1> SUFFICES ASSUME TypeOK, IntInv, [Next]_vars PROVE TypeOK' /\ IntInv'
  OBVIOUS
<1>1. CASE UNCHANGED vars
  <2>1. UNCHANGED <<spl, ind, stack, line, clk, swi, ci_ipi, send, klock>>
    BY <1>1 DEF vars
  <2>2. TypeOK' /\ SendOk'
    BY <2>1 DEF TypeOK, IntInv, SendOk
  <2> QED  BY <2>1, <2>2, AllKept DEF IntInv
<1>2. CASE Request
  BY <1>2, RequestStep
<1>3. ASSUME NEW c \in Cpus, \E l \in BaseLevels : SetIpl(c, l) \/ RaiseIpl(c, l)
      PROVE  TypeOK' /\ IntInv'
  BY <1>3, PriorityStep
<1>4. ASSUME NEW c \in Cpus, KernelEnter(c) \/ KernelLeave(c) PROVE TypeOK' /\ IntInv'
  BY <1>4, KernelStep
<1>5. ASSUME NEW c \in Cpus, Sender(c) PROVE TypeOK' /\ IntInv'
  BY <1>5, SenderStep
<1>6. ASSUME NEW c \in Cpus, Take(c) PROVE TypeOK' /\ IntInv'
  BY <1>6, TakeStep
<1>7. ASSUME NEW c \in Cpus, ExtInt(c) PROVE TypeOK' /\ IntInv'
  BY <1>7, ReadStep, IpiStep, AcquireStep, SetLevelStep, DispatchStep, RereadStep,
     ReleaseStep, DisableStep, ReturnStep DEF ExtInt
<1> QED
  BY <1>1, <1>2, <1>3, <1>4, <1>5, <1>6, <1>7 DEF Next, Request

-----------------------------------------------------------------------------
(* What follows from the invariant *)

LEMMA Exclusion == TypeOK /\ IntInv => DriversExclude
<1> SUFFICES ASSUME TypeOK, IntInv, NEW c \in Cpus, NEW i \in Frames(c), InDriver(stack[c][i])
             PROVE  /\ c = Master /\ klock.owner = c
                    /\ \A j \in 1..(i - 1) : InDriver(stack[c][j]) => stack[c][j].cur < stack[c][i].cur
  BY DEF DriversExclude
<1> DEFINE f == stack[c][i]
<1>1. /\ Len(stack[c]) \in Nat /\ i \in 1..Len(stack[c])
      /\ \A j \in Frames(c) : stack[c][j] \in Frame /\ stack[c][j].old \in 0..7 /\ stack[c][j].cur \in 0..7
      /\ spl[c] \in 0..7
  <2>1. stack[c] \in Seq(Frame) /\ spl[c] \in Levels
    BY DEF TypeOK
  <2>2. \A j \in Frames(c) : stack[c][j] \in Frame
    BY <2>1 DEF Frames
  <2> QED  BY <2>1, <2>2 DEF Frames, Frame, Levels, HIGH
<1>2. FrameOk(c, f, Above(c, i))
  BY DEF IntInv, StackOk
<1>3. f.cur \in {3, 4, 5} /\ f.old < f.cur /\ c = Master /\ f.at \in {"dispatch", "reread"}
  BY <1>2 DEF FrameOk, InDriver, Serving, Devices, SOFTINT
<1>4. Holds(f)
  BY <1>1, <1>3 DEF Holds, SCHED
<1>5. Holding(c) # 0
  <2>1. stack[c] \in Seq(Frame)
    BY DEF TypeOK
  <2>2. IsFiniteSet(HeldIn(stack[c])) /\ i \in HeldIn(stack[c])
    BY <2>1, <1>1, <1>4, HeldFinite DEF HeldIn
  <2> QED  BY <2>2, FS_EmptySet, HoldingIs
<1>6. klock.owner = c
  BY <1>5 DEF IntInv, LockOk, KernelLockBalanced
<1>7. ASSUME NEW j \in 1..(i - 1), InDriver(stack[c][j])
      PROVE  stack[c][j].cur < f.cur
  <2>1. j \in Frames(c) /\ j < i /\ j # Len(stack[c]) /\ j + 1 \in Frames(c)
    BY <1>1 DEF Frames
  <2>2. Above(c, j) <= f.old /\ FrameOk(c, stack[c][j], Above(c, j))
    BY <2>1 DEF IntInv, StackOk
  <2>3. stack[c][j].cur <= Above(c, j) /\ Above(c, j) \in 0..7
    BY <2>1, <2>2, <1>1, <1>7 DEF FrameOk, InDriver, Above
  <2>4. stack[c][j].cur \in 0..7 /\ f.old \in 0..7 /\ f.cur \in 0..7
    BY <2>1, <1>1
  <2>5. \A k, a, o, l \in 0..7 : k <= a /\ a <= o /\ o < l => k < l
    OBVIOUS
  <2> QED  BY <2>2, <2>3, <2>4, <2>5, <1>3
<1> QED  BY <1>3, <1>6, <1>7

\* The types of the interrupt code (machdep.c:813-925), with any number of processors,
\* any sources of interrupts and any IPIs, together with the invariant above.
THEOREM InterruptTypes == Spec => [](TypeOK /\ IntInv)
<1>1. Init => TypeOK /\ IntInv
  BY InitInv
<1>2. (TypeOK /\ IntInv) /\ [Next]_vars => (TypeOK /\ IntInv)'
  BY NextInv
<1> QED  BY <1>1, <1>2, PTL DEF Spec

\* Drivers run on the master processor, under the kernel lock, and a handler is only
\* interrupted by one of a higher level (luna88k_ext_int(), machdep.c:866-902): although
\* the dispatch loop re-reads the status with interrupts enabled, it never finds a level
\* that the priority it set, or found, excludes.
THEOREM DriversAreExclusive == Spec => []DriversExclude
<1>1. TypeOK /\ IntInv => DriversExclude
  BY Exclusion
<1> QED  BY <1>1, InterruptTypes, PTL

\* The kernel lock is released by whoever took it, as often as it was taken: the tests
\* of the saved priority before __mp_lock() and before __mp_unlock() agree, whatever is
\* taken in between (machdep.c:862-906).  This holds with IPIs too.
THEOREM LockIsBalanced == Spec => []KernelLockBalanced
<1>1. TypeOK /\ IntInv => KernelLockBalanced
  BY DEF IntInv, LockOk
<1> QED  BY <1>1, InterruptTypes, PTL

-----------------------------------------------------------------------------
(* Without interprocessor interrupts every interrupt is one of Sources, and *)
(* the frames of a processor nest by level.                                *)

NestOn(c) == \A i \in Frames(c) : NestOk(c, stack[c][i], Above(c, i))

NoIpi == line \subseteq Sources /\ (clk # {} => CLOCK \in Sources) /\ swi = {}
         /\ \A c \in Cpus : send[c].left = {}

LEMMA StatusIsSource ==
  ASSUME TypeOK, NestInv, NEW c \in Cpus, Status(c) # 0
  PROVE  Status(c) \in Sources /\ spl[c] < Status(c)
<1>1. Status(c) \in Raised(c) /\ (Status(c) = SOFTINT \/ spl[c] < Status(c))
  BY StatusShows
<1>2. Raised(c) \subseteq Sources
  BY DEF NestInv, Raised
<1>3. SOFTINT \notin Sources
  BY SourcesAssumption DEF SOFTINT, Devices, CLOCK
<1> QED  BY <1>1, <1>2, <1>3

\* A processor that is left alone
LEMMA NestKept ==
  ASSUME NEW c \in Cpus, NestOn(c), stack'[c] = stack[c], spl'[c] = spl[c]
  PROVE  NestOn(c)'
<1>1. Len(stack'[c]) = Len(stack[c]) /\ Frames(c)' = Frames(c)
  BY DEF Frames
<1>2. \A i \in Frames(c) : Above(c, i)' = Above(c, i)
  BY <1>1 DEF Above
<1> QED  BY <1>1, <1>2 DEF NestOn

\* The last frame of c becomes f.
LEMMA NestStep ==
  ASSUME TypeOK, NestInv, NEW c \in Cpus, stack[c] # <<>>,
         NEW f \in Frame, f.old = Top(c).old, Step(c, f),
         \A d \in Cpus \ {c} : spl'[d] = spl[d],
         NestOk(c, f, spl'[c]),
         line' \subseteq line, clk' \subseteq clk, swi' \subseteq swi, send' = send
  PROVE  NestInv'
<1> DEFINE n == Len(stack[c])
<1>1. /\ \A d \in Cpus \ {c} : stack'[d] = stack[d]
      /\ Frames(c)' = Frames(c)
      /\ \A i \in Frames(c) :
            /\ stack'[c][i] = IF i = n THEN f ELSE stack[c][i]
            /\ Above(c, i)' = IF i = n THEN spl'[c] ELSE Above(c, i)
  BY StepShape
<1> HIDE DEF n
<1>2. NestOn(c)'
  <2>1. ASSUME NEW i \in Frames(c) PROVE NestOk(c, stack'[c][i], Above(c, i)')
    <3>1. CASE i = n
      <4>1. stack'[c][i] = f /\ Above(c, i)' = spl'[c]
        BY <3>1, <1>1
      <4> QED  BY <4>1
    <3>2. CASE i # n
      <4>1. stack'[c][i] = stack[c][i] /\ Above(c, i)' = Above(c, i)
        BY <3>2, <1>1
      <4> QED  BY <4>1 DEF NestInv
    <3> QED  BY <3>1, <3>2
  <2> QED  BY <2>1, <1>1 DEF NestOn
<1>3. \A d \in Cpus \ {c} : NestOn(d)'
  BY <1>1, NestKept DEF NestInv, NestOn
<1>4. NoIpi'
  BY DEF NestInv, NoIpi
<1> QED  BY <1>2, <1>3, <1>4 DEF NestInv, NestOn, NoIpi

\* ... and, with the same saved priority and the same flag, when f serves what the frame
\* it replaces does, or another source that the processor's priority lets through.
LEMMA NestReplaced ==
  ASSUME TypeOK, IntInv, NestInv, NEW c \in Cpus, stack[c] # <<>>,
         NEW f \in Frame, f.old = Top(c).old, f.unmasked = Top(c).unmasked, Step(c, f),
         spl' = spl,
         f.at \in Serving => \/ f.cur \in Sources /\ spl[c] < f.cur
                             \/ f.cur = Top(c).cur /\ Top(c).at \in Serving,
         line' \subseteq line, clk' \subseteq clk, swi' \subseteq swi, send' = send
  PROVE  NestInv'
<1> DEFINE g == Top(c)
<1>1. NestOk(c, g, spl[c])
  <2>1. Len(stack[c]) \in Frames(c) /\ g = stack[c][Len(stack[c])]
        /\ Above(c, Len(stack[c])) = spl[c]
    BY TopType
  <2> QED  BY <2>1 DEF NestInv
<1>2. g.old <= spl[c] /\ g.old \in 0..7 /\ spl[c] \in 0..7
  BY TopOk DEF FrameOk
<1>3. f.cur \in Sources /\ spl[c] < f.cur => f.old < f.cur
  <2>1. Sources \subseteq 3..6
    BY SourcesAssumption DEF Devices, CLOCK
  <2>2. \A k \in 3..6, a, o \in 0..7 : o <= a /\ a < k => o < k
    OBVIOUS
  <2>3. f.old = g.old
    OBVIOUS
  <2> QED  BY <2>1, <2>2, <2>3, <1>2
<1>4. NestOk(c, f, spl'[c])
  BY <1>1, <1>3 DEF NestOk
<1> QED  BY <1>4, NestStep

LEMMA NestNext ==
  ASSUME Bits = {}, TypeOK, IntInv, NestInv, [Next]_vars
  PROVE  NestInv'
<1>1. ASSUME UNCHANGED <<spl, stack>>, NoIpi' PROVE NestInv'
  <2>1. \A d \in Cpus : NestOn(d)'
    BY <1>1, NestKept DEF NestInv, NestOn
  <2> QED  BY <2>1, <1>1 DEF NestInv, NestOn, NoIpi
<1>2. CASE UNCHANGED vars
  BY <1>1, <1>2 DEF vars, NestInv, NoIpi
<1>3. ASSUME NEW c \in Cpus, NEW l \in BaseLevels, SetIpl(c, l) \/ RaiseIpl(c, l) PROVE NestInv'
  <2>1. /\ stack[c] = <<>> /\ stack' = stack /\ spl' = [spl EXCEPT ![c] = l]
        /\ UNCHANGED <<line, clk, swi, send>>
    BY <1>3 DEF SetIpl, RaiseIpl, InBase, raised
  <2>2. NestOn(c)'
    BY <2>1 DEF NestOn, Frames
  <2>3. \A d \in Cpus \ {c} : NestOn(d)'
    BY <2>1, NestKept DEF TypeOK, NestInv, NestOn
  <2>4. NoIpi'
    BY <2>1 DEF NestInv, NoIpi
  <2> QED  BY <2>2, <2>3, <2>4 DEF NestInv, NestOn, NoIpi
<1>4. ASSUME NEW c \in Cpus, KernelEnter(c) \/ KernelLeave(c) PROVE NestInv'
  BY <1>1, <1>4 DEF KernelEnter, KernelLeave, raised, NestInv, NoIpi
<1>5. ASSUME NEW c \in Cpus, RaiseClock(c) PROVE NestInv'
  BY <1>1, <1>5 DEF RaiseClock, NestInv, NoIpi
<1>6. ASSUME NEW l \in Devices, RaiseDevice(l) PROVE NestInv'
  BY <1>1, <1>6 DEF RaiseDevice, NestInv, NoIpi
<1>7. ASSUME NEW c \in Cpus, Sender(c) PROVE NestInv'
  BY <1>7 DEF Sender, SendTest, SendSet, SendSwi, Sending, NestInv
<1>8. ASSUME NEW c \in Cpus, Take(c) PROVE NestInv'
  <2> DEFINE f == [at |-> "read", old |-> spl[c], cur |-> 0, ipi |-> {}, unmasked |-> FALSE]
             n == Len(stack[c])
  <2>1. /\ Status(c) # 0 /\ stack' = [stack EXCEPT ![c] = Append(@, f)]
        /\ UNCHANGED <<spl, line, clk, swi, send>>
    BY <1>8 DEF Take, raised
  <2>2. f \in Frame /\ ~Holds(f) /\ f.old = spl[c]
    <3>1. spl[c] \in Levels /\ 0 \in Levels /\ "read" \in Pc
      BY DEF TypeOK, Levels, HIGH, Pc
    <3> QED  BY <3>1 DEF Frame, Holds
  <2>3. NestOk(c, f, spl[c])
    BY <2>1, StatusIsSource DEF NestOk, Serving
  <2> HIDE DEF f
  <2>4. /\ \A d \in Cpus \ {c} : stack'[d] = stack[d]
        /\ Frames(c)' = 1..(n + 1)
        /\ \A i \in 1..(n + 1) :
              /\ stack'[c][i] = IF i = n + 1 THEN f ELSE stack[c][i]
              /\ Above(c, i)' = IF i = n + 1 THEN spl[c] ELSE Above(c, i)
    BY <2>1, <2>2, PushShape
  <2>5. \A i \in 1..(n + 1) : i # n + 1 => i \in Frames(c)
    <3>1. n \in Nat
      BY DEF TypeOK
    <3> QED  BY <3>1 DEF Frames
  <2>6. NestOn(c)'
    <3>1. ASSUME NEW i \in 1..(n + 1) PROVE NestOk(c, stack'[c][i], Above(c, i)')
      <4>1. CASE i = n + 1
        <5>1. stack'[c][i] = f /\ Above(c, i)' = spl[c]
          BY <4>1, <2>4
        <5> QED  BY <5>1, <2>3
      <4>2. CASE i # n + 1
        <5>1. stack'[c][i] = stack[c][i] /\ Above(c, i)' = Above(c, i) /\ i \in Frames(c)
          BY <4>2, <2>4, <2>5
        <5> QED  BY <5>1 DEF NestInv
      <4> QED  BY <4>1, <4>2
    <3> HIDE DEF n
    <3> QED  BY <3>1, <2>4 DEF NestOn
  <2>7. \A d \in Cpus \ {c} : NestOn(d)'
    BY <2>1, <2>4, NestKept DEF NestInv, NestOn
  <2>8. NoIpi'
    BY <2>1 DEF NestInv, NoIpi
  <2> QED  BY <2>6, <2>7, <2>8 DEF NestInv, NestOn, NoIpi
<1>9. ASSUME NEW c \in Cpus, Return(c) PROVE NestInv'
  <2>1. /\ stack[c] # <<>> /\ Top(c).at = "ret" /\ spl' = [spl EXCEPT ![c] = Top(c).old]
        /\ stack' = [stack EXCEPT ![c] = SubSeq(@, 1, Len(@) - 1)]
        /\ UNCHANGED <<line, clk, swi, send>>
    BY <1>9 DEF Return, At, raised
  <2>2. ~Holds(Top(c)) /\ spl'[c] = Top(c).old /\ \A d \in Cpus \ {c} : spl'[d] = spl[d]
    BY <2>1 DEF Holds, TypeOK
  <2>3. /\ \A d \in Cpus \ {c} : stack'[d] = stack[d]
        /\ Frames(c)' = 1..(Len(stack[c]) - 1)
        /\ \A i \in 1..(Len(stack[c]) - 1) :
              i \in Frames(c) /\ stack'[c][i] = stack[c][i] /\ Above(c, i)' = Above(c, i)
    BY <2>1, <2>2, PopShape
  <2>4. NestOn(c)'
    BY <2>3 DEF NestInv, NestOn
  <2>5. \A d \in Cpus \ {c} : NestOn(d)'
    BY <2>2, <2>3, NestKept DEF NestInv, NestOn
  <2>6. NoIpi'
    BY <2>1 DEF NestInv, NoIpi
  <2> QED  BY <2>4, <2>5, <2>6 DEF NestInv, NestOn, NoIpi
<1>10. ASSUME NEW c \in Cpus, IpiRead(c) \/ IpiReset(c) \/ IpiClear(c) PROVE NestInv'
  <2> DEFINE g == Top(c)
  <2>1. PICK f : /\ Step(c, f) /\ f \in {[g EXCEPT !.ipi = ci_ipi[c], !.at = "swi"],
                                         [g EXCEPT !.at = "clear"],
                                         [g EXCEPT !.at = "read", !.ipi = {}]}
                 /\ stack[c] # <<>>
    BY <1>10 DEF IpiRead, IpiReset, IpiClear, At
  <2>2. spl' = spl /\ line' = line /\ clk' = clk /\ swi' \subseteq swi /\ send' = send
    BY <1>10 DEF IpiRead, IpiReset, IpiClear, raised
  <2>3. g \in Frame /\ ci_ipi[c] \in SUBSET Bits
    BY <2>1, TopOk DEF TypeOK
  <2> HIDE DEF g
  <2>4. f \in Frame /\ f.old = g.old /\ f.unmasked = g.unmasked /\ f.at \notin Serving
    BY <2>1, <2>3 DEF Frame, Pc, Serving
  <2> QED  BY <2>1, <2>2, <2>4, NestReplaced DEF g
<1>11. ASSUME NEW c \in Cpus, ReadStatus(c) PROVE NestInv'
  <2> DEFINE g == Top(c)
             level == Status(c)
             f == [g EXCEPT !.cur = level, !.at = Following(c, level)]
  <2>1. stack[c] # <<>> /\ Step(c, f) /\ UNCHANGED <<spl, line, clk, swi, send>>
    BY <1>11 DEF ReadStatus, At, raised
  <2>2. g \in Frame /\ level \in Levels /\ Following(c, level) \in Pc
        /\ (level = 0 => Following(c, level) = "out")
    BY <2>1, TopOk, StatusType DEF Following, Pc
  <2>3. level # 0 => level \in Sources /\ spl[c] < level
    BY StatusIsSource
  <2> HIDE DEF g, level
  <2>4. f \in Frame /\ f.old = g.old /\ f.unmasked = g.unmasked /\ f.cur = level
        /\ f.at = Following(c, level)
    BY <2>2 DEF Frame
  <2> HIDE DEF f
  <2>5. f.at \in Serving => f.cur \in Sources /\ spl[c] < f.cur
    BY <2>2, <2>3, <2>4 DEF Serving
  <2> QED  BY <2>1, <2>4, <2>5, NestReplaced DEF g
<1>12. ASSUME NEW c \in Cpus, Reread(c) PROVE NestInv'
  <2> DEFINE g == Top(c)
             level == Status(c)
             p == IF level # 0 THEN "setipl" ELSE IF g.old < SCHED THEN "unlock" ELSE "out"
             f == [g EXCEPT !.cur = level, !.at = p]
  <2>1. stack[c] # <<>> /\ Step(c, f) /\ UNCHANGED <<spl, line, clk, swi, send>>
    BY <1>12 DEF Reread, At, raised
  <2>2. g \in Frame /\ level \in Levels
    BY <2>1, TopOk, StatusType
  <2>3. level # 0 => level \in Sources /\ spl[c] < level
    BY StatusIsSource
  <2> HIDE DEF g, level
  <2>4. f \in Frame /\ f.old = g.old /\ f.unmasked = g.unmasked /\ f.cur = level /\ f.at = p
    BY <2>2 DEF Frame, Pc
  <2> HIDE DEF f
  <2>5. f.at \in Serving => f.cur \in Sources /\ spl[c] < f.cur
    BY <2>3, <2>4 DEF Serving
  <2> QED  BY <2>1, <2>4, <2>5, NestReplaced DEF g
<1>13. ASSUME NEW c \in Cpus,
              AcquireLock(c) \/ Dispatch(c) \/ ReleaseLock(c) \/ DisableInterrupts(c)
       PROVE  NestInv'
  <2> DEFINE g == Top(c)
  <2>1. PICK p \in {"setipl", "reread", "unlock", "out", "ret"} :
               /\ stack[c] # <<>> /\ Step(c, [g EXCEPT !.at = p])
               /\ p \in Serving => g.at \in {"lock", "dispatch"}
    BY <1>13 DEF AcquireLock, Dispatch, ReleaseLock, DisableInterrupts, At, Serving
  <2>2. spl' = spl /\ line' \subseteq line /\ clk' \subseteq clk /\ swi' = swi /\ send' = send
    BY <1>13 DEF AcquireLock, Dispatch, ReleaseLock, DisableInterrupts, raised
  <2>3. g \in Frame
    BY <2>1, TopOk
  <2> DEFINE f == [g EXCEPT !.at = p]
  <2> HIDE DEF g
  <2>4. f \in Frame /\ f.old = g.old /\ f.unmasked = g.unmasked /\ f.cur = g.cur /\ f.at = p
    BY <2>3 DEF Frame, Pc
  <2>5. Step(c, f)
    BY <2>1
  <2> HIDE DEF f
  <2>6. f.at \in Serving => g.at \in Serving
    BY <2>1, <2>4 DEF Serving
  <2> QED  BY <2>1, <2>2, <2>4, <2>5, <2>6, NestReplaced DEF g
<1>14. ASSUME NEW c \in Cpus, SetLevel(c) PROVE NestInv'
  <2> DEFINE g == Top(c)
             f == [g EXCEPT !.at = "dispatch", !.unmasked = TRUE]
             a == Highest({g.cur, g.old})
  <2>1. /\ stack[c] # <<>> /\ g.at = "setipl" /\ Step(c, f)
        /\ spl' = [spl EXCEPT ![c] = a] /\ UNCHANGED <<line, clk, swi, send>>
    BY <1>14 DEF SetLevel, At, raised
  <2>2. g \in Frame /\ g.old \in 0..7 /\ g.cur \in 0..7
    BY <2>1, TopOk
  <2>3. NestOk(c, g, spl[c])
    <3>1. Len(stack[c]) \in Frames(c) /\ g = stack[c][Len(stack[c])]
          /\ Above(c, Len(stack[c])) = spl[c]
      BY <2>1, TopType
    <3> QED  BY <3>1 DEF NestInv
  <2>4. a \in {g.cur, g.old} \cup {0} /\ a >= g.cur /\ a >= g.old
    <3>1. {g.cur, g.old} \in SUBSET Levels
      BY <2>2 DEF Levels, HIGH
    <3> QED  BY <3>1, HighestOf
  <2> HIDE DEF g, a
  <2>5. g.cur \in Sources /\ g.old < g.cur
    BY <2>1, <2>3 DEF NestOk, Serving
  <2>6. a = g.cur
    BY <2>2, <2>4, <2>5
  <2>7. f \in Frame /\ f.old = g.old /\ f.unmasked = TRUE /\ f.cur = g.cur /\ f.at = "dispatch"
    BY <2>2 DEF Frame, Pc
  <2> HIDE DEF f
  <2>8. NestOk(c, f, a)
    BY <2>3, <2>5, <2>6, <2>7 DEF NestOk
  <2>9. spl'[c] = a /\ \A d \in Cpus \ {c} : spl'[d] = spl[d]
    BY <2>1 DEF TypeOK
  <2> QED  BY <2>1, <2>7, <2>8, <2>9, NestStep DEF g
<1> QED
  BY <1>2, <1>3, <1>4, <1>5, <1>6, <1>7, <1>8, <1>9, <1>10, <1>11, <1>12, <1>13, <1>14
  DEF Next, ExtInt, Broadcast

\* The priorities that the frames of a stack were interrupted at, and a source above
\* the last, are as many different levels as there are frames.
LEMMA NestingBound ==
  ASSUME TypeOK, IntInv, NestInv
  PROVE  NestingBounded
<1> SUFFICES ASSUME NEW c \in Cpus PROVE Len(stack[c]) <= Cardinality(Sources)
  BY DEF NestingBounded
<1> DEFINE s == stack[c]
           n == Len(s)
<1>1. IsFiniteSet(Sources) /\ Sources \subseteq 3..6
  <2>1. Sources \subseteq 3..6
    BY SourcesAssumption DEF Devices, CLOCK
  <2>2. IsFiniteSet(3..6)
    <3>1. 3 \in Int /\ 6 \in Int
      OBVIOUS
    <3> HIDE DEF s, n
    <3> QED  BY ONLY <3>1, FS_Interval
  <2> QED  BY <2>1, <2>2, FS_Subset
<1>2. Cardinality(Sources) \in Nat /\ n \in Nat
  BY <1>1, FS_CardinalityType DEF TypeOK
<1>3. CASE n = 0
  BY <1>2, <1>3
<1>4. CASE n # 0
  <2>1. /\ n \in Frames(c) /\ n \in 1..n /\ Frames(c) = 1..n
        /\ \A i \in 1..n : s[i] \in Frame
    BY <1>2, <1>4 DEF Frames, TypeOK
  <2>2. \A i \in 1..n : s[i].old \in 0..7
    BY <2>1 DEF Frame, Levels, HIGH
  <2>3. PICK l \in Sources : s[n].old < l
    BY <2>1 DEF NestInv, NestOk
  <2> DEFINE g == [i \in 1..n |-> IF i = n THEN l ELSE Above(c, i)]
  <2>4. ASSUME NEW i \in 1..n, i # n
        PROVE  Above(c, i) \in Sources /\ \A j \in 1..n : i < j => Above(c, i) <= s[j].old
    <3>1. i < n
      BY <1>2, <2>4
    <3>2. Interruptible(s[i]) /\ \A j \in 1..n : i < j => Above(c, i) <= s[j].old
      BY <3>1, <2>1 DEF IntInv, StackOk
    <3>3. Above(c, i) \in Sources
      BY <3>2, <2>1 DEF NestInv, NestOk, Interruptible
    <3> QED  BY <3>2, <3>3
  <2>5. \A i \in 1..n : g[i] \in Sources /\ s[i].old < g[i]
    <3>1. ASSUME NEW i \in 1..n, i # n PROVE s[i].old < Above(c, i)
      <4>1. i < n
        BY <1>2, <3>1
      <4>2. Interruptible(s[i])
        BY <4>1, <2>1 DEF IntInv, StackOk
      <4> QED  BY <4>2, <2>1 DEF NestInv, NestOk, Interruptible
    <3> QED  BY <3>1, <2>3, <2>4
  <2>6. ASSUME NEW i \in 1..n, NEW j \in 1..n, i < j PROVE g[i] < g[j]
    <3>1. i # n /\ g[i] = Above(c, i)
      BY <1>2, <2>6
    <3>2. g[i] <= s[j].old /\ s[j].old < g[j] /\ g[i] \in 3..6 /\ g[j] \in 3..6 /\ s[j].old \in 0..7
      BY <3>1, <2>2, <2>4, <2>5, <2>6, <1>1
    <3>3. \A x, y \in 3..6, o \in 0..7 : x <= o /\ o < y => x < y
      OBVIOUS
    <3> HIDE DEF g
    <3> QED  BY <3>2, <3>3
  <2>7. g \in [1..n -> Sources]
    BY <2>5
  <2> HIDE DEF g
  <2>8. ASSUME NEW i \in 1..n, NEW j \in 1..n, g[i] = g[j] PROVE i = j
    <3>1. g[i] \in 3..6 /\ g[j] \in 3..6
      BY <2>5, <1>1
    <3>2. ~(i < j) /\ ~(j < i)
      BY <2>6, <2>8, <3>1
    <3> QED  BY <3>2, <1>2
  <2>9. g \in Injection(1..n, Sources)
    BY <2>7, <2>8 DEF Injection, IsInjective
  <2>10. Cardinality(1..n) <= Cardinality(Sources)
    BY <2>9, <1>1, FS_Injection
  <2>11. Cardinality(1..n) = n
    BY <1>2, <1>4, FS_Interval
  <2> QED  BY <2>10, <2>11
<1> QED  BY <1>3, <1>4

\* Without IPIs a processor's stack holds no more interrupts than there are levels that
\* interrupt, however they are raised again: every frame serves a level above the one it
\* interrupted (luna88k_ext_int(), machdep.c:866-902), and accounts for the kernel lock.
THEOREM FramesAreBounded ==
  ASSUME Bits = {}
  PROVE  Spec => []FramesBounded
<1>1. Init => NestInv
  <2> SUFFICES ASSUME Init PROVE NestInv
    OBVIOUS
  <2>1. \A c \in Cpus : stack[c] = <<>>
    BY DEF Init
  <2> QED  BY <2>1, StackEmpty DEF Init, NestInv, Quiet
<1>2. TypeOK /\ IntInv /\ NestInv /\ [Next]_vars => NestInv'
  BY NestNext
<1>3. TypeOK /\ IntInv /\ NestInv => FramesBounded
  BY NestingBound DEF FramesBounded, IntInv, LockOk
<1> QED  BY <1>1, <1>2, <1>3, InterruptTypes, PTL DEF Spec
=============================================================================
