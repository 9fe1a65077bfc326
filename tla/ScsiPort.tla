------------------------------ MODULE ScsiPort ------------------------------
(***************************************************************************)
(* What a host adapter driver promises the SCSI mid layer, with no queues, *)
(* bus or interrupts: a command block is allocated, submitted, completed   *)
(* once and freed, and of the commands for one lun at most one holds the   *)
(* nexus.  Spc is shown to implement this.                                 *)
(***************************************************************************)
EXTENDS FiniteSets, Naturals

CONSTANTS Acb, Lun, NoAcb, NoLun, Openings

VARIABLES
    own,        \* free, held by the mid layer, submitted (drv) or done
    lun,        \* the lun a block is addressed to
    holder      \* the command established on each lun, or NoAcb

vars == <<own, lun, holder>>

Init ==
    /\ own = [a \in Acb |-> "free"]
    /\ lun = [a \in Acb |-> NoLun]
    /\ holder = [l \in Lun |-> NoAcb]

Allocate(a, l) ==
    /\ own[a] = "free"
    /\ own' = [own EXCEPT ![a] = "held"]
    /\ lun' = [lun EXCEPT ![a] = l]
    /\ UNCHANGED holder

Submit(a) ==
    /\ own[a] = "held"
    /\ Cardinality({b \in Acb : own[b] = "drv" /\ lun[b] = lun[a]}) < Openings
    /\ own' = [own EXCEPT ![a] = "drv"]
    /\ UNCHANGED <<lun, holder>>

\* a command becomes established; its lun must be free for it
Establish(a) ==
    /\ own[a] = "drv"
    /\ holder[lun[a]] = NoAcb
    /\ holder' = [holder EXCEPT ![lun[a]] = a]
    /\ UNCHANGED <<own, lun>>

\* a command gives up its nexus without completing: sense or abort follows
GiveUp(a) ==
    /\ own[a] = "drv"
    /\ holder[lun[a]] = a
    /\ holder' = [holder EXCEPT ![lun[a]] = NoAcb]
    /\ UNCHANGED <<own, lun>>

\* submitted commands are completed: one, or all the active ones on a reset
Complete(S) ==
    /\ S # {} /\ \A a \in S : own[a] = "drv"
    /\ own' = [a \in Acb |-> IF a \in S THEN "done" ELSE own[a]]
    /\ holder' = [l \in Lun |-> IF holder[l] \in S THEN NoAcb ELSE holder[l]]
    /\ UNCHANGED lun

Free(a) ==
    /\ own[a] = "done"
    /\ own' = [own EXCEPT ![a] = "free"]
    /\ lun' = [lun EXCEPT ![a] = NoLun]
    /\ UNCHANGED holder

Again(a) ==
    /\ own[a] = "done"
    /\ own' = [own EXCEPT ![a] = "held"]
    /\ UNCHANGED <<lun, holder>>

Next ==
    \/ \E a \in Acb :
          \/ \E l \in Lun : Allocate(a, l)
          \/ Submit(a) \/ Establish(a) \/ GiveUp(a) \/ Free(a) \/ Again(a)
    \/ \E S \in SUBSET Acb : Complete(S)

Spec == Init /\ [][Next]_vars
=============================================================================
