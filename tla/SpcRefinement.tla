--------------------------- MODULE SpcRefinement ---------------------------
(***************************************************************************)
(* The MB89352 driver implements ScsiPort: the holder of a lun is the      *)
(* command established on it, connected or disconnected.                   *)
(***************************************************************************)
EXTENDS SpcProperties

HolderOf(l) ==
    IF \E a \in Established : lun[a] = l
    THEN CHOOSE a \in Established : lun[a] = l
    ELSE NoAcb

Port == INSTANCE ScsiPort WITH holder <- [l \in Lun |-> HolderOf(l)]

\* Every step of the driver, resets, timeouts and their race with interrupts
\* included, is one step of the port or none: a command completes once, and only
\* while it is the driver's; a nexus is established only on a lun without one.
ImplementsPort == Port!Spec
=============================================================================
