------------------------------ MODULE IsrChain ------------------------------
(***************************************************************************)
(* The chains of autovectored interrupt handlers (src/luna88k/isr.c): how  *)
(* drivers link their handlers, one after the other, when they attach.     *)
(***************************************************************************)
EXTENDS Naturals, FiniteSets, SequencesExt

CONSTANTS
    Isrs,               \* the handlers that drivers link
    Ipls,               \* the levels in use
    Priorities          \* ISRPRI_BIO ... ISRPRI_TTYNOBUF

VARIABLES
    isr_ipl, isr_priority,      \* what each driver asks for
    isr_autovec                 \* the chain of each level

vars == <<isr_ipl, isr_priority, isr_autovec>>

Init ==
    /\ isr_ipl \in [Isrs -> Ipls] /\ isr_priority \in [Isrs -> Priorities]
    /\ isr_autovec = [l \in Ipls |-> <<>>]

Linked == UNION {ToSet(isr_autovec[l]) : l \in Ipls}

\* The entries that a new one of priority p goes before.  The loop stops at the
\* last entry without looking at it.
Outranked(list, p) == {i \in 1..(Len(list) - 1) : p > isr_priority[list[i]]}

Insert(list, h) ==
    LET ahead == Outranked(list, isr_priority[h])
    IN  IF ahead = {} THEN Append(list, h) ELSE InsertAt(list, Min(ahead), h)

isrlink_autovec(h) ==
    /\ h \notin Linked
    /\ isr_autovec' = [isr_autovec EXCEPT ![isr_ipl[h]] = Insert(@, h)]
    /\ UNCHANGED <<isr_ipl, isr_priority>>

Next == \E h \in Isrs : isrlink_autovec(h)

Spec == Init /\ [][Next]_vars

-----------------------------------------------------------------------------
(***************************************************************************)
(* "place ourselves after any ISRs with our current (or higher) priority"  *)
(* (isr.c:118): the handlers of a level are called by falling priority, so *)
(* that the unbuffered serial chip is served before a slower device.       *)
(***************************************************************************)
ByPriority ==
    \A l \in Ipls : \A i, j \in DOMAIN isr_autovec[l] :
        i < j => isr_priority[isr_autovec[l][i]] >= isr_priority[isr_autovec[l][j]]
=============================================================================
