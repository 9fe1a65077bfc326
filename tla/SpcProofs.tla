----------------------------- MODULE SpcProofs -----------------------------
(***************************************************************************)
(* Proofs about the SCSI driver, for any number of command blocks and luns *)
(* and for every environment Env.  Only what the queues, the nexus and     *)
(* lubusy need is carried along; the messages and the bus phases matter    *)
(* only through sc_state.                                                  *)
(***************************************************************************)
EXTENDS SpcProperties, TLAPS

-----------------------------------------------------------------------------
(* Sequences used as lists *)

\* what RemoveAt leaves, element by element
LEMMA RemoveAtElements ==
    ASSUME NEW S, NEW s \in Seq(S), NEW i \in DOMAIN s
    PROVE  LET t == RemoveAt(s, i) IN
           /\ t \in Seq(S)
           /\ Len(t) = Len(s) - 1
           /\ \A j \in 1..Len(t) : t[j] = IF j < i THEN s[j] ELSE s[j + 1]
<1> DEFINE l == SubSeq(s, 1, i - 1)
           r == SubSeq(s, i + 1, Len(s))
<1>1. i \in 1..Len(s) /\ Len(s) \in Nat
    OBVIOUS
<1>2. l \in Seq(S) /\ Len(l) = i - 1 /\ \A j \in 1..(i - 1) : l[j] = s[j]
    BY <1>1
<1>3. r \in Seq(S) /\ Len(r) = Len(s) - i
                   /\ \A j \in 1..(Len(s) - i) : r[j] = s[i + j]
    BY <1>1
<1> HIDE DEF l, r
<1>4. l \o r \in Seq(S) /\ Len(l \o r) = Len(s) - 1
    BY <1>1, <1>2, <1>3
<1>5. \A j \in 1..(Len(s) - 1) : (l \o r)[j] = IF j < i THEN s[j] ELSE s[j + 1]
    BY <1>1, <1>2, <1>3
<1> QED
    BY <1>4, <1>5 DEF RemoveAt, l, r

\* TAILQ_REMOVE of a linked element removes that one and keeps the list a list
LEMMA RemoveAtSet ==
    ASSUME NEW S, NEW s \in Seq(S), IsInjective(s), NEW i \in DOMAIN s
    PROVE  /\ RemoveAt(s, i) \in Seq(S)
           /\ IsInjective(RemoveAt(s, i))
           /\ ToSet(RemoveAt(s, i)) = ToSet(s) \ {s[i]}
<1> DEFINE t == RemoveAt(s, i)
<1>1. /\ t \in Seq(S) /\ Len(t) = Len(s) - 1
      /\ \A j \in 1..Len(t) : t[j] = IF j < i THEN s[j] ELSE s[j + 1]
    BY RemoveAtElements
<1> HIDE DEF t
<1>2. i \in 1..Len(s) /\ Len(s) \in Nat /\ DOMAIN s = 1..Len(s) /\ DOMAIN t = 1..Len(t)
    BY <1>1
<1>3. \A j, k \in 1..Len(s) : s[j] = s[k] => j = k
    BY <1>2 DEF IsInjective
<1>4. IsInjective(t)
    <2>1. SUFFICES ASSUME NEW j \in DOMAIN t, NEW k \in DOMAIN t, t[j] = t[k]
                   PROVE  j = k
        BY DEF IsInjective
    <2> DEFINE at(m) == IF m < i THEN m ELSE m + 1
    <2>2. \A m \in DOMAIN t : at(m) \in 1..Len(s) /\ t[m] = s[at(m)]
        BY <1>1, <1>2
    <2>3. at(j) = at(k)
        BY <1>3, <2>1, <2>2
    <2> QED BY <1>1, <1>2, <2>3
<1>5. \A j \in DOMAIN t : t[j] \in ToSet(s) \ {s[i]}
    <2>1. SUFFICES ASSUME NEW j \in DOMAIN t
                   PROVE  \E k \in 1..Len(s) : k # i /\ t[j] = s[k]
        BY <1>2, <1>3 DEF ToSet
    <2>2. CASE j < i
        BY <1>1, <1>2, <2>2
    <2>3. CASE ~(j < i)
        <3>1. j + 1 \in 1..Len(s) /\ j + 1 # i /\ t[j] = s[j + 1]
            BY <1>1, <1>2, <2>3
        <3> QED BY <3>1
    <2> QED BY <2>2, <2>3
<1>6. ASSUME NEW k \in DOMAIN s, k # i
      PROVE  \E j \in DOMAIN t : t[j] = s[k]
    <2>1. CASE k < i
        <3>1. k \in DOMAIN t /\ t[k] = s[k]
            BY <1>1, <1>2, <2>1
        <3> QED BY <3>1
    <2>2. CASE k > i
        <3>1. k - 1 \in DOMAIN t /\ t[k - 1] = s[k]
            BY <1>1, <1>2, <2>2
        <3> QED BY <3>1
    <2> QED BY <1>2, <1>6, <2>1, <2>2
<1>7. ToSet(t) = ToSet(s) \ {s[i]}
    BY <1>5, <1>6 DEF ToSet
<1> QED BY <1>1, <1>4, <1>7 DEF t

\* spc_dequeue on a list, whether or not the command is on it
LEMMA UnlinkSet ==
    ASSUME NEW S, NEW s \in Seq(S), IsInjective(s), NEW a
    PROVE  /\ Unlink(s, a) \in Seq(S)
           /\ IsInjective(Unlink(s, a))
           /\ ToSet(Unlink(s, a)) = ToSet(s) \ {a}
<1>1. CASE \E i \in DOMAIN s : s[i] = a
    <2> DEFINE i == CHOOSE k \in DOMAIN s : s[k] = a
    <2>1. i \in DOMAIN s /\ s[i] = a
        BY <1>1
    <2> HIDE DEF i
    <2>2. /\ RemoveAt(s, i) \in Seq(S) /\ IsInjective(RemoveAt(s, i))
          /\ ToSet(RemoveAt(s, i)) = ToSet(s) \ {a}
        BY <2>1, RemoveAtSet
    <2>3. Unlink(s, a) = RemoveAt(s, i)
        BY <1>1 DEF Unlink, i
    <2> QED BY <2>2, <2>3
<1>2. CASE ~ \E i \in DOMAIN s : s[i] = a
    BY <1>2 DEF Unlink, ToSet
<1> QED BY <1>1, <1>2

\* TAILQ_INSERT_HEAD of an element that is not linked
LEMMA PushSet ==
    ASSUME NEW S, NEW s \in Seq(S), IsInjective(s), NEW a \in S, a \notin ToSet(s)
    PROVE  /\ Push(a, s) \in Seq(S)
           /\ IsInjective(Push(a, s))
           /\ ToSet(Push(a, s)) = ToSet(s) \cup {a}
<1> DEFINE t == Push(a, s)
<1>1. /\ t \in Seq(S) /\ Len(t) = Len(s) + 1 /\ t[1] = a
      /\ \A j \in 1..Len(s) : t[j + 1] = s[j]
    BY DEF Push
<1> HIDE DEF t
<1>2. Len(s) \in Nat /\ DOMAIN s = 1..Len(s) /\ DOMAIN t = 1..(Len(s) + 1)
    BY <1>1
<1>3. \A j \in DOMAIN t : j = 1 \/ (j - 1 \in DOMAIN s /\ t[j] = s[j - 1])
    BY <1>1, <1>2
<1>4. IsInjective(t)
    BY <1>1, <1>2, <1>3 DEF IsInjective, ToSet
<1>5. ToSet(t) \subseteq ToSet(s) \cup {a}
    BY <1>1, <1>3 DEF ToSet
<1>6. \A j \in DOMAIN s : j + 1 \in DOMAIN t /\ t[j + 1] = s[j]
    BY <1>1, <1>2
<1>7. 1 \in DOMAIN t
    BY <1>2
<1>8. ToSet(s) \cup {a} \subseteq ToSet(t)
    BY <1>1, <1>6, <1>7 DEF ToSet
<1> QED BY <1>1, <1>4, <1>5, <1>8 DEF t

\* TAILQ_INSERT_TAIL of an element that is not linked
LEMMA AppendSet ==
    ASSUME NEW S, NEW s \in Seq(S), IsInjective(s), NEW a \in S, a \notin ToSet(s)
    PROVE  /\ Append(s, a) \in Seq(S)
           /\ IsInjective(Append(s, a))
           /\ ToSet(Append(s, a)) = ToSet(s) \cup {a}
<1> DEFINE t == Append(s, a)
<1>1. /\ t \in Seq(S) /\ Len(t) = Len(s) + 1 /\ t[Len(s) + 1] = a
      /\ \A j \in 1..Len(s) : t[j] = s[j]
    OBVIOUS
<1> HIDE DEF t
<1>2. Len(s) \in Nat /\ DOMAIN s = 1..Len(s) /\ DOMAIN t = 1..(Len(s) + 1)
    BY <1>1
<1>3. IsInjective(t)
    BY <1>1, <1>2 DEF IsInjective, ToSet
<1>4. ToSet(t) = ToSet(s) \cup {a}
    BY <1>1, <1>2 DEF ToSet
<1> QED BY <1>1, <1>3, <1>4 DEF t

-----------------------------------------------------------------------------
(* The inductive invariant *)

\* the part of the type invariant that the queues need
QueueType ==
    /\ state \in States /\ nexus \in Acb \cup {NoAcb}
    /\ ready \in Seq(Acb) /\ nexusq \in Seq(Acb)
    /\ own \in [Acb -> Owner] /\ flags \in [Acb -> SUBSET Flag]
    /\ timer \subseteq Acb

\* a command is being selected or served only if there is one
NexusHeld == state = "SELECTING" \/ Connected => nexus # NoAcb

\* ACB_NEXUS is set for every established command, so that its completion
\* releases the lun
NexusFlagged == \A a \in Established : "NEXUS" \in flags[a]

\* the command being selected, or left behind by a reset, found its lun free
PendingIsFree == ~Connected /\ nexus # NoAcb => lun[nexus] \notin lubusy

IInv ==
    /\ QueueType /\ Exclusive /\ TimerOnlyWhilePending
    /\ NexusHeld /\ NexusFlagged /\ PendingIsFree
    /\ OneNexusPerLun /\ EstablishedIsBusy

\* members of a list of command blocks are command blocks, and not NoAcb
LEMMA Listed ==
    ASSUME NEW s \in Seq(Acb)
    PROVE  ToSet(s) \subseteq Acb /\ NoAcb \notin ToSet(s)
<1>1. \A i \in DOMAIN s : s[i] \in Acb
    OBVIOUS
<1> QED BY <1>1, NullAssumption DEF ToSet

\* spc_sched() either finds nothing and leaves q as it is, or takes out of q one
\* command whose lun is not busy and makes it the nexus
LEMMA SchedStep ==
    ASSUME NEW q \in Seq(Acb), IsInjective(q), NEW b, NEW n, Sched(q, b, n)
    PROVE  /\ ready' \in Seq(Acb) /\ IsInjective(ready')
           /\ \/ ready' = q /\ nexus' = n /\ state' = "IDLE"
              \/ /\ state' = "SELECTING"
                 /\ nexus' \in ToSet(q) /\ lun[nexus'] \notin b
                 /\ ToSet(ready') = ToSet(q) \ {nexus'}
<1> DEFINE idle == {i \in DOMAIN q : lun[q[i]] \notin b}
<1>1. CASE idle = {} /\ nexus' = n /\ state' = "IDLE" /\ ready' = q
    BY <1>1
<1>2. CASE \E i \in idle : Select(q[i]) /\ ready' = RemoveAt(q, i)
    <2>1. PICK i \in idle : Select(q[i]) /\ ready' = RemoveAt(q, i)
        BY <1>2
    <2>2. i \in DOMAIN q /\ lun[q[i]] \notin b
        OBVIOUS
    <2>3. ready' \in Seq(Acb) /\ IsInjective(ready') /\ ToSet(ready') = ToSet(q) \ {q[i]}
        BY <2>1, <2>2, RemoveAtSet
    <2>4. nexus' = q[i] /\ state' = "SELECTING" /\ q[i] \in ToSet(q)
        BY <2>1, <2>2 DEF Select, ToSet
    <2> QED BY <2>2, <2>3, <2>4
<1> QED BY <1>1, <1>2 DEF Sched

\* what every step that leaves the queues alone has to respect
LEMMA QuietStep ==
    ASSUME IInv,
           UNCHANGED <<queueVars, own, lun>>,
           flags' \in [Acb -> SUBSET Flag],
           \A a \in Acb : "NEXUS" \in flags[a] => "NEXUS" \in flags'[a],
           timer' \subseteq timer,
           state' = state \/ (Connected /\ state' \in {"CONNECTED", "DISCONNECT", "CMDCOMPLETE"})
    PROVE  IInv'
<1> USE DEF IInv, QueueType, queueVars
<1>1. /\ nexus' = nexus /\ ready' = ready /\ nexusq' = nexusq /\ lubusy' = lubusy
      /\ own' = own /\ lun' = lun
    OBVIOUS
<1>2. (Connected' <=> Connected) /\ state' \in States
      /\ (state' = "SELECTING" => state = "SELECTING")
    BY DEF Connected, States
<1>3. Established' = Established /\ Established \subseteq Acb
    BY <1>1, <1>2, Listed DEF Established, NexusHeld
<1>4. QueueType' /\ Exclusive' /\ TimerOnlyWhilePending'
    BY <1>1, <1>2 DEF Exclusive, TimerOnlyWhilePending, Queued
<1>5. NexusHeld' /\ NexusFlagged' /\ PendingIsFree'
    BY <1>1, <1>2, <1>3 DEF NexusHeld, NexusFlagged, PendingIsFree
<1>6. OneNexusPerLun' /\ EstablishedIsBusy'
    BY <1>1, <1>3 DEF OneNexusPerLun, EstablishedIsBusy
<1> QED BY <1>4, <1>5, <1>6

\* spc_sched() on any consistent pair of lists restores the invariant
LEMMA SchedInv ==
    ASSUME NEW q, NEW n \in Acb \cup {NoAcb},
           Sched(q, lubusy', n), lun' = lun,
           q \in Seq(Acb), IsInjective(q),
           nexusq' \in Seq(Acb), IsInjective(nexusq'),
           ToSet(q) \cap ToSet(nexusq') = {},
           n \notin ToSet(q) \cup ToSet(nexusq'),
           own' \in [Acb -> Owner], flags' \in [Acb -> SUBSET Flag],
           timer' \subseteq Acb, TimerOnlyWhilePending',
           \A a \in ToSet(q) \cup ToSet(nexusq') : own'[a] = "drv",
           n # NoAcb => own'[n] = "drv" /\ lun[n] \notin lubusy',
           \A a \in ToSet(nexusq') : "NEXUS" \in flags'[a] /\ lun[a] \in lubusy',
           \A a, b \in ToSet(nexusq') : lun[a] = lun[b] => a = b
    PROVE  IInv'
<1>1. /\ ready' \in Seq(Acb) /\ IsInjective(ready')
      /\ \/ ready' = q /\ nexus' = n /\ state' = "IDLE"
         \/ /\ state' = "SELECTING"
            /\ nexus' \in ToSet(q) /\ lun[nexus'] \notin lubusy'
            /\ ToSet(ready') = ToSet(q) \ {nexus'}
    BY SchedStep
<1>2. /\ ToSet(q) \subseteq Acb /\ NoAcb \notin ToSet(q)
      /\ ToSet(nexusq') \subseteq Acb /\ NoAcb \notin ToSet(nexusq')
    BY Listed
<1>3. QueueType'
    BY <1>1, <1>2 DEF QueueType, States
<1>4. Exclusive'
    BY <1>1, <1>2, NullAssumption DEF Exclusive, Queued
<1>5. ~Connected' /\ Established' = ToSet(nexusq')
    BY <1>1 DEF Connected, Established
<1>6. NexusHeld' /\ PendingIsFree'
    BY <1>1, <1>2, <1>5 DEF NexusHeld, PendingIsFree
<1>7. NexusFlagged' /\ OneNexusPerLun' /\ EstablishedIsBusy'
    BY <1>5 DEF NexusFlagged, OneNexusPerLun, EstablishedIsBusy
<1> QED BY <1>3, <1>4, <1>6, <1>7 DEF IInv

\* a step that keeps the nexus and the state may move commands to the ready list
LEMMA RequeueStep ==
    ASSUME IInv,
           UNCHANGED <<nexus, state, lubusy, lun>>,
           ready' \in Seq(Acb), IsInjective(ready'),
           nexusq' \in Seq(Acb), IsInjective(nexusq'),
           ToSet(nexusq') \subseteq ToSet(nexusq),
           ToSet(ready') \cap ToSet(nexusq') = {},
           nexus \notin ToSet(ready') \cup ToSet(nexusq'),
           own' \in [Acb -> Owner], flags' \in [Acb -> SUBSET Flag],
           \A a \in Acb : own[a] = "drv" => own'[a] = "drv",
           \A a \in ToSet(ready') : own'[a] = "drv",
           \A a \in Acb : "NEXUS" \in flags[a] => "NEXUS" \in flags'[a],
           timer' \subseteq timer
    PROVE  IInv'
<1> USE DEF IInv, QueueType
<1>1. nexus' = nexus /\ state' = state /\ lubusy' = lubusy /\ lun' = lun
    OBVIOUS
<1>2. ToSet(nexusq) \subseteq Acb /\ ToSet(ready') \subseteq Acb
    BY Listed
<1>3. Connected' <=> Connected
    BY <1>1 DEF Connected
<1>4. Established' \subseteq Established /\ Established \subseteq Acb
    BY <1>1, <1>2, <1>3 DEF Established, NexusHeld
<1>5. QueueType' /\ TimerOnlyWhilePending'
    BY <1>1, <1>2 DEF TimerOnlyWhilePending
<1>6. Exclusive'
    BY <1>1, <1>2 DEF Exclusive, Queued
<1>7. NexusHeld' /\ NexusFlagged' /\ PendingIsFree'
    BY <1>1, <1>3, <1>4 DEF NexusHeld, NexusFlagged, PendingIsFree
<1>8. OneNexusPerLun' /\ EstablishedIsBusy'
    BY <1>1, <1>4 DEF OneNexusPerLun, EstablishedIsBusy
<1> QED BY <1>5, <1>6, <1>7, <1>8

-----------------------------------------------------------------------------
(* One lemma per group of actions *)

\* a command block the driver does not have is on no list
LEMMA NotQueued ==
    ASSUME IInv, NEW a \in Acb, own[a] # "drv"
    PROVE  /\ a \notin ToSet(ready) /\ a \notin ToSet(nexusq) /\ a # nexus
           /\ a \notin timer /\ a \notin Established
BY DEF IInv, Exclusive, TimerOnlyWhilePending, Queued, Established

\* The mid layer's calls: allocation, release and retry concern a block that is
\* on no list; spc_scsi_cmd() puts such a block on the ready list.
LEMMA MidLayerStep == ASSUME IInv, MidLayer PROVE IInv'
<1> USE DEF IInv, QueueType
<1>1. ASSUME NEW a \in Acb, own[a] # "drv",
             UNCHANGED <<queueVars, state, timer>>,
             own' \in [Acb -> Owner], own'[a] # "drv", flags' \in [Acb -> SUBSET Flag],
             \A c \in Acb \ {a} : own'[c] = own[c] /\ lun'[c] = lun[c] /\ flags'[c] = flags[c]
      PROVE  IInv'
    <2>1. /\ nexus' = nexus /\ ready' = ready /\ nexusq' = nexusq /\ lubusy' = lubusy
          /\ state' = state /\ timer' = timer
        BY <1>1 DEF queueVars
    <2>2. ToSet(ready) \subseteq Acb /\ ToSet(nexusq) \subseteq Acb
        BY Listed
    <2>3. Established' = Established /\ Established \subseteq Acb \ {a}
        BY <1>1, <2>1, <2>2, NotQueued DEF Established, Connected, NexusHeld
    <2>4. QueueType' /\ Exclusive' /\ TimerOnlyWhilePending'
        BY <1>1, <2>1, <2>2, NotQueued DEF Exclusive, TimerOnlyWhilePending, Queued
    <2>5. NexusHeld' /\ NexusFlagged' /\ PendingIsFree'
        BY <1>1, <2>1, <2>3, NotQueued DEF NexusHeld, NexusFlagged, PendingIsFree, Connected
    <2>6. OneNexusPerLun' /\ EstablishedIsBusy'
        BY <1>1, <2>1, <2>3 DEF OneNexusPerLun, EstablishedIsBusy
    <2> QED BY <2>4, <2>5, <2>6
<1>2. ASSUME NEW a \in Acb, NEW l \in Lun, AcbAlloc(a, l) PROVE IInv'
    <2>1. /\ own[a] # "drv" /\ own' = [own EXCEPT ![a] = "held"] /\ flags' = flags
          /\ lun' = [lun EXCEPT ![a] = l] /\ UNCHANGED <<queueVars, state, timer>>
        BY <1>2 DEF AcbAlloc, ctlVars
    <2> QED BY <1>1, <2>1 DEF Owner
<1>3. ASSUME NEW a \in Acb, AcbFree(a) PROVE IInv'
    <2>1. /\ own[a] # "drv" /\ own' = [own EXCEPT ![a] = "free"]
          /\ flags' = [flags EXCEPT ![a] = {}] /\ lun' = [lun EXCEPT ![a] = NoLun]
          /\ UNCHANGED <<queueVars, state, timer>>
        BY <1>3 DEF AcbFree, ctlVars
    <2> QED BY <1>1, <2>1 DEF Owner
<1>4. ASSUME NEW a \in Acb, Retry(a) PROVE IInv'
    <2>1. /\ own[a] # "drv" /\ own' = [own EXCEPT ![a] = "held"]
          /\ flags' = flags /\ lun' = lun /\ UNCHANGED <<queueVars, state, timer>>
        BY <1>4 DEF Retry, ctlVars
    <2> QED BY <1>1, <2>1 DEF Owner
<1>5. ASSUME NEW a \in Acb, NEW rst \in BOOLEAN, NEW pl \in BOOLEAN, ScsiCmd(a, rst, pl)
      PROVE  IInv'
    <2> DEFINE q == Append(ready, a)
    <2>1. /\ own[a] # "drv" /\ own' = [own EXCEPT ![a] = "drv"]
          /\ flags' = [flags EXCEPT ![a] = IF rst THEN @ \cup {"RESET"} ELSE @]
          /\ UNCHANGED <<nexusq, lubusy, lun, timer>>
        BY <1>5 DEF ScsiCmd
    <2>2. a \notin ToSet(ready) \cup ToSet(nexusq) \cup {nexus}
        BY <2>1, NotQueued
    <2>3. q \in Seq(Acb) /\ IsInjective(q) /\ ToSet(q) = ToSet(ready) \cup {a}
        BY <2>2, AppendSet DEF Exclusive
    <2>4. ToSet(ready) \subseteq Acb /\ ToSet(nexusq) \subseteq Acb
        BY Listed
    <2>5. /\ own' \in [Acb -> Owner] /\ flags' \in [Acb -> SUBSET Flag]
          /\ own'[a] = "drv" /\ \A c \in Acb : own[c] = "drv" => own'[c] = "drv"
          /\ \A c \in Acb : "NEXUS" \in flags[c] => "NEXUS" \in flags'[c]
        BY <2>1 DEF Owner, Flag
    <2>6. \A c \in ToSet(q) : own'[c] = "drv"
        BY <2>3, <2>4, <2>5 DEF Exclusive, Queued
    <2>7. ToSet(q) \cap ToSet(nexusq) = {} /\ nexus \notin ToSet(q) \cup ToSet(nexusq)
        BY <2>2, <2>3 DEF Exclusive
    <2> HIDE DEF q
    <2>8. CASE state = "IDLE" /\ Sched(q, lubusy, nexus)
        <3>1. ~Connected /\ Established = ToSet(nexusq)
            BY <2>8 DEF Connected, Established
        <3>2. \A c \in ToSet(nexusq) : "NEXUS" \in flags'[c] /\ lun[c] \in lubusy
            BY <2>4, <2>5, <3>1 DEF NexusFlagged, EstablishedIsBusy
        <3>3. \A c, d \in ToSet(nexusq) : lun[c] = lun[d] => c = d
            BY <3>1 DEF OneNexusPerLun
        <3>4. nexus # NoAcb => own'[nexus] = "drv" /\ lun[nexus] \notin lubusy
            BY <2>5, <3>1 DEF PendingIsFree, Exclusive, Queued
        <3>5. TimerOnlyWhilePending' /\ \A c \in ToSet(nexusq) : own'[c] = "drv"
            BY <2>1, <2>4, <2>5 DEF TimerOnlyWhilePending, Exclusive, Queued
        <3> QED
            BY <2>1, <2>3, <2>5, <2>6, <2>7, <2>8, <3>2, <3>3, <3>4, <3>5, SchedInv
               DEF Exclusive
    <2>9. CASE ready' = q /\ UNCHANGED <<nexus, state>>
        BY <2>1, <2>3, <2>5, <2>6, <2>7, <2>9, RequeueStep DEF Exclusive
    <2> QED BY <1>5, <2>8, <2>9 DEF ScsiCmd, q
<1> QED BY <1>2, <1>3, <1>4, <1>5 DEF MidLayer

\* spc_abort(): whatever list the command was on, it ends up on one
LEMMA AbortStep ==
    ASSUME IInv, NEW a \in Acb, own[a] = "drv", Abort(a),
           UNCHANGED <<own, lun, lubusy>>, timer' \subseteq timer
    PROVE  IInv'
<1> USE DEF IInv, QueueType
<1> DEFINE q == Push(a, Unlink(ready, a))
<1>1. /\ flags' \in [Acb -> SUBSET Flag]
      /\ \A c \in Acb : "NEXUS" \in flags[c] => "NEXUS" \in flags'[c]
    BY DEF Abort, Flag
<1>2. CASE UNCHANGED <<nexus, ready, nexusq, state>>
    BY <1>1, <1>2, QuietStep DEF queueVars
<1>3. CASE /\ a # nexus /\ nexusq' = Unlink(nexusq, a)
           /\ \/ state = "IDLE" /\ Sched(q, lubusy, nexus)
              \/ ready' = q /\ UNCHANGED <<nexus, state>>
    <2>1. /\ Unlink(ready, a) \in Seq(Acb) /\ IsInjective(Unlink(ready, a))
          /\ ToSet(Unlink(ready, a)) = ToSet(ready) \ {a}
        BY UnlinkSet DEF Exclusive
    <2>2. q \in Seq(Acb) /\ IsInjective(q) /\ ToSet(q) = ToSet(ready) \cup {a}
        BY <2>1, PushSet
    <2>3. /\ nexusq' \in Seq(Acb) /\ IsInjective(nexusq')
          /\ ToSet(nexusq') = ToSet(nexusq) \ {a}
        BY <1>3, UnlinkSet DEF Exclusive
    <2> HIDE DEF q
    <2>4. /\ ToSet(q) \cap ToSet(nexusq') = {}
          /\ nexus \notin ToSet(q) \cup ToSet(nexusq')
          /\ \A c \in ToSet(q) \cup ToSet(nexusq') : own'[c] = "drv"
        <3>1. ToSet(ready) \subseteq Acb /\ ToSet(nexusq) \subseteq Acb
            BY Listed
        <3> QED BY <1>3, <2>2, <2>3, <3>1 DEF Exclusive, Queued
    <2>5. CASE state = "IDLE" /\ Sched(q, lubusy, nexus)
        <3>1. ~Connected /\ ToSet(nexusq') \subseteq Established /\ Established \subseteq Acb
            BY <2>3, <2>5, Listed DEF Connected, Established
        <3>2. \A c \in ToSet(nexusq') : "NEXUS" \in flags'[c] /\ lun[c] \in lubusy
            BY <1>1, <3>1 DEF NexusFlagged, EstablishedIsBusy
        <3>3. \A c, d \in ToSet(nexusq') : lun[c] = lun[d] => c = d
            BY <3>1 DEF OneNexusPerLun
        <3>4. nexus # NoAcb => own'[nexus] = "drv" /\ lun[nexus] \notin lubusy
            BY <3>1 DEF PendingIsFree, Exclusive, Queued
        <3>5. TimerOnlyWhilePending' /\ timer' \subseteq Acb
            BY DEF TimerOnlyWhilePending
        <3> QED
            BY <1>1, <2>2, <2>3, <2>4, <2>5, <3>2, <3>3, <3>4, <3>5, SchedInv
    <2>6. CASE ready' = q /\ UNCHANGED <<nexus, state>>
        BY <1>1, <2>2, <2>3, <2>4, <2>6, RequeueStep
    <2> QED BY <1>3, <2>5, <2>6
<1> QED BY <1>2, <1>3 DEF Abort

\* a timeout on a command that is the driver's
LEMMA TimeoutBodyStep ==
    ASSUME IInv, NEW a \in Acb, own[a] = "drv", TimeoutBody(a), timer' \subseteq timer
    PROVE  IInv'
<1>1. CASE UNCHANGED <<queueVars, flags, state>>
    BY <1>1, QuietStep DEF TimeoutBody, IInv, QueueType
<1>2. CASE Abort(a) /\ UNCHANGED lubusy
    BY <1>2, AbortStep DEF TimeoutBody
<1> QED BY <1>1, <1>2 DEF TimeoutBody

\* Timeouts: the one that fires late is followed only while the block is the
\* driver's, and a poll that has expired holds a command that is.
LEMMA ClockStep == ASSUME TypeOK, IInv, Clock PROVE IInv'
<1> USE DEF TypeOK
<1>1. ASSUME NEW a \in Acb, Timeout(a) PROVE IInv'
    <2>1. own[a] = "drv" /\ TimeoutBody(a) /\ timer' \subseteq timer
        BY <1>1 DEF Timeout, IInv, TimerOnlyWhilePending
    <2> QED BY <2>1, TimeoutBodyStep
<1>2. ASSUME NEW a \in Acb, TimeoutFire(a) PROVE IInv'
    BY <1>2, QuietStep DEF TimeoutFire, ctlVars, IInv, QueueType
<1>3. CASE TimeoutRun
    BY <1>3, TimeoutBodyStep DEF TimeoutRun
<1>4. CASE PollExpire
    BY <1>4, TimeoutBodyStep DEF PollExpire
<1>5. CASE PollDone
    BY <1>5, QuietStep DEF PollDone, acbVars, IInv, QueueType
<1> QED BY <1>1, <1>2, <1>3, <1>4, <1>5 DEF Clock

\* spc_sched() called with the ready list as it is, when nothing is connected
LEMMA ScheduleReady ==
    ASSUME IInv, ~Connected, Sched(ready, lubusy, nexus),
           UNCHANGED <<nexusq, lubusy, own, lun, flags, timer>>
    PROVE  IInv'
<1> USE DEF IInv, QueueType
<1>1. Established = ToSet(nexusq) /\ ToSet(nexusq) \subseteq Acb /\ ToSet(ready) \subseteq Acb
    BY Listed DEF Established
<1>2. \A a \in ToSet(ready) \cup ToSet(nexusq) : own'[a] = "drv"
    BY <1>1 DEF Exclusive, Queued
<1>3. nexus # NoAcb => own'[nexus] = "drv" /\ lun[nexus] \notin lubusy
    BY DEF Exclusive, Queued, PendingIsFree
<1>4. \A a \in ToSet(nexusq) : "NEXUS" \in flags'[a] /\ lun[a] \in lubusy
    BY <1>1 DEF NexusFlagged, EstablishedIsBusy
<1>5. \A a, b \in ToSet(nexusq) : lun[a] = lun[b] => a = b
    BY <1>1 DEF OneNexusPerLun
<1>6. TimerOnlyWhilePending'
    BY DEF TimerOnlyWhilePending
<1> QED BY <1>2, <1>3, <1>4, <1>5, <1>6, SchedInv DEF Exclusive

\* spc_sense() on an established nexus frees its lun and selects it again
LEMMA SenseStep ==
    ASSUME IInv, Connected, Sense(nexus), UNCHANGED <<nexusq, lun>>, timer' \subseteq timer
    PROVE  IInv'
<1> USE DEF IInv, QueueType
<1>1. /\ nexus \in Acb /\ nexus' = nexus /\ ready' = ready /\ nexusq' = nexusq
      /\ own' = own /\ lun' = lun /\ state' = "SELECTING"
      /\ flags' = [flags EXCEPT ![nexus] = @ \cup {"SENSE"}]
    BY DEF Sense, Select, NexusHeld
<1>2. nexus \in Established /\ ToSet(nexusq) \subseteq Established
    BY DEF Established
<1>3. lubusy' = lubusy \ {lun[nexus]}
    BY <1>1, <1>2 DEF Sense, Release, NexusFlagged
<1>4. ~Connected' /\ Established' = ToSet(nexusq) /\ ToSet(nexusq) \subseteq Acb
    BY <1>1, Listed DEF Connected, Established
<1>5. QueueType' /\ TimerOnlyWhilePending' /\ Exclusive'
    BY <1>1 DEF States, Flag, TimerOnlyWhilePending, Exclusive, Queued
<1>6. NexusHeld' /\ PendingIsFree'
    BY <1>1, <1>3, NullAssumption DEF NexusHeld, PendingIsFree
<1>7. NexusFlagged' /\ OneNexusPerLun'
    BY <1>1, <1>2, <1>4 DEF NexusFlagged, OneNexusPerLun
<1>8. EstablishedIsBusy'
    <2>1. \A a \in ToSet(nexusq) : lun[a] \in lubusy /\ lun[a] # lun[nexus]
        BY <1>2 DEF EstablishedIsBusy, OneNexusPerLun, Exclusive
    <2> QED BY <1>1, <1>3, <1>4, <2>1 DEF EstablishedIsBusy
<1> QED BY <1>5, <1>6, <1>7, <1>8

\* timeout_del() and spc_done() on the nexus, selected or connected
LEMMA FinishStep ==
    ASSUME IInv, NEW e, Finish(nexus, e),
           Connected \/ (state = "SELECTING" /\ e # "NOERROR")
    PROVE  IInv'
<1> USE DEF IInv, QueueType
<1>1. timer' = timer \ {nexus} /\ nexusq' = nexusq /\ lun' = lun /\ nexus \in Acb
    BY DEF Finish, TimeoutDel, NexusHeld
<1>2. CASE NeedsSense(nexus, e) /\ Sense(nexus)
    BY <1>1, <1>2, SenseStep DEF NeedsSense
<1>3. CASE /\ own' = [own EXCEPT ![nexus] = "done"] /\ lubusy' = Release(nexus)
           /\ Sched(ready, lubusy', NoAcb) /\ flags' = flags
    <2>1. /\ ToSet(nexusq) \subseteq Established /\ ToSet(nexusq) \subseteq Acb
          /\ ToSet(ready) \subseteq Acb /\ NoAcb \notin ToSet(ready) \cup ToSet(nexusq)
        BY Listed DEF Established
    <2>2. \A a \in ToSet(ready) \cup ToSet(nexusq) : own'[a] = "drv"
        BY <1>1, <1>3, <2>1 DEF Exclusive, Queued
    <2>3. lubusy' \in {lubusy, lubusy \ {lun[nexus]}}
        BY <1>3 DEF Release
    <2>4. \A a \in ToSet(nexusq) : lun[a] \in lubusy /\ lun[a] # lun[nexus]
        <3>1. CASE Connected
            BY <2>1, <3>1 DEF EstablishedIsBusy, OneNexusPerLun, Exclusive, Established
        <3>2. CASE ~Connected
            BY <1>1, <2>1, <3>2, NullAssumption DEF EstablishedIsBusy, PendingIsFree
        <3> QED BY <3>1, <3>2
    <2>5. \A a \in ToSet(nexusq) : "NEXUS" \in flags'[a] /\ lun[a] \in lubusy'
        BY <1>3, <2>1, <2>3, <2>4 DEF NexusFlagged
    <2>6. \A a, b \in ToSet(nexusq) : lun[a] = lun[b] => a = b
        BY <2>1 DEF OneNexusPerLun
    <2>7. TimerOnlyWhilePending'
        BY <1>1, <1>3 DEF TimerOnlyWhilePending
    <2>8. own' \in [Acb -> Owner]
        BY <1>3 DEF Owner
    <2> QED
        BY <1>1, <1>3, <2>1, <2>2, <2>5, <2>6, <2>7, <2>8, SchedInv DEF Exclusive
<1> QED BY <1>2, <1>3 DEF Finish

\* spc_init() empties nexus_list; the command that spc_sched() picks before the
\* state is forced to SPC_IDLE stays in sc_nexus, with a lun that is free
LEMMA SpcInitStep == ASSUME IInv, SpcInit PROVE IInv'
<1> USE DEF IInv, QueueType
<1>1. /\ own' = [a \in Acb |-> IF a \in Cancelled THEN "done" ELSE own[a]]
      /\ timer' = timer \ Cancelled /\ nexusq' = <<>> /\ state' = "IDLE"
      /\ lun' = lun /\ flags' = flags
      /\ lubusy' = lubusy \ {lun[a] : a \in {b \in Cancelled : "NEXUS" \in flags[b]}}
    BY DEF SpcInit
<1>2. /\ ToSet(ready) \subseteq Acb /\ NoAcb \notin ToSet(ready) /\ ToSet(<<>>) = {}
      /\ ToSet(ready) \cap Cancelled = {}
    <2>1. ToSet(<<>>) = {}
        BY DEF ToSet
    <2>2. ToSet(ready) \cap Cancelled = {}
        BY DEF Cancelled, Exclusive
    <2> QED BY <2>1, <2>2, Listed
<1> DEFINE Left ==
        /\ ready' \in Seq(Acb) /\ IsInjective(ready') /\ ToSet(ready') \subseteq ToSet(ready)
        /\ nexus' \in ToSet(ready) \cup {NoAcb} /\ nexus' \notin ToSet(ready')
        /\ nexus' # NoAcb => lun[nexus'] \notin lubusy'
<1>3. Left
    <2>1. CASE nexus' = NoAcb /\ ready' = ready
        BY <1>2, <2>1 DEF Exclusive
    <2>2. ASSUME nexus # NoAcb, NEW i \in DOMAIN ready, lun[ready[i]] \notin Release(nexus),
                 nexus' = ready[i], ready' = RemoveAt(ready, i)
          PROVE  Left
        <3>1. /\ ready' \in Seq(Acb) /\ IsInjective(ready')
              /\ ToSet(ready') = ToSet(ready) \ {nexus'}
            BY <2>2, RemoveAtSet DEF Exclusive
        <3>2. nexus' \in ToSet(ready)
            BY <2>2 DEF ToSet
        <3>3. nexus \in Cancelled /\ lubusy' \subseteq Release(nexus)
            BY <1>1, <2>2 DEF Cancelled, Release
        <3> QED BY <2>2, <3>1, <3>2, <3>3
    <2>3. CASE nexus = NoAcb /\ UNCHANGED <<nexus, ready>>
        BY <1>2, <2>3 DEF Exclusive
    <2> QED BY <2>1, <2>2, <2>3 DEF SpcInit
<1>4. ~Connected' /\ Established' = {}
    BY <1>1, <1>2 DEF Connected, Established
<1>5. QueueType' /\ TimerOnlyWhilePending'
    BY <1>1, <1>2, <1>3 DEF States, Owner, TimerOnlyWhilePending
<1>6. Exclusive'
    <2>1. IsInjective(nexusq')
        BY <1>1 DEF IsInjective
    <2>2. \A a \in ToSet(ready) : own'[a] = "drv"
        BY <1>1, <1>2 DEF Exclusive, Queued
    <2> QED BY <1>1, <1>2, <1>3, <2>1, <2>2, NullAssumption DEF Exclusive, Queued
<1>7. NexusHeld' /\ NexusFlagged' /\ PendingIsFree'
    BY <1>1, <1>3, <1>4 DEF NexusHeld, NexusFlagged, PendingIsFree
<1>8. OneNexusPerLun' /\ EstablishedIsBusy'
    BY <1>4 DEF OneNexusPerLun, EstablishedIsBusy
<1> QED BY <1>5, <1>6, <1>7, <1>8

\* New interrupts at SPC_IDLE and SPC_SELECTING.  A reselection that overtakes a
\* selection puts the selected command back; a selection that succeeds finds no
\* other command established on the lun.
LEMMA SelectionStep == ASSUME IInv, Selection PROVE IInv'
<1> USE DEF IInv, QueueType
<1>1. AtRest => ~Connected
    BY DEF AtRest, Connected
<1>2. CASE IntrSelected
    <2>1. /\ state = "SELECTING" /\ state' = "CONNECTED" /\ nexus \in Acb /\ ~Connected
          /\ UNCHANGED <<nexus, ready, nexusq, own, lun>>
          /\ flags' = [flags EXCEPT ![nexus] = @ \cup {"NEXUS"}]
          /\ lubusy' = lubusy \cup {lun[nexus]} /\ timer' \subseteq timer \cup {nexus}
        BY <1>2 DEF IntrSelected, NexusHeld, Connected
    <2>2. /\ ToSet(nexusq) \subseteq Acb /\ Established = ToSet(nexusq)
          /\ Connected' /\ Established' = Established \cup {nexus}
        BY <2>1, Listed DEF Established, Connected
    <2>3. QueueType' /\ TimerOnlyWhilePending' /\ Exclusive'
        BY <2>1 DEF States, Flag, TimerOnlyWhilePending, Exclusive, Queued
    <2>4. NexusHeld' /\ NexusFlagged' /\ PendingIsFree'
        BY <2>1, <2>2, NullAssumption DEF NexusHeld, NexusFlagged, PendingIsFree
    <2>5. lun[nexus] \notin lubusy
        BY <2>1, NullAssumption DEF PendingIsFree
    <2>6. OneNexusPerLun' /\ EstablishedIsBusy'
        BY <2>1, <2>2, <2>5 DEF OneNexusPerLun, EstablishedIsBusy
    <2> QED BY <2>3, <2>4, <2>6
<1>3. CASE IntrSelTimeout
    BY <1>3, FinishStep DEF IntrSelTimeout
<1>4. CASE IntrSelectWhileIdle \/ IntrReset
    BY <1>4, SpcInitStep DEF IntrSelectWhileIdle, IntrReset
<1>5. CASE IntrTargetMode
    BY <1>1, <1>5, ScheduleReady DEF IntrTargetMode, acbVars
<1>6. CASE IntrBusFree
    BY <1>1, <1>6, ScheduleReady DEF IntrBusFree, acbVars
<1>7. ASSUME NEW l \in Lun, IntrReselected(l) PROVE IInv'
    <2>1. /\ ~Connected /\ state' = "RESELECTED"
          /\ UNCHANGED <<nexusq, lubusy, own, lun, flags, timer>>
        BY <1>1, <1>7 DEF IntrReselected, acbVars
    <2>2. /\ ready' \in Seq(Acb) /\ IsInjective(ready')
          /\ \/ nexus \in Acb /\ nexus' = NoAcb /\ ToSet(ready') = ToSet(ready) \cup {nexus}
             \/ nexus' = nexus /\ ready' = ready
        <3>1. CASE state = "SELECTING" /\ ready' = Push(nexus, ready) /\ nexus' = NoAcb
            <4>1. nexus \in Acb /\ nexus \notin ToSet(ready) /\ IsInjective(ready)
                BY <3>1 DEF NexusHeld, Exclusive
            <4> QED BY <3>1, <4>1, PushSet
        <3>2. CASE UNCHANGED <<ready, nexus>>
            BY <3>2 DEF Exclusive
        <3> QED BY <1>7, <3>1, <3>2 DEF IntrReselected
    <2>3. /\ ToSet(ready) \subseteq Acb /\ NoAcb \notin ToSet(ready)
          /\ ToSet(nexusq) \subseteq Acb /\ NoAcb \notin ToSet(nexusq)
          /\ ~Connected' /\ Established' = ToSet(nexusq) /\ Established = ToSet(nexusq)
        BY <2>1, Listed DEF Connected, Established
    <2>4. QueueType' /\ TimerOnlyWhilePending'
        BY <2>1, <2>2 DEF States, TimerOnlyWhilePending
    <2>5. Exclusive'
        BY <2>1, <2>2, <2>3, NullAssumption DEF Exclusive, Queued
    <2>6. NexusHeld' /\ NexusFlagged' /\ PendingIsFree'
        BY <2>1, <2>2, <2>3 DEF NexusHeld, NexusFlagged, PendingIsFree
    <2>7. OneNexusPerLun' /\ EstablishedIsBusy'
        BY <2>1, <2>3 DEF OneNexusPerLun, EstablishedIsBusy
    <2> QED BY <2>4, <2>5, <2>6, <2>7
<1> QED BY <1>2, <1>3, <1>4, <1>5, <1>6, <1>7 DEF Selection

\* The bus goes free: the nexus is finished, sensed or put on nexus_list.
LEMMA BusFreeStep == ASSUME IInv, BusFree PROVE IInv'
<1> USE DEF IInv, QueueType
<1>1. CASE DisconReselected
    <2>1. ~Connected
        BY <1>1 DEF DisconReselected, Connected
    <2> QED BY <1>1, <2>1, ScheduleReady DEF DisconReselected, acbVars
<1>2. CASE DisconUnexpected
    BY <1>2, SenseStep DEF DisconUnexpected, Connected
<1>3. CASE DisconAborted
    BY <1>3, FinishStep DEF DisconAborted, Connected
<1>4. CASE DisconComplete
    BY <1>4, FinishStep DEF DisconComplete, Connected
<1>5. CASE DisconDisconnect
    <2>1. /\ nexus \in Acb /\ nexus \notin ToSet(nexusq) /\ nexus \notin ToSet(ready)
          /\ Established = ToSet(nexusq) \cup {nexus}
        BY <1>5 DEF DisconDisconnect, NexusHeld, Exclusive, Connected, Established
    <2>2. /\ nexusq' \in Seq(Acb) /\ IsInjective(nexusq')
          /\ ToSet(nexusq') = Established
        BY <1>5, <2>1, PushSet DEF DisconDisconnect, Exclusive
    <2>3. /\ Sched(ready, lubusy', NoAcb)
          /\ UNCHANGED <<lubusy, own, lun, flags, timer>>
        BY <1>5 DEF DisconDisconnect, acbVars
    <2>4. /\ ToSet(ready) \subseteq Acb /\ NoAcb \notin ToSet(ready)
          /\ ToSet(nexusq) \subseteq Acb /\ NoAcb \notin Established
        BY <2>1, Listed, NullAssumption
    <2>5. \A a \in ToSet(ready) \cup ToSet(nexusq') : own'[a] = "drv"
        BY <2>1, <2>2, <2>3, <2>4 DEF Exclusive, Queued
    <2>6. \A a \in ToSet(nexusq') : "NEXUS" \in flags'[a] /\ lun[a] \in lubusy'
        BY <2>2, <2>3 DEF NexusFlagged, EstablishedIsBusy
    <2>7. \A a, b \in ToSet(nexusq') : lun[a] = lun[b] => a = b
        BY <2>2 DEF OneNexusPerLun
    <2>8. TimerOnlyWhilePending'
        BY <2>3 DEF TimerOnlyWhilePending
    <2>9. ToSet(ready) \cap ToSet(nexusq') = {}
        BY <2>1, <2>2 DEF Exclusive
    <2> QED
        BY <2>2, <2>3, <2>4, <2>5, <2>6, <2>7, <2>8, <2>9, SchedInv DEF Exclusive
<1> QED BY <1>1, <1>2, <1>3, <1>4, <1>5 DEF BusFree

\* Information phases other than MESSAGE IN leave the lists alone, except that one
\* the state does not allow restarts the driver.
LEMMA InformationStep == ASSUME IInv, Information PROVE IInv'
<1> USE DEF IInv, QueueType
<1>1. CASE PhaseUnexpected
    BY <1>1, SpcInitStep DEF PhaseUnexpected
<1>2. CASE UNCHANGED <<queueVars, own, lun, flags, timer, state>>
    BY <1>2, QuietStep
<1> QED
    BY <1>1, <1>2 DEF Information, IntrReturn, IntrParity, PhaseMsgOut, PhaseData,
                      PhaseStat, acbVars

\* MESSAGE IN changes the lists only when a reselecting target identifies itself:
\* the command that was disconnected on its lun becomes the nexus again.
LEMMA MessageInStep == ASSUME IInv, MessageIn PROVE IInv'
<1> USE DEF IInv, QueueType
<1>1. ASSUME NEW l \in Lun, NEW i \in DOMAIN nexusq, lun[nexusq[i]] = l,
             nexus' = nexusq[i], nexusq' = RemoveAt(nexusq, i),
             state = "RESELECTED", state' = "CONNECTED", lubusy' = lubusy \cup {l},
             UNCHANGED <<ready, acbVars>>
      PROVE  IInv'
    <2>1. /\ nexusq' \in Seq(Acb) /\ IsInjective(nexusq')
          /\ ToSet(nexusq') = ToSet(nexusq) \ {nexus'}
          /\ nexus' \in ToSet(nexusq) /\ ToSet(nexusq) \subseteq Acb /\ NoAcb \notin ToSet(nexusq)
        <3>1. nexusq[i] \in ToSet(nexusq)
            BY DEF ToSet
        <3>2. /\ RemoveAt(nexusq, i) \in Seq(Acb) /\ IsInjective(RemoveAt(nexusq, i))
              /\ ToSet(RemoveAt(nexusq, i)) = ToSet(nexusq) \ {nexusq[i]}
            BY RemoveAtSet DEF Exclusive
        <3> QED BY <1>1, <3>1, <3>2, Listed
    <2>2. /\ Connected' /\ Established' = Established /\ Established = ToSet(nexusq)
        BY <1>1, <2>1 DEF Connected, Established
    <2>3. own' = own /\ lun' = lun /\ flags' = flags /\ timer' = timer /\ ready' = ready
        BY <1>1 DEF acbVars
    <2>4. QueueType' /\ TimerOnlyWhilePending'
        BY <1>1, <2>1, <2>3 DEF States, TimerOnlyWhilePending
    <2>5. Exclusive'
        BY <2>1, <2>3 DEF Exclusive, Queued
    <2>6. NexusHeld' /\ NexusFlagged' /\ PendingIsFree'
        BY <2>1, <2>2, <2>3 DEF NexusHeld, NexusFlagged, PendingIsFree
    <2>7. OneNexusPerLun' /\ EstablishedIsBusy'
        BY <1>1, <2>2, <2>3 DEF OneNexusPerLun, EstablishedIsBusy
    <2> QED BY <2>4, <2>5, <2>6, <2>7
<1>2. ASSUME UNCHANGED <<queueVars, acbVars>>,
             state' = state \/ (state = "CONNECTED" /\ state' \in {"DISCONNECT", "CMDCOMPLETE"})
      PROVE  IInv'
    BY <1>2, QuietStep DEF acbVars, Connected
<1>3. ASSUME NEW l \in Lun, MsgInIdentify(l) PROVE IInv'
    <2>1. state = "RESELECTED" /\ UNCHANGED <<ready, acbVars>>
        BY <1>3 DEF MsgInIdentify, MsgAccepted, MsgIn, InPhase
    <2>2. \/ UNCHANGED <<queueVars, state>>
          \/ \E i \in DOMAIN nexusq :
                /\ lun[nexusq[i]] = l /\ nexus' = nexusq[i]
                /\ nexusq' = RemoveAt(nexusq, i)
                /\ state' = "CONNECTED" /\ lubusy' = lubusy \cup {l}
        BY <1>3 DEF MsgInIdentify, queueVars
    <2> QED BY <1>1, <1>2, <2>1, <2>2
<1>4. CASE MsgInCmdComplete \/ MsgInDisconnect
    BY <1>2, <1>4 DEF MsgInCmdComplete, MsgInDisconnect, MsgAccepted, MsgIn, InPhase
<1>5. CASE \/ MsgInDropped \/ MsgInGarbled \/ MsgInTooLong \/ MsgInParityError
           \/ MsgInMessageReject \/ MsgInPointers \/ MsgInUnknown \/ MsgInUnexpected
           \/ MsgInNotIdentify
    BY <1>2, <1>5 DEF MsgInDropped, MsgInGarbled, MsgInTooLong, MsgInParityError,
        MsgInMessageReject, MsgInPointers, MsgInUnknown, MsgInUnexpected,
        MsgInNotIdentify, MsgAccepted, MsgIn
<1> QED BY <1>3, <1>4, <1>5 DEF MessageIn

-----------------------------------------------------------------------------
(* The rest of the type invariant *)

\* a block that is not free is addressed to a lun
Addressed == \A a \in Acb : own[a] # "free" => lun[a] \in Lun

\* the conjuncts of TypeOK that QueueType does not have
AcbType ==
    /\ lubusy \subseteq Lun /\ lun \in [Acb -> Lun \cup {NoLun}]
    /\ error \in [Acb -> Error] /\ stat \in [Acb -> Status]
    /\ fired \in Acb \cup {NoAcb} /\ polled \subseteq Acb /\ sensing \subseteq Acb
    /\ poller \in Acb \cup {NoAcb} /\ polltry \in 0..1

MsgType ==
    /\ msgpriq \subseteq Msg /\ msgoutq \subseteq Msg
    /\ lastmsg \in Msg \cup {NoMsg} /\ omsg \in Msg \cup {NoMsg}
    /\ aborting \in BOOLEAN /\ drop \in BOOLEAN /\ atn \in BOOLEAN

BusType ==
    /\ prevphase \in Phase /\ intr \in BOOLEAN /\ gotstat \in BOOLEAN
    /\ arb \in BOOLEAN /\ bus \in Lun \cup {NoLun} /\ disc \subseteq Lun

\* TypeOK is these four
LEMMA TypeSplit == TypeOK <=> QueueType /\ AcbType /\ MsgType /\ BusType
BY DEF TypeOK, QueueType, AcbType, MsgType, BusType

\* the message machinery keeps its variables in range
LEMMA MsgTypeStep == ASSUME TypeOK, Next PROVE MsgType'
<1> USE DEF MsgType, Msg
<1>1. MsgType
    BY TypeSplit
<1>2. ASSUME NEW ms \in SUBSET Msg, SchedMsgout(ms), drop' \in BOOLEAN PROVE MsgType'
    BY <1>1, <1>2 DEF SchedMsgout
<1>3. ASSUME NEW a, Abort(a), drop' = drop PROVE MsgType'
    BY <1>1, <1>3 DEF Abort, SchedMsgout
<1>4. ASSUME NEW a, TimeoutBody(a) PROVE MsgType'
    BY <1>1, <1>3, <1>4 DEF TimeoutBody, msgVars
<1>5. CASE MidLayer
    BY <1>1, <1>5 DEF MidLayer, AcbAlloc, AcbFree, Retry, ScsiCmd, msgVars, busVars
<1>6. CASE Clock
    BY <1>1, <1>4, <1>6 DEF Clock, Timeout, TimeoutFire, TimeoutRun, PollExpire, PollDone,
                            msgVars, busVars
<1>7. CASE SpcInit
    BY <1>1, <1>7 DEF SpcInit, msgVars
<1>8. CASE Selection
    BY <1>1, <1>7, <1>8 DEF Selection, IntrSelected, IntrSelTimeout, IntrSelectWhileIdle,
        IntrTargetMode, IntrBusFree, IntrReset, IntrReselected, NewConnection, msgVars
<1>9. CASE BusFree
    BY <1>1, <1>9 DEF BusFree, DisconReselected, DisconUnexpected, DisconAborted,
        DisconDisconnect, DisconComplete, Disconnected, msgVars
<1>10. CASE PhaseMsgOut
    <2>1. ASSUME NEW pri \in SUBSET Msg, NEW out \in SUBSET Msg, NEW last \in Msg \cup {NoMsg},
                 Burst(pri, out, last), drop' = drop
          PROVE  MsgType'
        BY <1>1, <2>1 DEF Burst
    <2> QED BY <1>1, <1>10, <2>1 DEF PhaseMsgOut
<1>11. CASE Information
    BY <1>1, <1>2, <1>7, <1>10, <1>11 DEF Information, IntrReturn, IntrParity, PhaseData,
        PhaseStat, PhaseUnexpected, msgVars, busVars
<1>12. CASE MessageIn
    <2>1. CASE drop' \in BOOLEAN /\ UNCHANGED <<msgpriq, msgoutq, lastmsg, omsg, aborting, atn>>
        BY <1>1, <2>1
    <2>2. CASE MsgInParityError
        BY <1>1, <1>2, <2>2 DEF MsgInParityError, MsgAccepted
    <2>3. ASSUME NEW l \in Lun, MsgInIdentify(l) PROVE MsgType'
        <3>1. drop' \in BOOLEAN
            BY <2>3 DEF MsgInIdentify, MsgAccepted
        <3>2. ASSUME NEW a PROVE flags[a] \cap {"ABORT"} \in SUBSET Msg
            OBVIOUS
        <3> QED BY <1>2, <2>1, <2>3, <3>1, <3>2 DEF MsgInIdentify
    <2>4. CASE MsgInDropped \/ MsgInCmdComplete \/ MsgInDisconnect \/ MsgInPointers
        BY <1>1, <2>1, <2>4 DEF MsgInDropped, MsgInCmdComplete, MsgInDisconnect, MsgInPointers,
                         MsgAccepted, msgVars
    <2>5. CASE MsgInGarbled \/ MsgInTooLong \/ MsgInUnknown \/ MsgInUnexpected
        BY <1>2, <2>5 DEF MsgInGarbled, MsgInTooLong, MsgInUnknown, MsgInUnexpected,
                          MsgAccepted
    <2>6. CASE MsgInMessageReject \/ MsgInNotIdentify
        BY <1>2, <2>1, <2>6 DEF MsgInMessageReject, MsgInNotIdentify, MsgAccepted
    <2> QED BY <1>12, <2>2, <2>3, <2>4, <2>5, <2>6 DEF MessageIn
<1> QED BY <1>5, <1>6, <1>8, <1>9, <1>11, <1>12 DEF Next

\* finishing or sensing a command keeps its fields in range
LEMMA FinishType ==
    ASSUME TypeOK, NEW e \in Error, Finish(nexus, e)
    PROVE  /\ lubusy' \subseteq Lun /\ error' \in [Acb -> Error] /\ stat' = stat
           /\ lun' = lun /\ fired' = fired /\ polled' = polled /\ arb' \in BOOLEAN
           /\ sensing' \subseteq Acb \cup {nexus}
           /\ \A a \in Acb : own'[a] # "free" => own[a] # "free" \/ a = nexus
<1>1. Verdict(nexus, e) \in Error
    BY DEF Verdict, Error
<1>2. Release(nexus) \subseteq Lun
    BY DEF Release, TypeOK
<1>3. ASSUME Sched(ready, lubusy', NoAcb) \/ Select(nexus) PROVE arb' \in BOOLEAN
    BY <1>3 DEF Sched, Select, TypeOK
<1> QED BY <1>1, <1>2, <1>3 DEF Finish, Sense, TypeOK

\* only a block addressed to a lun is ever the nexus
LEMMA NexusLun ==
    ASSUME TypeOK, Addressed, IInv, state = "SELECTING" \/ Connected
    PROVE  nexus \in Acb /\ lun[nexus] \in Lun /\ own[nexus] = "drv"
<1>1. nexus \in Acb /\ own[nexus] = "drv"
    BY DEF TypeOK, IInv, NexusHeld, Exclusive, Queued
<1> QED BY <1>1 DEF Addressed

\* the fields of the command blocks stay in range
LEMMA AcbTypeStep == ASSUME TypeOK, Addressed, IInv, Next PROVE AcbType' /\ Addressed'
<1> USE DEF AcbType, Addressed
<1>1. AcbType /\ own \in [Acb -> Owner] /\ nexus \in Acb \cup {NoAcb}
    BY TypeSplit DEF QueueType
<1>2. ASSUME UNCHANGED <<lubusy, lun, own, error, stat, sensing, fired, polled, poller, polltry>>
      PROVE  AcbType' /\ Addressed'
    BY <1>1, <1>2
<1>3. CASE MidLayer
    <2>1. ASSUME NEW a \in Acb, NEW l \in Lun, AcbAlloc(a, l) PROVE AcbType' /\ Addressed'
        BY <1>1, <2>1 DEF AcbAlloc, queueVars, ctlVars
    <2>2. ASSUME NEW a \in Acb, AcbFree(a) PROVE AcbType' /\ Addressed'
        BY <1>1, <2>2 DEF AcbFree, queueVars, ctlVars, Error
    <2>3. ASSUME NEW a \in Acb, Retry(a) PROVE AcbType' /\ Addressed'
        BY <1>1, <2>3 DEF Retry, queueVars, ctlVars
    <2>4. ASSUME NEW a \in Acb, NEW rst \in BOOLEAN, NEW pl \in BOOLEAN, ScsiCmd(a, rst, pl)
          PROVE  AcbType' /\ Addressed'
        BY <1>1, <2>4 DEF ScsiCmd, Error, Status
    <2> QED BY <1>3, <2>1, <2>2, <2>3, <2>4 DEF MidLayer
<1>4. ASSUME NEW a \in Acb, TimeoutBody(a)
      PROVE  /\ error' \in [Acb -> Error]
             /\ UNCHANGED <<lubusy, lun, own, stat, sensing, polled>>
    BY <1>1, <1>4 DEF TimeoutBody, queueVars, Error
<1>5. CASE Clock
    <2>1. ASSUME NEW a \in Acb, Timeout(a) \/ TimeoutFire(a) PROVE AcbType' /\ Addressed'
        BY <1>1, <1>4, <2>1 DEF Timeout, TimeoutFire, queueVars, ctlVars
    <2>2. CASE TimeoutRun
        BY <1>1, <1>4, <2>2 DEF TimeoutRun
    <2>3. CASE PollExpire
        BY <1>1, <1>4, <2>3 DEF PollExpire
    <2>4. CASE PollDone
        BY <1>1, <2>4 DEF PollDone, queueVars, acbVars
    <2> QED BY <1>5, <2>1, <2>2, <2>3, <2>4 DEF Clock
<1>6. ASSUME SpcInit PROVE AcbType' /\ Addressed'
    BY <1>1, <1>6 DEF SpcInit, Error, Cancelled, IInv, Exclusive, Queued, QueueType
<1>7. ASSUME NEW e \in Error, Finish(nexus, e), UNCHANGED <<poller, polltry>>,
             state = "SELECTING" \/ Connected
      PROVE  AcbType' /\ Addressed'
    BY <1>1, <1>7, FinishType, NexusLun
<1>8. CASE Selection
    <2>1. CASE IntrSelected
        BY <1>1, <2>1, NexusLun DEF IntrSelected
    <2>2. CASE IntrSelTimeout
        BY <1>7, <2>2 DEF IntrSelTimeout, Error
    <2>3. CASE IntrSelectWhileIdle \/ IntrReset
        BY <1>6, <2>3 DEF IntrSelectWhileIdle, IntrReset
    <2>4. CASE IntrTargetMode \/ IntrBusFree \/ \E l \in Lun : IntrReselected(l)
        BY <1>2, <2>4 DEF IntrTargetMode, IntrBusFree, IntrReselected, acbVars
    <2> QED BY <1>8, <2>1, <2>2, <2>3, <2>4 DEF Selection
<1>9. CASE BusFree
    <2>1. CASE DisconReselected \/ DisconDisconnect
        BY <1>2, <2>1 DEF DisconReselected, DisconDisconnect, Disconnected, acbVars
    <2>2. CASE DisconUnexpected
        BY <1>1, <2>2, NexusLun DEF DisconUnexpected, Disconnected, Sense, Release, Connected
    <2>3. CASE DisconAborted
        BY <1>7, <2>3 DEF DisconAborted, Disconnected, Error, Connected
    <2>4. CASE DisconComplete
        <3>1. error[nexus] \in Error
            BY <1>1, <2>4, NexusLun DEF DisconComplete, Connected
        <3> QED BY <1>7, <2>4, <3>1 DEF DisconComplete, Disconnected, Connected
    <2> QED BY <1>9, <2>1, <2>2, <2>3, <2>4 DEF BusFree
<1>10. CASE Information
    <2>1. CASE PhaseUnexpected
        BY <1>6, <2>1 DEF PhaseUnexpected
    <2>2. ASSUME NEW s \in Status, PhaseStat(s) PROVE AcbType' /\ Addressed'
        BY <1>1, <2>2 DEF PhaseStat, InPhase, queueVars
    <2>3. CASE IntrReturn \/ IntrParity \/ PhaseMsgOut \/ PhaseData
        BY <1>2, <2>3 DEF IntrReturn, IntrParity, PhaseMsgOut, PhaseData, InPhase,
                          queueVars, acbVars
    <2> QED BY <1>10, <2>1, <2>2, <2>3 DEF Information
<1>11. CASE MessageIn
    <2>1. UNCHANGED <<lun, own, error, stat, sensing, fired, polled, poller, polltry>>
        BY <1>11 DEF MessageIn, MsgInDropped, MsgInGarbled, MsgInTooLong, MsgInCmdComplete,
            MsgInDisconnect, MsgInParityError, MsgInMessageReject, MsgInPointers,
            MsgInUnknown, MsgInUnexpected, MsgInNotIdentify, MsgInIdentify, MsgAccepted,
            MsgIn, InPhase, acbVars
    <2>2. lubusy' = lubusy \/ \E l \in Lun : lubusy' = lubusy \cup {l}
        BY <1>11 DEF MessageIn, MsgInDropped, MsgInGarbled, MsgInTooLong, MsgInCmdComplete,
            MsgInDisconnect, MsgInParityError, MsgInMessageReject, MsgInPointers,
            MsgInUnknown, MsgInUnexpected, MsgInNotIdentify, MsgInIdentify, queueVars
    <2> QED BY <1>1, <2>1, <2>2
<1> QED BY <1>3, <1>5, <1>8, <1>9, <1>10, <1>11 DEF Next

\* the bus and the phase engine stay in range
LEMMA BusTypeStep == ASSUME TypeOK, Addressed, IInv, Next PROVE BusType'
<1> USE DEF BusType
<1>1. BusType
    BY TypeSplit
<1>2. ASSUME NEW q, NEW b, NEW n, Sched(q, b, n) PROVE arb' \in BOOLEAN
    BY <1>1, <1>2 DEF Sched, Select
<1>3. CASE MidLayer \/ Clock
    <2>1. arb' \in BOOLEAN
        BY <1>1, <1>2, <1>3 DEF MidLayer, AcbAlloc, AcbFree, Retry, ScsiCmd, Clock, Timeout,
            TimeoutFire, TimeoutRun, PollExpire, PollDone, TimeoutBody, Abort, busVars
    <2>2. UNCHANGED <<prevphase, intr, gotstat, bus, disc>>
        BY <1>3 DEF MidLayer, AcbAlloc, AcbFree, Retry, ScsiCmd, Clock, Timeout,
            TimeoutFire, TimeoutRun, PollExpire, PollDone, TimeoutBody, ctlVars, busVars
    <2> QED BY <1>1, <2>1, <2>2
<1>4. ASSUME SpcInit PROVE BusType'
    BY <1>1, <1>4 DEF SpcInit, Phase
<1>5. CASE Selection
    <2>1. CASE IntrSelected
        BY <1>1, <2>1, NexusLun DEF IntrSelected, NewConnection, Phase
    <2>2. CASE IntrSelTimeout
        <3>1. arb' \in BOOLEAN
            BY <2>2, FinishType DEF IntrSelTimeout, Error
        <3> QED BY <1>1, <2>2, <3>1 DEF IntrSelTimeout
    <2>3. CASE IntrSelectWhileIdle \/ IntrReset
        BY <1>4, <2>3 DEF IntrSelectWhileIdle, IntrReset
    <2>4. CASE IntrTargetMode \/ IntrBusFree
        BY <1>1, <1>2, <2>4 DEF IntrTargetMode, IntrBusFree
    <2>5. CASE \E l \in Lun : IntrReselected(l)
        BY <1>1, <2>5 DEF IntrReselected, NewConnection, Phase
    <2> QED BY <1>5, <2>1, <2>2, <2>3, <2>4, <2>5 DEF Selection
<1>6. CASE BusFree
    <2>1. bus \in Lun /\ bus' = NoLun /\ gotstat' = FALSE /\ intr' = FALSE /\ prevphase' = prevphase
        BY <1>1, <1>6 DEF BusFree, DisconReselected, DisconUnexpected, DisconAborted,
            DisconDisconnect, DisconComplete, Disconnected, Pass
    <2>2. disc' \subseteq Lun
        BY <1>1, <1>6, <2>1 DEF BusFree, DisconReselected, DisconUnexpected, DisconAborted,
            DisconDisconnect, DisconComplete
    <2>3. arb' \in BOOLEAN
        <3>1. CASE DisconComplete
            <4>1. error[nexus] \in Error
                BY <3>1, NexusLun DEF DisconComplete, Connected, TypeOK
            <4> QED BY <3>1, <4>1, FinishType DEF DisconComplete
        <3>2. CASE DisconAborted
            BY <3>2, FinishType DEF DisconAborted, Error
        <3>3. CASE DisconUnexpected
            BY <3>3 DEF DisconUnexpected, Sense, Select
        <3>4. CASE DisconReselected
            BY <1>2, <3>4 DEF DisconReselected
        <3>5. CASE DisconDisconnect
            BY <1>2, <3>5 DEF DisconDisconnect
        <3> QED BY <1>6, <3>1, <3>2, <3>3, <3>4, <3>5 DEF BusFree
    <2> QED BY <1>1, <2>1, <2>2, <2>3
<1>7. CASE Information
    <2>1. CASE IntrReturn \/ IntrParity
        BY <1>1, <2>1 DEF IntrReturn, IntrParity, busVars
    <2>2. CASE PhaseMsgOut \/ PhaseData \/ \E s \in Status : PhaseStat(s)
        BY <1>1, <2>2 DEF PhaseMsgOut, PhaseData, PhaseStat, InPhase, Phase
    <2>3. CASE PhaseUnexpected
        BY <1>4, <2>3 DEF PhaseUnexpected
    <2> QED BY <1>7, <2>1, <2>2, <2>3 DEF Information
<1>8. CASE MessageIn
    BY <1>1, <1>8 DEF MessageIn, MsgInDropped, MsgInGarbled, MsgInTooLong, MsgInCmdComplete,
        MsgInDisconnect, MsgInParityError, MsgInMessageReject, MsgInPointers, MsgInUnknown,
        MsgInUnexpected, MsgInNotIdentify, MsgInIdentify, MsgAccepted, MsgIn, InPhase, Phase
<1> QED BY <1>3, <1>5, <1>6, <1>7, <1>8 DEF Next

-----------------------------------------------------------------------------
(* The theorems *)

\* the driver starts in the invariant
LEMMA InitInv == ASSUME Init PROVE TypeOK /\ Addressed /\ IInv
<1> USE DEF Init
<1>1. TypeOK
    <2>1. QueueType
        BY DEF QueueType, States, Owner
    <2>2. AcbType
        BY DEF AcbType, Error, Status
    <2>3. MsgType /\ BusType
        BY DEF MsgType, BusType, Phase
    <2> QED BY <2>1, <2>2, <2>3, TypeSplit
<1>2. ToSet(<<>>) = {} /\ IsInjective(<<>>)
    <2>1. ToSet(<<>>) = {}
        BY DEF ToSet
    <2>2. IsInjective(<<>>)
        BY DEF IsInjective
    <2> QED BY <2>1, <2>2
<1>3. ~Connected /\ Established = {}
    BY <1>2 DEF Connected, Established
<1>4. Exclusive
    BY <1>2, NullAssumption DEF Exclusive, Queued
<1>5. QueueType /\ TimerOnlyWhilePending
    BY <1>1, TypeSplit DEF TimerOnlyWhilePending
<1>6. NexusHeld /\ NexusFlagged /\ PendingIsFree /\ OneNexusPerLun /\ EstablishedIsBusy
    BY <1>3 DEF NexusHeld, NexusFlagged, PendingIsFree, OneNexusPerLun, EstablishedIsBusy
<1> QED BY <1>1, <1>4, <1>5, <1>6 DEF Addressed, IInv

\* every step keeps the invariant, one lemma per group of actions
LEMMA NextInv ==
    ASSUME TypeOK, Addressed, IInv, [Next]_vars
    PROVE  TypeOK' /\ Addressed' /\ IInv'
<1>1. CASE Next
    <2>1. IInv'
        BY <1>1, MidLayerStep, ClockStep, SelectionStep, BusFreeStep, InformationStep,
           MessageInStep DEF Next
    <2>2. AcbType' /\ Addressed' /\ MsgType' /\ BusType'
        BY <1>1, AcbTypeStep, MsgTypeStep, BusTypeStep
    <2>3. TypeOK'
        BY <2>1, <2>2 DEF IInv, QueueType, AcbType, MsgType, BusType, TypeOK
    <2> QED BY <2>1, <2>2, <2>3
<1>2. CASE UNCHANGED vars
    <2>1. UNCHANGED <<state, queueVars, own, lun, flags, timer>>
        BY <1>2 DEF vars, acbVars, ctlVars
    <2>2. IInv'
        BY <2>1, QuietStep DEF IInv, QueueType
    <2>3. TypeOK' /\ Addressed'
        BY <1>2 DEF vars, queueVars, acbVars, msgVars, ctlVars, busVars, TypeOK, Addressed
    <2> QED BY <2>2, <2>3
<1> QED BY <1>1, <1>2

\* the inductive invariant holds of every behaviour
THEOREM Invariance == Spec => [](TypeOK /\ Addressed /\ IInv)
<1>1. Init => TypeOK /\ Addressed /\ IInv
    BY InitInv
<1>2. (TypeOK /\ Addressed /\ IInv) /\ [Next]_vars => (TypeOK /\ Addressed /\ IInv)'
    BY NextInv
<1> QED BY <1>1, <1>2, PTL DEF Spec

\* The type invariant of the driver, for any number of command blocks and luns.
THEOREM TypeCorrect == Spec => []TypeOK
BY Invariance, PTL

\* ready_list, nexus_list and sc_nexus never share a command block, and hold none
\* the driver has given back: whatever targets, resets, timeouts and the mid layer
\* do, the one TAILQ entry of a block is linked once (mb89352.c, spc_sched, spc_done,
\* spc_abort, spc_intr, spc_init).
THEOREM QueuesAreExclusive == Spec => []Exclusive
<1>1. IInv => Exclusive
    BY DEF IInv
<1> QED BY <1>1, Invariance, PTL

\* No two commands are established on one lun, so that a reselecting target, which
\* names only its lun, resumes the command it disconnected (spc_reselect).
THEOREM NexusIsUnique == Spec => []OneNexusPerLun
<1>1. IInv => OneNexusPerLun
    BY DEF IInv
<1> QED BY <1>1, Invariance, PTL

\* Every timeout that is armed is that of a command the driver still has: spc_done()
\* and spc_init() leave none behind (mb89352.c, spc_intr "finish", spc_init).
THEOREM TimersArePending == Spec => []TimerOnlyWhilePending
<1>1. IInv => TimerOnlyWhilePending
    BY DEF IInv
<1> QED BY <1>1, Invariance, PTL

=============================================================================
