------------------------------ MODULE BootNet -------------------------------
(***************************************************************************)
(* The boot loader's network: net_open() and net_close() (dev_net.c) over  *)
(* the netif entry points of the LANCE (if_le.c) and its chip driver       *)
(* (lance.c).  The driver polls; the chip fills the receive ring at its    *)
(* own pace.  libsa's RARP, RPC and NFS, which put and get frames until    *)
(* they succeed or give up, the chip and the wire are external.            *)
(***************************************************************************)
EXTENDS Integers, FiniteSets

CONSTANTS
    Lerbuf,    \* LERBUF
    Day,       \* seconds of getsecs() before it is 0 again
    MaxOpens,  \* bound
    Timeout    \* the longest timeout of a le_get()

VARIABLES
    opens,     \* netdev_opens
    attached,  \* sc_reg # NULL
    sock,      \* netdev_sock >= 0
    rootip,    \* rootip.s_addr # 0
    stage,     \* where net_open() is: "none", "params" or "mount"
    mounted,   \* external: nfs_mount() has been done since the interface was opened
    rmd,       \* lem_rmd: "chip" (OWN), or what the chip has stored
    currmd,    \* sc_currmd
    tmd,       \* LE_T1_OWN in lem_tmd[0]
    tint,      \* LE_C0_TINT
    chip,      \* external: "stopped" or "running"
    chipAt,    \* external: the descriptor the chip fills next
    io,        \* "idle", "get", "put" (waits for OWN) or "sent" (polls TINT)
    deadline,  \* t of le_get()
    secs,      \* getsecs()
    len,       \* what lance_get() returned: -1, 0, or 1 for more
    whole      \* history: the packet of that length has been copied

netVars == <<opens, attached, sock, rootip, stage, mounted, rmd, currmd, tmd, tint, chip, chipAt,
             io, deadline, secs, len, whole>>
devVars  == <<opens, attached, sock, rootip, stage, mounted>>
ringVars == <<rmd, currmd, tmd, tint, chip, chipAt>>
ioVars   == <<io, deadline, secs, len, whole>>

Ring   == 0..(Lerbuf - 1)
Next1(i) == (i + 1) % Lerbuf      \* LE_NEXTRMD
\* a frame, one with an error, a bad length, and the buffer of a longer frame
Stored == {"frame", "error", "badlen", "zero"}

TypeOK ==
    /\ opens \in 0..MaxOpens /\ attached \in BOOLEAN /\ sock \in BOOLEAN /\ rootip \in BOOLEAN /\ mounted \in BOOLEAN
    /\ stage \in {"none", "params", "mount"}
    /\ rmd \in [Ring -> Stored \cup {"chip"}] /\ currmd \in Ring /\ chipAt \in Ring
    /\ tmd \in BOOLEAN /\ tint \in BOOLEAN /\ chip \in {"stopped", "running"}
    /\ io \in {"idle", "get", "put", "sent"}
    /\ deadline \in 0..(Day + Timeout) /\ secs \in 0..(Day - 1)
    /\ len \in -1..1 /\ whole \in BOOLEAN

Init ==
    /\ opens = 0 /\ attached = FALSE /\ sock = FALSE /\ rootip = FALSE /\ stage = "none" /\ mounted = FALSE
    /\ rmd = [i \in Ring |-> "chip"] /\ currmd = 0 /\ chipAt = 0
    /\ tmd = FALSE /\ tint = FALSE /\ chip = "stopped"
    /\ io = "idle" /\ deadline = 0 /\ secs \in 0..(Day - 1) /\ len = -1 /\ whole = FALSE

-----------------------------------------------------------------------------
(* The chip and the wire                                                    *)

Receive ==
    /\ chip = "running" /\ rmd[chipAt] = "chip"
    /\ \E s \in Stored : rmd' = [rmd EXCEPT ![chipAt] = s]
    /\ chipAt' = Next1(chipAt)
    /\ UNCHANGED <<devVars, currmd, tmd, tint, chip, ioVars>>

Transmit ==
    /\ chip = "running" /\ tmd
    /\ tmd' = FALSE /\ tint' = TRUE
    /\ UNCHANGED <<devVars, rmd, currmd, chip, chipAt, ioVars>>

-----------------------------------------------------------------------------
(* lance.c and if_le.c                                                      *)

\* lance_init(): the chip is stopped, the rings are set up and it is started, unless
\* IDON does not come in time; le_init() goes on without it
LanceInit ==
    /\ rmd' = [i \in Ring |-> "chip"] /\ currmd' = 0 /\ chipAt' = 0
    /\ tmd' = FALSE /\ tint' = FALSE
    /\ chip' \in {"running", "stopped"}

\* lance_attach(), of the LANCE that badaddr() has found
LanceAttach == ~attached /\ attached' = TRUE
\* le_match(): lance_cookie() is of use after the first time
LeMatch == LanceAttach \/ (attached /\ UNCHANGED attached)

\* lance_end()
LanceEnd == chip' = "stopped" /\ UNCHANGED <<rmd, currmd, tmd, tint, chipAt>>

\* le_get() begins
LeGet ==
    /\ io = "idle" /\ sock
    /\ io' = "get" /\ len' = -1
    /\ \E t \in 1..Timeout : deadline' = secs + t
    /\ UNCHANGED <<devVars, ringVars, secs, whole>>

\* lance_get() that leaves a frame with an error to the host
LanceGetWrong ==
    IF rmd[currmd] \in {"chip", "error"}
    THEN len' = -1 /\ UNCHANGED <<rmd, currmd, whole>>
    ELSE /\ len' = IF rmd[currmd] = "zero" THEN 0 ELSE 1
         /\ whole' = (rmd[currmd] = "frame" /\ len # 0)
         /\ rmd' = [rmd EXCEPT ![currmd] = "chip"]
         /\ currmd' = IF rmd[currmd] = "badlen" THEN currmd ELSE Next1(currmd)

\* lance_get(), whose maxlen is what the call before it returned: a frame of a bad
\* length keeps its length, and after one of length 0 nothing is copied
LanceGet ==
    IF rmd[currmd] = "chip"
    THEN len' = -1 /\ UNCHANGED <<rmd, currmd, whole>>
    ELSE /\ len' = (CASE rmd[currmd] = "error" -> -1 [] rmd[currmd] = "zero" -> 0 [] OTHER -> 1)
         /\ whole' = (rmd[currmd] = "frame" /\ len # 0)
         /\ rmd' = [rmd EXCEPT ![currmd] = "chip"]
         /\ currmd' = Next1(currmd)

\* getsecs(): seconds of the day
Getsecs(tick) == (secs + tick) % Day

\* one turn of the loop in le_get(), in which the clock may move
LeGetTurn(tick) ==
    /\ io = "get" /\ len <= 0 /\ secs < deadline
    /\ LanceGet
    /\ secs' = Getsecs(tick)
    /\ UNCHANGED <<devVars, tmd, tint, chip, chipAt, io, deadline>>

\* ... and its return
LeGetReturn ==
    /\ io = "get" /\ (len > 0 \/ secs >= deadline)
    /\ io' = "idle"
    /\ UNCHANGED <<devVars, ringVars, deadline, secs, len, whole>>

\* lance_put(): clears TINT, waits without a limit for the descriptor ...
LePut ==
    /\ io = "idle" /\ sock
    /\ io' = "put" /\ tint' = FALSE
    /\ UNCHANGED <<devVars, rmd, currmd, tmd, chip, chipAt, deadline, secs, len, whole>>
\* ... gives it to the chip ...
LancePut ==
    /\ io = "put" /\ ~tmd
    /\ io' = "sent" /\ tmd' = TRUE
    /\ UNCHANGED <<devVars, rmd, currmd, tint, chip, chipAt, deadline, secs, len, whole>>
\* ... and polls TINT, which it clears, for a while
LancePutDone ==
    /\ io = "sent" /\ tint
    /\ io' = "idle" /\ tint' = FALSE
    /\ UNCHANGED <<devVars, rmd, currmd, tmd, chip, chipAt, deadline, secs, len, whole>>
LancePutTimeout ==
    /\ io = "sent" /\ ~tint
    /\ io' = "idle"
    /\ UNCHANGED <<devVars, ringVars, deadline, secs, len, whole>>

-----------------------------------------------------------------------------
(* dev_net.c                                                                *)

\* net_open(): the first one opens the interface and, unless rootip is known, mounts
NetOpen ==
    /\ io = "idle" /\ stage = "none" /\ opens < MaxOpens
    /\ IF opens = 0 /\ ~sock
       THEN LeMatch /\ sock' = TRUE /\ mounted' = FALSE /\ LanceInit
       ELSE UNCHANGED <<attached, sock, mounted, ringVars>>
    /\ IF opens = 0 /\ ~rootip
       THEN stage' = "params" /\ UNCHANGED opens
       ELSE opens' = opens + 1 /\ UNCHANGED stage
    /\ UNCHANGED <<rootip, ioVars>>

\* net_getparams(), which gets rootip last, and nfs_mount()
NetParams ==
    /\ io = "idle" /\ stage = "params"
    /\ stage' = "mount" /\ rootip' = TRUE
    /\ UNCHANGED <<attached, opens, sock, mounted, ringVars, ioVars>>
NetMount ==
    /\ io = "idle" /\ stage = "mount"
    /\ stage' = "none" /\ mounted' = TRUE /\ opens' = opens + 1
    /\ UNCHANGED <<attached, sock, rootip, ringVars, ioVars>>

\* nfs_mount() fails and rootip keeps the server's address
NetFailWrong ==
    /\ io = "idle" /\ stage # "none"
    /\ stage' = "none" /\ sock' = FALSE /\ LanceEnd
    /\ UNCHANGED <<rootip, attached, opens, mounted, ioVars>>

\* either of them fails
NetFail ==
    /\ io = "idle" /\ stage # "none"
    /\ stage' = "none" /\ sock' = FALSE /\ rootip' = FALSE /\ LanceEnd
    /\ UNCHANGED <<attached, opens, mounted, ioVars>>

NetClose ==
    /\ io = "idle" /\ stage = "none" /\ opens > 0
    /\ opens' = opens - 1
    /\ IF opens = 1
       THEN rootip' = FALSE /\ sock' = FALSE /\ LanceEnd
       ELSE UNCHANGED <<rootip, sock, ringVars>>
    /\ UNCHANGED <<attached, stage, mounted, ioVars>>

Chip == Receive \/ Transmit
Net  == NetOpen \/ NetParams \/ NetMount \/ NetFail \/ NetClose
Next ==
    \/ Chip \/ Net
    \/ LeGet \/ LeGetTurn(0) \/ LeGetTurn(1) \/ LeGetReturn
    \/ LePut \/ LancePut \/ LancePutDone \/ LancePutTimeout

\* the clock runs and the loader polls; nothing is expected of the chip
NetFairness == WF_netVars(LeGetTurn(1)) /\ WF_netVars(LeGetReturn)

Spec == Init /\ [][Next]_netVars /\ NetFairness

-----------------------------------------------------------------------------
\* lance_get() looks where the chip stores the oldest frame: the descriptors of the
\* host are those from sc_currmd to the chip's own position.
RingInStep ==
    LET filled == {i \in Ring : rmd[i] # "chip"}
        oldest == {(currmd + i) % Lerbuf : i \in 0..(Cardinality(filled) - 1)}
    IN  filled = oldest /\ (currmd + Cardinality(filled)) % Lerbuf = chipAt

\* A file of the network is open only on an interface that is open, from whose server
\* the root has been mounted since it was opened: net_open() takes rootip for a sign of
\* that, so whatever fails or closes the interface has to forget it.
OpenMeansMounted == opens > 0 => sock /\ rootip /\ mounted

\* le_get() returns when its time has come, with no frame on the wire, unless midnight
\* comes before.
GetReturns == (io = "get" /\ deadline < Day) ~> io = "idle"

\* le_get() returns at any time of the day.
GetReturnsAtNight == io = "get" ~> io = "idle"

\* le_get() returns the length of a packet it has copied.
FrameIsWhole == io = "idle" /\ len > 0 => whole
=============================================================================
