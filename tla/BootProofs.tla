----------------------------- MODULE BootProofs -----------------------------
(***************************************************************************)
(* The boot loader's safety properties, for buffers, screens, rings and    *)
(* names of any number.  Its parts share no state: a behaviour of the      *)
(* loader is one of each part, and what is proved of a part holds of it.   *)
(***************************************************************************)
EXTENDS Boot, FiniteSetTheorems, WellFoundedInduction, TLAPS

LEMMA StepsOfParts ==
    ASSUME [BootNext]_bootVars
    PROVE  /\ [Next]_scsiVars
           /\ [Net!Next]_netVars
           /\ [Screen!Next]_screenVars
           /\ [Console!Next]_consoleVars
           /\ [Main!Next]_mainVars
<1>1. CASE ScsiMoves
    BY <1>1 DEF ScsiMoves, scsiVars, netVars, screenVars, consoleVars, mainVars
<1>2. CASE NetMoves
    BY <1>2 DEF NetMoves, scsiVars, netVars, screenVars, consoleVars, mainVars
<1>3. CASE ScreenMoves
    BY <1>3 DEF ScreenMoves, scsiVars, netVars, screenVars, consoleVars, mainVars
<1>4. CASE ConsoleMoves
    BY <1>4 DEF ConsoleMoves, scsiVars, netVars, screenVars, consoleVars, mainVars
<1>5. CASE MainMoves
    BY <1>5 DEF MainMoves, scsiVars, netVars, screenVars, consoleVars, mainVars
<1>6. CASE UNCHANGED bootVars
    BY <1>6 DEF bootVars
<1> QED BY <1>1, <1>2, <1>3, <1>4, <1>5, <1>6 DEF BootNext

-----------------------------------------------------------------------------
(* The disk: BootScsi                                                      *)

\* The status of a command that runs is the one its target has sent.
StatusKept == call = "run" /\ sent = "CHECK" => stat = "CHECK"

LEMMA ScsiInit == Init => TypeOK /\ StatusKept /\ CheckIsReported
<1> SUFFICES ASSUME Init PROVE TypeOK /\ StatusKept /\ CheckIsReported
    OBVIOUS
<1>1. selTimeout \in BOOLEAN /\ away \in BOOLEAN
    BY DEF Init
<1>2. tries \in 0..Tries
    BY TriesAssumption DEF Init
<1> QED BY <1>1, <1>2
        DEF Init, TypeOK, Commands, Locks, Phases, Statuses, Messages, Asks, Failed, StatusKept, CheckIsReported

LEMMA ScsiType == TypeOK /\ [Next]_scsiVars => TypeOK'
<1> SUFFICES ASSUME TypeOK, [Next]_scsiVars PROVE TypeOK'
    OBVIOUS
<1>0. selTimeout' \in BOOLEAN /\ away' \in BOOLEAN
    BY DEF TypeOK, Next, Bus, Loader, Scintr, Answer, SelectionTimeout, Drop, Reselect, Scrun, IntrResel,
       IntrDiscon, IntrCmdDone, IntrSrvReq, IntrTimeout, Scfinish, SdOpen, SdReady, SdSense, SdIdentify,
       SdLabel, SdStrategy, SdDone, SdClose, Issue, Settle, Scinit, Screset, Abort, Scabort, Transfer,
       Acknowledge,
       scsiVars, sdVars, scVars, busVars
<1> USE DEF TypeOK, Commands, Locks, Phases, Statuses, Messages, Asks
<1>1. CASE Answer
    BY <1>0, <1>1 DEF Answer, sdVars, scVars
<1>2. CASE SelectionTimeout
    BY <1>0, <1>2 DEF SelectionTimeout, sdVars, scVars
<1>3. CASE Drop
    BY <1>0, <1>3 DEF Drop, sdVars, scVars
<1>4. CASE Reselect
    BY <1>0, <1>4 DEF Reselect, sdVars, scVars
<1>5. CASE Scrun
    BY <1>0, <1>5 DEF Scrun, IssueSelect, Failed, sdVars
<1>6. ASSUME Transfer PROVE asks' \in Asks /\ phase' \in Phases /\ msg' \in Messages
                            /\ ints' = {"CMD_DONE"} /\ UNCHANGED away /\ stat' \in Statuses
                            /\ sent' \in Statuses \cup {"nothing"}
    BY <1>0, <1>6 DEF Transfer, Following, PhaseOf
<1>7. ASSUME Abort PROVE asks' = "nothing" /\ away' \in BOOLEAN /\ ints' \subseteq {"DISCON"}
                         /\ lock' = "IO_FAILED" /\ UNCHANGED <<stat, msg, selTimeout, phase, sent>>
    BY <1>0, <1>7 DEF Abort, Scabort
<1>8. CASE IntrResel
    BY <1>0, <1>6, <1>7, <1>8 DEF IntrResel, sdVars
<1>9. CASE IntrDiscon
    BY <1>0, <1>7, <1>9 DEF IntrDiscon, sdVars
<1>10. CASE IntrCmdDone
    BY <1>0, <1>6, <1>7, <1>10 DEF IntrCmdDone, Acknowledge, Following, Seen, sdVars
<1>11. CASE IntrSrvReq
    BY <1>0, <1>6, <1>7, <1>11 DEF IntrSrvReq, sdVars
<1>12. CASE IntrTimeout
    BY <1>0, <1>7, <1>12 DEF IntrTimeout, sdVars
<1>13. CASE Scfinish
    BY <1>0, <1>13 DEF Scfinish, Result, Failed, sdVars, busVars
<1>14. CASE SdOpen
    BY <1>0, <1>14, TriesAssumption DEF SdOpen, Scinit, Screset
<1>15. CASE SdReady \/ SdSense \/ SdIdentify
    <2>1. UNCHANGED <<ret, lock, phase, stat, msg, busVars>>
        BY <1>15 DEF SdReady, SdSense, SdIdentify, Issue, Settle
    <2>2. sd' \in Commands \cup {"closed"} /\ call' \in {"start", "none"}
        BY <1>15 DEF SdReady, SdSense, SdIdentify, Issue, Settle
    <2>3. tries' \in 0..Tries
        BY <1>15, TriesAssumption DEF SdReady, SdSense, SdIdentify, Issue, Settle
    <2> QED BY <1>0, <2>1, <2>2, <2>3 DEF busVars
<1>16. CASE SdLabel \/ SdStrategy \/ SdDone \/ SdClose
    <2>1. UNCHANGED <<ret, lock, phase, stat, msg, busVars, tries>>
        BY <1>16 DEF SdLabel, SdStrategy, SdDone, SdClose, Issue, Settle
    <2>2. sd' \in {"io", "open", "closed"} /\ call' \in {"start", "none"}
        BY <1>16 DEF SdLabel, SdStrategy, SdDone, SdClose, Issue, Settle
    <2> QED BY <1>0, <2>1, <2>2 DEF busVars
<1>17. CASE UNCHANGED scsiVars
    BY <1>0, <1>17 DEF scsiVars, sdVars, scVars, busVars
<1> QED BY <1>1, <1>2, <1>3, <1>4, <1>5, <1>8, <1>9, <1>10, <1>11, <1>12, <1>13, <1>14, <1>15, <1>16, <1>17
        DEF Next, Bus, Loader, Scintr

LEMMA ScsiStatus ==
    TypeOK /\ StatusKept /\ CheckIsReported /\ [Next]_scsiVars => StatusKept' /\ CheckIsReported'
<1> SUFFICES ASSUME TypeOK, StatusKept, CheckIsReported, [Next]_scsiVars
             PROVE  StatusKept' /\ CheckIsReported'
    OBVIOUS
<1> USE DEF StatusKept, CheckIsReported
<1>1. CASE Bus
    BY <1>1 DEF Bus, Answer, SelectionTimeout, Drop, Reselect, sdVars, scVars
<1>2. CASE Scrun
    BY <1>2 DEF Scrun, IssueSelect, Failed
<1>3. ASSUME Transfer PROVE UNCHANGED <<stat, sent>> \/ stat' = sent'
    BY <1>3 DEF Transfer
<1>4. CASE Scintr
    <2>1. call = "run" /\ UNCHANGED <<call, ret>>
        BY <1>4 DEF Scintr, IntrResel, IntrDiscon, IntrCmdDone, IntrSrvReq, IntrTimeout, Polling
    <2>2. UNCHANGED <<stat, sent>> \/ stat' = sent'
        BY <1>3, <1>4
        DEF Scintr, IntrResel, IntrDiscon, IntrCmdDone, Acknowledge, IntrSrvReq, IntrTimeout, Abort
    <2> QED BY <2>1, <2>2
<1>5. CASE Scfinish
    BY <1>5 DEF Scfinish, Result, TypeOK, Locks, busVars
<1>6. CASE SdOpen
    BY <1>6 DEF SdOpen, Scinit, Screset
<1>7. CASE SdReady \/ SdSense \/ SdIdentify \/ SdLabel \/ SdStrategy \/ SdDone \/ SdClose
    BY <1>7 DEF SdReady, SdSense, SdIdentify, SdLabel, SdStrategy, SdDone, SdClose, Issue, Settle, busVars
<1>8. CASE UNCHANGED scsiVars
    BY <1>8 DEF scsiVars, sdVars, scVars, busVars
<1> QED BY <1>1, <1>2, <1>4, <1>5, <1>6, <1>7, <1>8 DEF Next, Loader

-----------------------------------------------------------------------------
(* The main program: BootMain                                              *)

\* The countdown has not come to its end before the file is opened.
Counting == Main!TypeOK /\ (pc \in {"start", "await"} => timeout # 0)

LEMMA MainInit == Main!Init => Counting
<1> SUFFICES ASSUME Main!Init PROVE Counting
    OBVIOUS
<1>1. default \in Main!NameOf
    BY MainAssumption DEF Main!Init, Main!DefaultNames
<1>2. timeout \in 0..BootTimeout /\ timeout # 0
    BY MainAssumption DEF Main!Init
<1> QED BY <1>1, <1>2, MainAssumption DEF Main!Init, Counting, Main!TypeOK, Main!Commands, Main!Devsw

LEMMA MainStep == Counting /\ [Main!Next]_mainVars => Counting'
<1> SUFFICES ASSUME Counting, [Main!Next]_mainVars
             PROVE  Counting'
    OBVIOUS
<1> USE DEF Counting, Main!TypeOK, Main!Commands, Main!Devsw
<1>1. CASE Main!Clock
    <2>1. now' \in 0..(SecsPerDay - 1)
        BY <1>1, MainAssumption DEF Main!Clock
    <2> QED BY <1>1, <2>1 DEF Main!Clock
<1>2. CASE Main!Start \/ Main!AwaitKey \/ Main!PollHangs
    BY <1>2, MainAssumption DEF Main!Start, Main!AwaitKey, Main!PollHangs
<1>3. CASE Main!AwaitTick
    <2>1. timeout' \in 0..BootTimeout /\ (pc' = "await" => timeout' # 0)
        BY <1>3, MainAssumption DEF Main!AwaitTick
    <2> QED BY <1>3, <2>1 DEF Main!AwaitTick
<1>4. CASE Main!Getline
    BY <1>4 DEF Main!Getline
<1>5. CASE Main!Parse
    BY <1>5, MainAssumption DEF Main!Parse, Main!Boot
<1>6. CASE Main!Devopen
    BY <1>6 DEF Main!Devopen, Main!MakeDevice
<1>7. CASE Main!DevopenFails \/ Main!LoadFails
    BY <1>7 DEF Main!DevopenFails, Main!LoadFails, Main!Failed
<1>8. CASE Main!LoadKernel
    BY <1>8 DEF Main!LoadKernel
<1>9. CASE UNCHANGED mainVars
    BY <1>9 DEF mainVars
<1> QED BY <1>1, <1>2, <1>3, <1>4, <1>5, <1>6, <1>7, <1>8, <1>9 DEF Main!Next

-----------------------------------------------------------------------------
(* The network: BootNet                                                    *)

LEMMA ModWrap ==
    ASSUME NEW n \in Nat, n # 0, NEW x \in Nat, x < n + n
    PROVE  x % n = IF x < n THEN x ELSE x - n
<1> DEFINE q == x \div n
           r == x % n
<1>1. q \in Nat /\ r \in 0..(n - 1) /\ x = n * q + r
    OBVIOUS
<1> HIDE DEF q, r
<1>2. CASE q = 0
    BY <1>1, <1>2 DEF r
<1>3. CASE q = 1
    BY <1>1, <1>3 DEF r
<1>4. CASE q >= 2
    <2>1. n * q >= n + n
        BY <1>1, <1>4
    <2> QED BY <1>1, <2>1
<1> QED BY <1>1, <1>2, <1>3, <1>4

\* the descriptor i places after a, and how far b is from a
At(a, i)  == IF a + i < Lerbuf THEN a + i ELSE a + i - Lerbuf
Far(a, b) == IF b >= a THEN b - a ELSE b - a + Lerbuf

\* The host has k descriptors, from sc_currmd on, and the chip the others.
HostHas(k) ==
    /\ \A j \in Net!Ring : rmd[j] # "chip" <=> Far(currmd, j) < k
    /\ chipAt = At(currmd, k)

\* What net_open() has done so far, and what it will not do again.
OpenedOnce ==
    /\ stage # "none" => sock /\ opens = 0 /\ 0 < MaxOpens
    /\ sock => stage # "none" \/ opens > 0
    /\ stage = "mount" => rootip
    /\ rootip => stage = "mount" \/ opens > 0
    /\ Net!OpenMeansMounted

NetInv == Net!TypeOK /\ OpenedOnce /\ \E k \in 0..Lerbuf : HostHas(k)

LEMMA NetNext1 == \A i \in Net!Ring : Net!Next1(i) = At(i, 1) /\ Net!Next1(i) \in Net!Ring
<1> SUFFICES ASSUME NEW i \in Net!Ring PROVE Net!Next1(i) = At(i, 1) /\ Net!Next1(i) \in Net!Ring
    OBVIOUS
<1> DEFINE x == i + 1
<1>1. x \in Nat /\ x < Lerbuf + Lerbuf
    BY NetAssumption DEF Net!Ring
<1>2. Lerbuf \in Nat /\ Lerbuf # 0
    BY NetAssumption
<1>3. x % Lerbuf = IF x < Lerbuf THEN x ELSE x - Lerbuf
    <2> HIDE DEF x
    <2> QED BY <1>1, <1>2, ModWrap
<1> QED BY <1>2, <1>3 DEF Net!Next1, Net!Ring, At

LEMMA NetInit == Net!Init => NetInv
<1> SUFFICES ASSUME Net!Init PROVE NetInv
    OBVIOUS
<1>1. 0 \in Net!Ring /\ 0 \in 0..(Day + Timeout) /\ 0 \in 0..MaxOpens
    BY NetAssumption DEF Net!Ring
<1>2. Net!TypeOK
    <2>1. /\ attached \in BOOLEAN /\ sock \in BOOLEAN /\ rootip \in BOOLEAN /\ mounted \in BOOLEAN
          /\ tmd \in BOOLEAN /\ tint \in BOOLEAN /\ whole \in BOOLEAN
        BY DEF Net!Init
    <2>2. len \in -1..1 /\ rmd \in [Net!Ring -> Net!Stored \cup {"chip"}]
        BY DEF Net!Init
    <2> QED BY <1>1, <2>1, <2>2 DEF Net!Init, Net!TypeOK
<1>3. HostHas(0)
    BY NetAssumption DEF Net!Init, HostHas, Net!Ring, At, Far
<1>4. OpenedOnce
    BY DEF Net!Init, OpenedOnce, Net!OpenMeansMounted
<1> QED BY <1>2, <1>3, <1>4, NetAssumption DEF NetInv

LEMMA NetTypeStep == Net!TypeOK /\ OpenedOnce /\ [Net!Next]_netVars => Net!TypeOK'
<1> SUFFICES ASSUME Net!TypeOK, OpenedOnce, [Net!Next]_netVars PROVE Net!TypeOK'
    OBVIOUS
<1> USE DEF Net!TypeOK, Net!devVars, Net!ringVars, Net!ioVars
<1>1. CASE Net!Receive
    <2>1. chipAt' \in Net!Ring
        BY <1>1, NetNext1 DEF Net!Receive
    <2> QED BY <1>1, <2>1 DEF Net!Receive
<1>2. CASE Net!Transmit
    BY <1>2 DEF Net!Transmit
<1>3. CASE Net!LeGet
    <2>1. deadline' \in 0..(Day + Timeout)
        BY <1>3, NetAssumption DEF Net!LeGet
    <2> QED BY <1>3, <2>1 DEF Net!LeGet
<1>4. ASSUME NEW tick \in {0, 1}, Net!LeGetTurn(tick) PROVE Net!TypeOK'
    <2>1. secs' \in 0..(Day - 1)
        BY <1>4, NetAssumption DEF Net!LeGetTurn, Net!Getsecs
    <2>2. rmd' \in [Net!Ring -> Net!Stored \cup {"chip"}]
        BY <1>4 DEF Net!LeGetTurn, Net!LanceGet
    <2>4. len' \in -1..1
        BY <1>4 DEF Net!LeGetTurn, Net!LanceGet
    <2>5. whole' \in BOOLEAN
        BY <1>4 DEF Net!LeGetTurn, Net!LanceGet
    <2>3. currmd' \in Net!Ring
        BY <1>4, NetNext1 DEF Net!LeGetTurn, Net!LanceGet
    <2> QED BY <1>4, <2>1, <2>2, <2>3, <2>4, <2>5 DEF Net!LeGetTurn
<1>5. CASE Net!LeGetReturn \/ Net!LePut \/ Net!LancePut \/ Net!LancePutDone \/ Net!LancePutTimeout
    <2>1. tmd' \in BOOLEAN /\ tint' \in BOOLEAN
        BY <1>5 DEF Net!LeGetReturn, Net!LePut, Net!LancePut, Net!LancePutDone, Net!LancePutTimeout
    <2> QED BY <1>5, <2>1
            DEF Net!LeGetReturn, Net!LePut, Net!LancePut, Net!LancePutDone, Net!LancePutTimeout
<1>6. ASSUME Net!LanceInit
      PROVE  /\ rmd' \in [Net!Ring -> Net!Stored \cup {"chip"}] /\ currmd' \in Net!Ring /\ chipAt' \in Net!Ring
             /\ tmd' \in BOOLEAN /\ tint' \in BOOLEAN /\ chip' \in {"stopped", "running"}
    <2>1. 0 \in Net!Ring
        BY NetAssumption DEF Net!Ring
    <2>2. tmd' \in BOOLEAN /\ tint' \in BOOLEAN
        BY <1>6 DEF Net!LanceInit
    <2> QED BY <1>6, <2>1, <2>2 DEF Net!LanceInit
<1>7. CASE Net!NetOpen
    <2>1. opens' \in 0..MaxOpens /\ stage' \in {"none", "params", "mount"}
        BY <1>7, NetAssumption DEF Net!NetOpen
    <2>2. attached' \in BOOLEAN /\ sock' \in BOOLEAN /\ mounted' \in BOOLEAN
        BY <1>7 DEF Net!NetOpen, Net!LeMatch, Net!LanceAttach
    <2>3. /\ rmd' \in [Net!Ring -> Net!Stored \cup {"chip"}] /\ currmd' \in Net!Ring /\ chipAt' \in Net!Ring
          /\ tmd' \in BOOLEAN /\ tint' \in BOOLEAN /\ chip' \in {"stopped", "running"}
        BY <1>6, <1>7 DEF Net!NetOpen
    <2> QED BY <1>7, <2>1, <2>2, <2>3 DEF Net!NetOpen
<1>8. CASE Net!NetParams \/ Net!NetFail
    BY <1>8 DEF Net!NetParams, Net!NetFail, Net!LanceEnd
<1>9. CASE Net!NetMount
    <2>1. opens + 1 \in 0..MaxOpens
        BY <1>9, NetAssumption DEF OpenedOnce, Net!NetMount
    <2> QED BY <1>9, <2>1 DEF Net!NetMount
<1>10. CASE Net!NetClose
    <2>1. opens' \in 0..MaxOpens
        BY <1>10, NetAssumption DEF Net!NetClose
    <2>2. rootip' \in BOOLEAN /\ sock' \in BOOLEAN
        BY <1>10 DEF Net!NetClose
    <2>3. UNCHANGED <<rmd, currmd, tmd, tint, chipAt>> /\ chip' \in {"stopped", "running"}
        BY <1>10 DEF Net!NetClose, Net!LanceEnd
    <2> QED BY <1>10, <2>1, <2>2, <2>3 DEF Net!NetClose
<1>11. CASE UNCHANGED netVars
    BY <1>11 DEF netVars
<1> QED BY <1>1, <1>2, <1>3, <1>4, <1>5, <1>7, <1>8, <1>9, <1>10, <1>11 DEF Net!Next, Net!Chip, Net!Net

LEMMA OpenedStep == Net!TypeOK /\ OpenedOnce /\ [Net!Next]_netVars => OpenedOnce'
<1> SUFFICES ASSUME Net!TypeOK, OpenedOnce, [Net!Next]_netVars PROVE OpenedOnce'
    OBVIOUS
<1> USE DEF OpenedOnce, Net!OpenMeansMounted
<1>1. opens \in Nat
    BY NetAssumption DEF Net!TypeOK
<1>2. CASE Net!NetOpen
    BY <1>1, <1>2 DEF Net!NetOpen
<1>3. CASE Net!NetParams
    BY <1>1, <1>3 DEF Net!NetParams
<1>4. CASE Net!NetMount
    BY <1>1, <1>4 DEF Net!NetMount
<1>5. CASE Net!NetFail
    BY <1>1, <1>5 DEF Net!NetFail
<1>6. CASE Net!NetClose
    <2>1. stage = "none" /\ stage' = "none" /\ opens > 0 /\ opens' = opens - 1 /\ mounted' = mounted
        BY <1>6 DEF Net!NetClose
    <2>2. CASE opens = 1
        BY <1>6, <2>1, <2>2 DEF Net!NetClose
    <2>3. CASE opens # 1
        BY <1>1, <1>6, <2>1, <2>3 DEF Net!NetClose
    <2> QED BY <2>2, <2>3
<1>7. CASE UNCHANGED Net!devVars
    BY <1>7 DEF Net!devVars
<1>8. ASSUME NEW tick \in {0, 1}, Net!LeGetTurn(tick) PROVE UNCHANGED Net!devVars
    BY <1>8 DEF Net!LeGetTurn
<1> QED BY <1>2, <1>3, <1>4, <1>5, <1>6, <1>7, <1>8
        DEF Net!Next, Net!Chip, Net!Net, Net!Receive, Net!Transmit, Net!LeGet, Net!LeGetReturn, Net!LePut,
            Net!LancePut, Net!LancePutDone, Net!LancePutTimeout, netVars, Net!devVars

LEMMA HostHasStep ==
    ASSUME Net!TypeOK, NEW k \in 0..Lerbuf, HostHas(k), [Net!Next]_netVars
    PROVE  \E n \in 0..Lerbuf : HostHas(n)'
<1> USE DEF HostHas, At, Far
<1>0. /\ Net!Ring = 0..(Lerbuf - 1) /\ Lerbuf \in Nat \ {0} /\ k \in Nat /\ k <= Lerbuf
      /\ currmd \in Net!Ring /\ chipAt \in Net!Ring
    BY NetAssumption DEF Net!TypeOK, Net!Ring
<1>1. CASE Net!Receive
    <2>1. rmd[chipAt] = "chip" /\ chipAt' = At(chipAt, 1) /\ UNCHANGED currmd
        BY <1>0, <1>1, NetNext1 DEF Net!Receive
    <2>2. k < Lerbuf
        BY <1>0, <2>1
    <2>3. \A j \in Net!Ring : rmd'[j] # "chip" <=> (rmd[j] # "chip" \/ j = chipAt)
        BY <1>1 DEF Net!Receive, Net!TypeOK, Net!Stored
    <2>4. \A j \in Net!Ring : Far(currmd, j) < k + 1 <=> (Far(currmd, j) < k \/ j = chipAt)
        BY <1>0, <2>2
    <2>5. chipAt' = At(currmd, k + 1)
        BY <1>0, <2>1, <2>2
    <2>6. HostHas(k + 1)'
        BY <2>1, <2>3, <2>4, <2>5 DEF Net!Ring
    <2> QED BY <1>0, <2>2, <2>6
<1>2. ASSUME NEW tick \in {0, 1}, Net!LeGetTurn(tick) PROVE \E n \in 0..Lerbuf : HostHas(n)'
    <2>1. CASE rmd[currmd] = "chip"
        <3>1. HostHas(k)'
            BY <1>2, <2>1 DEF Net!LeGetTurn, Net!LanceGet, Net!Ring
        <3> QED BY <3>1
    <2>2. CASE rmd[currmd] # "chip"
        <3>1. currmd' = At(currmd, 1) /\ UNCHANGED chipAt
            BY <1>0, <1>2, <2>2, NetNext1 DEF Net!LeGetTurn, Net!LanceGet
        <3>2. k > 0
            BY <1>0, <2>2
        <3>3. \A j \in Net!Ring : rmd'[j] # "chip" <=> (rmd[j] # "chip" /\ j # currmd)
            BY <1>2, <2>2 DEF Net!LeGetTurn, Net!LanceGet, Net!TypeOK
        <3>4. \A j \in Net!Ring : Far(currmd', j) < k - 1 <=> (Far(currmd, j) < k /\ j # currmd)
            BY <1>0, <3>1, <3>2
        <3>5. chipAt' = At(currmd', k - 1)
            BY <1>0, <3>1, <3>2
        <3>6. HostHas(k - 1)'
            BY <3>3, <3>4, <3>5 DEF Net!Ring
        <3> QED BY <1>0, <3>2, <3>6
    <2> QED BY <2>1, <2>2
<1>3. ASSUME Net!LanceInit PROVE \E n \in 0..Lerbuf : HostHas(n)'
    <2>1. HostHas(0)'
        BY <1>0, <1>3 DEF Net!LanceInit, Net!Ring
    <2> QED BY <1>0, <2>1
<1>4. CASE UNCHANGED <<rmd, currmd, chipAt>>
    <2>1. HostHas(k)'
        BY <1>4 DEF Net!Ring
    <2> QED BY <2>1
<1>5. CASE Net!NetOpen
    BY <1>3, <1>4, <1>5 DEF Net!NetOpen, Net!ringVars
<1> QED BY <1>1, <1>2, <1>4, <1>5
        DEF Net!Next, Net!Chip, Net!Net, Net!Transmit, Net!LeGet, Net!LeGetReturn, Net!LePut, Net!NetParams,
            Net!NetMount, Net!NetFail, Net!NetClose, Net!LanceEnd, Net!ringVars,
            Net!LancePut, Net!LancePutDone, Net!LancePutTimeout, netVars

\* k descriptors, counted one by one
LEMMA RingCounted ==
    ASSUME Net!TypeOK, NEW k \in 0..Lerbuf, HostHas(k)
    PROVE  Net!RingInStep
<1> DEFINE filled == {i \in Net!Ring : rmd[i] # "chip"}
           f == [i \in 1..k |-> At(currmd, i - 1)]
<1>0. /\ Net!Ring = 0..(Lerbuf - 1) /\ Lerbuf \in Nat /\ Lerbuf # 0 /\ k \in Nat /\ k <= Lerbuf
      /\ currmd \in Net!Ring /\ chipAt \in Net!Ring
    BY NetAssumption DEF Net!TypeOK, Net!Ring
<1>1. ASSUME NEW i \in 0..k PROVE At(currmd, i) = (currmd + i) % Lerbuf
    <2> DEFINE x == currmd + i
    <2>1. x \in Nat /\ x < Lerbuf + Lerbuf
        BY <1>0
    <2>2. x % Lerbuf = IF x < Lerbuf THEN x ELSE x - Lerbuf
        <3> HIDE DEF x
        <3> QED BY <1>0, <2>1, ModWrap
    <2> QED BY <1>0, <2>2 DEF At
<1>2. \A i \in 0..(k - 1) : At(currmd, i) \in filled
    BY <1>0 DEF HostHas, At, Far
<1>3. \A j \in filled : \E i \in 0..(k - 1) : j = At(currmd, i)
    <2> SUFFICES ASSUME NEW j \in filled PROVE Far(currmd, j) \in 0..(k - 1) /\ j = At(currmd, Far(currmd, j))
        OBVIOUS
    <2> QED BY <1>0 DEF HostHas, At, Far
<1>4. filled = {(currmd + i) % Lerbuf : i \in 0..(k - 1)}
    <2>1. \A i \in 0..(k - 1) : At(currmd, i) = (currmd + i) % Lerbuf
        BY <1>0, <1>1
    <2> HIDE DEF filled
    <2> QED BY <1>2, <1>3, <2>1
<1>5. Cardinality(filled) = k
    <2>1. f \in [1..k -> filled]
        BY <1>0, <1>2
    <2>2. \A a, b \in 1..k : f[a] = f[b] => a = b
        BY <1>0 DEF At
    <2>3. \A j \in filled : \E a \in 1..k : f[a] = j
        <3> SUFFICES ASSUME NEW j \in filled PROVE \E a \in 1..k : f[a] = j
            OBVIOUS
        <3>1. PICK i \in 0..(k - 1) : j = At(currmd, i)
            BY <1>3
        <3>2. i + 1 \in 1..k /\ (i + 1) - 1 = i
            BY <1>0
        <3> QED BY <3>1, <3>2
    <2> HIDE DEF f, filled
    <2>4. ExistsBijection(1..k, filled)
        BY <2>1, <2>2, <2>3 DEF ExistsBijection, Bijection, Injection, Surjection, IsInjective
    <2>5. IsFiniteSet(1..k) /\ Cardinality(1..k) = k
        BY <1>0, FS_Interval
    <2> QED BY <2>4, <2>5, FS_Bijection
<1>6. (currmd + k) % Lerbuf = chipAt
    BY <1>0, <1>1 DEF HostHas
<1>7. filled = {(currmd + i) % Lerbuf : i \in 0..(Cardinality(filled) - 1)}
      /\ (currmd + Cardinality(filled)) % Lerbuf = chipAt
    <2> HIDE DEF filled
    <2> QED BY <1>4, <1>5, <1>6
<1>8. Net!Cardinality(filled) = Cardinality(filled)
    BY Zenon DEF Net!Cardinality, Cardinality
<1> QED BY <1>7, <1>8, Zenon DEF Net!RingInStep

-----------------------------------------------------------------------------
(* The screen: BootScreen                                                  *)

\* the pixel k of a cell: its word and its bit; a scan line and what it shows
WordAt(c, k) == (c * 12 + k) \div 16
BitAt(c, k) == 15 - ((c * 12 + k) % 16)
Lit(line, c, k) == BitAt(c, k) \in line[WordAt(c, k)]
Line == [Screen!Words -> SUBSET Screen!Bits]

\* four characters share three words
LEMMA FourInThree ==
    ASSUME NEW q \in Nat, NEW m \in 0..3, NEW k \in 0..11
    PROVE  /\ m = 0 => WordAt(4 * q + m, k) = 3 * q /\ BitAt(4 * q + m, k) = 15 - k
           /\ m = 1 /\ k < 4 => WordAt(4 * q + m, k) = 3 * q /\ BitAt(4 * q + m, k) = 3 - k
           /\ m = 1 /\ k >= 4 => WordAt(4 * q + m, k) = 3 * q + 1 /\ BitAt(4 * q + m, k) = 19 - k
           /\ m = 2 /\ k < 8 => WordAt(4 * q + m, k) = 3 * q + 1 /\ BitAt(4 * q + m, k) = 7 - k
           /\ m = 2 /\ k >= 8 => WordAt(4 * q + m, k) = 3 * q + 2 /\ BitAt(4 * q + m, k) = 23 - k
           /\ m = 3 => WordAt(4 * q + m, k) = 3 * q + 2 /\ BitAt(4 * q + m, k) = 11 - k
<1>1. (4 * q + m) * 12 + k = 48 * q + (12 * m + k)
    OBVIOUS
<1>2. ASSUME NEW y \in 0..47
      PROVE  /\ (48 * q + y) \div 16 = 3 * q + (IF y < 16 THEN 0 ELSE IF y < 32 THEN 1 ELSE 2)
             /\ (48 * q + y) % 16 = IF y < 16 THEN y ELSE IF y < 32 THEN y - 16 ELSE y - 32
    <2>1. PICK x : x = 48 * q + y
        OBVIOUS
    <2>2. PICK z \in 0..2 : 16 * z <= y /\ y < 16 * z + 16
        <3>1. (y < 16 \/ (16 <= y /\ y < 32) \/ 32 <= y) /\ y < 48 /\ 0 <= y
            OBVIOUS
        <3> QED BY <3>1
    <2>3. x \in Nat /\ 16 * (3 * q + z) <= x /\ x < 16 * (3 * q + z) + 16
        BY <2>1, <2>2
    <2>4. PICK v \in Nat : v = 3 * q + z
        BY <2>2
    <2>5. x \div 16 = v /\ x % 16 = x - 16 * v
        BY <2>3, <2>4, SMTT(30)
    <2> QED BY <2>1, <2>2, <2>4, <2>5
<1>4. 12 * m + k \in 0..47
    OBVIOUS
<1> QED BY <1>1, <1>2, <1>4 DEF WordAt, BitAt

\* a column, its group and its place in it
LEMMA GroupOf ==
    ASSUME NEW c \in Nat, NEW q, q = c \div 4, NEW m, m = c % 4
    PROVE  q \in Nat /\ m \in 0..3 /\ c = 4 * q + m
<1>1. q \in Nat
    BY SMTT(30)
<1>2. m \in 0..3
    BY SMTT(30)
<1>3. c = 4 * q + m
    BY <1>1, <1>2, SMTT(30)
<1> QED BY <1>1, <1>2, <1>3

LEMMA WordsOf ==
    ASSUME NEW c \in Screen!Cols, NEW k \in 0..11
    PROVE  c \in Nat /\ WordAt(c, k) \in Screen!Words /\ BitAt(c, k) \in Screen!Bits
<1>1. c \in Nat /\ Xmax \in Nat /\ c < Xmax
    BY ScreenAssumption DEF Screen!Cols
<1>2. PICK x, y : x = c * 12 + k /\ y = Xmax * 12
    OBVIOUS
<1>3. x \in Nat /\ y \in Nat /\ x < y
    BY <1>1, <1>2
<1>4. x \div 16 \in 0..(y \div 16) /\ x % 16 \in 0..15
    BY <1>3, SMTT(30)
<1> QED BY <1>1, <1>2, <1>4 DEF WordAt, BitAt, Screen!Words, Screen!Bits

LEMMA ColNat == \A c \in Screen!Cols : c \in Nat
    BY ScreenAssumption DEF Screen!Cols

\* the bits of the words that are a character's pixels
Mine(m, w, v, b) ==
    \/ m = 0 /\ v = w /\ b \in 4..15
    \/ m = 1 /\ ((v = w /\ b \in 0..3) \/ (v = w + 1 /\ b \in 8..15))
    \/ m = 2 /\ ((v = w + 1 /\ b \in 0..7) \/ (v = w + 2 /\ b \in 12..15))
    \/ m = 3 /\ v = w + 2 /\ b \in 0..11

\* the pixel that such a bit is
Pixel(m, w, v, b) ==
    IF m = 0 THEN 15 - b
    ELSE IF m = 1 THEN (IF v = w THEN 3 - b ELSE 19 - b)
    ELSE IF m = 2 THEN (IF v = w + 1 THEN 7 - b ELSE 23 - b)
    ELSE 11 - b

LEMMA MineIs ==
    ASSUME NEW c \in Screen!Cols, NEW q, q = c \div 4, NEW m, m = c % 4,
           NEW d \in Screen!Cols, NEW k \in 0..11
    PROVE  /\ Mine(m, 3 * q, WordAt(d, k), BitAt(d, k)) <=> d = c
           /\ d = c => Pixel(m, 3 * q, WordAt(d, k), BitAt(d, k)) = k
<1>1. c \in Nat /\ q \in Nat /\ m \in 0..3 /\ c = 4 * q + m
    BY GroupOf, ColNat
<1>2. PICK p, n : p = d \div 4 /\ n = d % 4
    OBVIOUS
<1>3. d \in Nat /\ p \in Nat /\ n \in 0..3 /\ d = 4 * p + n
    BY <1>2, GroupOf, ColNat
<1>4. d = c <=> p = q /\ n = m
    BY <1>1, <1>3
<1>5. CASE n = 0
    BY <1>1, <1>3, <1>4, <1>5, FourInThree DEF Mine, Pixel
<1>6. CASE n = 1
    BY <1>1, <1>3, <1>4, <1>6, FourInThree DEF Mine, Pixel
<1>7. CASE n = 2
    BY <1>1, <1>3, <1>4, <1>7, FourInThree DEF Mine, Pixel
<1>8. CASE n = 3
    BY <1>1, <1>3, <1>4, <1>8, FourInThree DEF Mine, Pixel
<1> QED BY <1>3, <1>5, <1>6, <1>7, <1>8

LEMMA CharDrawn ==
    ASSUME NEW line \in Line, NEW c \in Screen!Cols, NEW f \in SUBSET (4..15)
    PROVE  /\ Screen!DrawChar(line, c, f) \in Line
           /\ \A d \in Screen!Cols, k \in 0..11 :
                 Lit(Screen!DrawChar(line, c, f), d, k) <=> IF d = c THEN 15 - k \in f ELSE Lit(line, d, k)
<1>1. PICK q, m : q = c \div 4 /\ m = c % 4
    OBVIOUS
<1>0. PICK w : w = (c \div 4) * 3
    OBVIOUS
<1>2. c \in Nat /\ q \in Nat /\ m \in 0..3 /\ c = 4 * q + m /\ w \in Nat /\ w = 3 * q
    <2>1. c \in Nat /\ q \in Nat /\ m \in 0..3 /\ c = 4 * q + m
        BY <1>1, GroupOf, ColNat
    <2> QED BY <1>0, <1>1, <2>1
<1>3. PICK D : D = Screen!DrawChar(line, c, f)
    OBVIOUS
<1>4. /\ m = 0 => w \in Screen!Words
      /\ m = 1 => w \in Screen!Words /\ w + 1 \in Screen!Words
      /\ m = 2 => w + 1 \in Screen!Words /\ w + 2 \in Screen!Words
      /\ m = 3 => w + 2 \in Screen!Words
    <2>1. WordAt(c, 0) \in Screen!Words /\ WordAt(c, 11) \in Screen!Words
        BY WordsOf
    <2>2. 0 \in 0..11 /\ 11 \in 0..11
        OBVIOUS
    <2> QED BY <1>0, <1>2, <2>1, <2>2, FourInThree
<1>5. ASSUME NEW n \in Int, NEW b \in Int PROVE b \in Screen!Shift(f, n) <=> b - n \in f
    <2>1. b \in Screen!Shift(f, n) <=> \E x \in f : b = x + n
        BY DEF Screen!Shift
    <2>2. \A x \in f : b = x + n <=> x = b - n
        OBVIOUS
    <2> QED BY <2>1, <2>2
<1>6. D \in Line /\ \A v \in Screen!Words, b \in Screen!Bits :
          b \in D[v] <=> IF Mine(m, w, v, b) THEN 15 - Pixel(m, w, v, b) \in f ELSE b \in line[v]
    <2>1. CASE m = 0
        <3>0. PICK x : /\ x = Screen!Merge(line[w], 4..15, f)
            OBVIOUS
        <3>1. D = [line EXCEPT ![w] = x]
            BY <1>0, <1>1, <1>3, <2>1, <3>0 DEF Screen!DrawChar
        <3>2. x \in SUBSET Screen!Bits
            BY <1>4, <2>1, <3>0 DEF Line, Screen!Merge, Screen!Bits
        <3>3. D \in Line /\ \A v \in Screen!Words : D[v] = IF v = w THEN x ELSE line[v]
            BY <1>2, <1>4, <2>1, <3>1, <3>2 DEF Line
        <3>4. ASSUME NEW v \in Screen!Words, NEW b \in Screen!Bits
              PROVE  b \in D[v] <=> IF Mine(m, w, v, b) THEN 15 - Pixel(m, w, v, b) \in f ELSE b \in line[v]
            <4>1. b \in Int /\ b \in 0..15 /\ v \in Int
                BY DEF Screen!Bits, Screen!Words
            <4>2. CASE v = w
                <5>1. Mine(m, w, v, b) <=> b \in 4..15
                    BY <1>2, <2>1, <4>1, <4>2 DEF Mine
                <5>2. D[v] = x
                    BY <1>2, <3>3, <4>1, <4>2
                <5>3. 15 - Pixel(m, w, v, b) = b
                    BY <1>2, <2>1, <4>1, <4>2 DEF Pixel
                <5> QED BY <3>0, <4>1, <4>2, <5>1, <5>2, <5>3 DEF Screen!Merge
            <4>5. CASE v # w
                BY <1>2, <2>1, <3>3, <4>1, <4>5 DEF Mine
            <4> QED BY <4>2, <4>5
        <3> QED BY <3>3, <3>4
    <2>2. CASE m = 1
        <3>0. PICK x, y : /\ x = Screen!Merge(line[w], 0..3, Screen!Shift(f, -12))
              /\ y = Screen!Merge(line[w + 1], 8..15, Screen!Shift(f, 4))
            OBVIOUS
        <3>1. D = [line EXCEPT ![w] = x, ![w + 1] = y]
            BY <1>0, <1>1, <1>3, <2>2, <3>0 DEF Screen!DrawChar
        <3>2. x \in SUBSET Screen!Bits /\ y \in SUBSET Screen!Bits
            BY <1>4, <2>2, <3>0 DEF Line, Screen!Merge, Screen!Bits
        <3>3. D \in Line /\ \A v \in Screen!Words : D[v] = IF v = w THEN x ELSE IF v = w + 1 THEN y ELSE line[v]
            BY <1>2, <1>4, <2>2, <3>1, <3>2 DEF Line
        <3>4. ASSUME NEW v \in Screen!Words, NEW b \in Screen!Bits
              PROVE  b \in D[v] <=> IF Mine(m, w, v, b) THEN 15 - Pixel(m, w, v, b) \in f ELSE b \in line[v]
            <4>1. b \in Int /\ b \in 0..15 /\ v \in Int
                BY DEF Screen!Bits, Screen!Words
            <4>2. CASE v = w
                <5>1. Mine(m, w, v, b) <=> b \in 0..3
                    BY <1>2, <2>2, <4>1, <4>2 DEF Mine
                <5>2. D[v] = x
                    BY <1>2, <3>3, <4>1, <4>2
                <5>3. 15 - Pixel(m, w, v, b) = b + 12
                    BY <1>2, <2>2, <4>1, <4>2 DEF Pixel
                <5>4. b \in Screen!Shift(f, -12) <=> b + 12 \in f
                    BY <1>5, <4>1
                <5> QED BY <3>0, <4>1, <4>2, <5>1, <5>2, <5>3, <5>4 DEF Screen!Merge
            <4>3. CASE v = w + 1
                <5>1. Mine(m, w, v, b) <=> b \in 8..15
                    BY <1>2, <2>2, <4>1, <4>3 DEF Mine
                <5>2. D[v] = y
                    BY <1>2, <3>3, <4>1, <4>3
                <5>3. 15 - Pixel(m, w, v, b) = b - 4
                    BY <1>2, <2>2, <4>1, <4>3 DEF Pixel
                <5>4. b \in Screen!Shift(f, 4) <=> b - 4 \in f
                    BY <1>5, <4>1
                <5> QED BY <3>0, <4>1, <4>3, <5>1, <5>2, <5>3, <5>4 DEF Screen!Merge
            <4>5. CASE v # w /\ v # w + 1
                BY <1>2, <2>2, <3>3, <4>1, <4>5 DEF Mine
            <4> QED BY <4>2, <4>3, <4>5
        <3> QED BY <3>3, <3>4
    <2>3. CASE m = 2
        <3>0. PICK x, y : /\ x = Screen!Merge(line[w + 1], 0..7, Screen!Shift(f, -8))
              /\ y = Screen!Merge(line[w + 2], 12..15, Screen!Shift(f, 8))
            OBVIOUS
        <3>1. D = [line EXCEPT ![w + 1] = x, ![w + 2] = y]
            BY <1>0, <1>1, <1>3, <2>3, <3>0 DEF Screen!DrawChar
        <3>2. x \in SUBSET Screen!Bits /\ y \in SUBSET Screen!Bits
            BY <1>4, <2>3, <3>0 DEF Line, Screen!Merge, Screen!Bits
        <3>3. D \in Line /\ \A v \in Screen!Words : D[v] = IF v = w + 1 THEN x ELSE IF v = w + 2 THEN y ELSE line[v]
            BY <1>2, <1>4, <2>3, <3>1, <3>2 DEF Line
        <3>4. ASSUME NEW v \in Screen!Words, NEW b \in Screen!Bits
              PROVE  b \in D[v] <=> IF Mine(m, w, v, b) THEN 15 - Pixel(m, w, v, b) \in f ELSE b \in line[v]
            <4>1. b \in Int /\ b \in 0..15 /\ v \in Int
                BY DEF Screen!Bits, Screen!Words
            <4>3. CASE v = w + 1
                <5>1. Mine(m, w, v, b) <=> b \in 0..7
                    BY <1>2, <2>3, <4>1, <4>3 DEF Mine
                <5>2. D[v] = x
                    BY <1>2, <3>3, <4>1, <4>3
                <5>3. 15 - Pixel(m, w, v, b) = b + 8
                    BY <1>2, <2>3, <4>1, <4>3 DEF Pixel
                <5>4. b \in Screen!Shift(f, -8) <=> b + 8 \in f
                    BY <1>5, <4>1
                <5> QED BY <3>0, <4>1, <4>3, <5>1, <5>2, <5>3, <5>4 DEF Screen!Merge
            <4>4. CASE v = w + 2
                <5>1. Mine(m, w, v, b) <=> b \in 12..15
                    BY <1>2, <2>3, <4>1, <4>4 DEF Mine
                <5>2. D[v] = y
                    BY <1>2, <3>3, <4>1, <4>4
                <5>3. 15 - Pixel(m, w, v, b) = b - 8
                    BY <1>2, <2>3, <4>1, <4>4 DEF Pixel
                <5>4. b \in Screen!Shift(f, 8) <=> b - 8 \in f
                    BY <1>5, <4>1
                <5> QED BY <3>0, <4>1, <4>4, <5>1, <5>2, <5>3, <5>4 DEF Screen!Merge
            <4>5. CASE v # w + 1 /\ v # w + 2
                BY <1>2, <2>3, <3>3, <4>1, <4>5 DEF Mine
            <4> QED BY <4>3, <4>4, <4>5
        <3> QED BY <3>3, <3>4
    <2>4. CASE m = 3
        <3>0. PICK x : /\ x = Screen!Merge(line[w + 2], 0..11, Screen!Shift(f, -4))
            OBVIOUS
        <3>1. D = [line EXCEPT ![w + 2] = x]
            BY <1>0, <1>1, <1>3, <2>4, <3>0 DEF Screen!DrawChar
        <3>2. x \in SUBSET Screen!Bits
            BY <1>4, <2>4, <3>0 DEF Line, Screen!Merge, Screen!Bits
        <3>3. D \in Line /\ \A v \in Screen!Words : D[v] = IF v = w + 2 THEN x ELSE line[v]
            BY <1>2, <1>4, <2>4, <3>1, <3>2 DEF Line
        <3>4. ASSUME NEW v \in Screen!Words, NEW b \in Screen!Bits
              PROVE  b \in D[v] <=> IF Mine(m, w, v, b) THEN 15 - Pixel(m, w, v, b) \in f ELSE b \in line[v]
            <4>1. b \in Int /\ b \in 0..15 /\ v \in Int
                BY DEF Screen!Bits, Screen!Words
            <4>4. CASE v = w + 2
                <5>1. Mine(m, w, v, b) <=> b \in 0..11
                    BY <1>2, <2>4, <4>1, <4>4 DEF Mine
                <5>2. D[v] = x
                    BY <1>2, <3>3, <4>1, <4>4
                <5>3. 15 - Pixel(m, w, v, b) = b + 4
                    BY <1>2, <2>4, <4>1, <4>4 DEF Pixel
                <5>4. b \in Screen!Shift(f, -4) <=> b + 4 \in f
                    BY <1>5, <4>1
                <5> QED BY <3>0, <4>1, <4>4, <5>1, <5>2, <5>3, <5>4 DEF Screen!Merge
            <4>5. CASE v # w + 2
                BY <1>2, <2>4, <3>3, <4>1, <4>5 DEF Mine
            <4> QED BY <4>4, <4>5
        <3> QED BY <3>3, <3>4
    <2> QED BY <1>2, <2>1, <2>2, <2>3, <2>4
<1>7. ASSUME NEW d \in Screen!Cols, NEW k \in 0..11
      PROVE  Lit(D, d, k) <=> IF d = c THEN 15 - k \in f ELSE Lit(line, d, k)
    BY <1>0, <1>1, <1>6, MineIs, WordsOf DEF Lit
<1> QED BY <1>3, <1>6, <1>7

LEMMA CharReversed ==
    ASSUME NEW line \in Line, NEW c \in Screen!Cols
    PROVE  /\ Screen!ReverseChar(line, c) \in Line
           /\ \A d \in Screen!Cols, k \in 0..11 :
                 Lit(Screen!ReverseChar(line, c), d, k) <=> IF d = c THEN ~Lit(line, d, k) ELSE Lit(line, d, k)
<1>1. PICK q, m : q = c \div 4 /\ m = c % 4
    OBVIOUS
<1>0. PICK w : w = (c \div 4) * 3
    OBVIOUS
<1>2. c \in Nat /\ q \in Nat /\ m \in 0..3 /\ c = 4 * q + m /\ w \in Nat /\ w = 3 * q
    <2>1. c \in Nat /\ q \in Nat /\ m \in 0..3 /\ c = 4 * q + m
        BY <1>1, GroupOf, ColNat
    <2> QED BY <1>0, <1>1, <2>1
<1>3. PICK D : D = Screen!ReverseChar(line, c)
    OBVIOUS
<1>4. /\ m = 0 => w \in Screen!Words
      /\ m = 1 => w \in Screen!Words /\ w + 1 \in Screen!Words
      /\ m = 2 => w + 1 \in Screen!Words /\ w + 2 \in Screen!Words
      /\ m = 3 => w + 2 \in Screen!Words
    <2>1. WordAt(c, 0) \in Screen!Words /\ WordAt(c, 11) \in Screen!Words
        BY WordsOf
    <2>2. 0 \in 0..11 /\ 11 \in 0..11
        OBVIOUS
    <2> QED BY <1>0, <1>2, <2>1, <2>2, FourInThree
<1>5. D \in Line /\ \A v \in Screen!Words, b \in Screen!Bits :
          b \in D[v] <=> IF Mine(m, w, v, b) THEN b \notin line[v] ELSE b \in line[v]
    <2>1. CASE m = 0
        <3>0. PICK x : /\ x = Screen!Merge(line[w], 4..15, Screen!Bits \ line[w])
            OBVIOUS
        <3>1. D = [line EXCEPT ![w] = x]
            BY <1>0, <1>1, <1>3, <2>1, <3>0 DEF Screen!ReverseChar
        <3>2. x \in SUBSET Screen!Bits
            BY <1>4, <2>1, <3>0 DEF Line, Screen!Merge, Screen!Bits
        <3>3. D \in Line /\ \A v \in Screen!Words : D[v] = IF v = w THEN x ELSE line[v]
            BY <1>2, <1>4, <2>1, <3>1, <3>2 DEF Line
        <3>4. ASSUME NEW v \in Screen!Words, NEW b \in Screen!Bits
              PROVE  b \in D[v] <=> IF Mine(m, w, v, b) THEN b \notin line[v] ELSE b \in line[v]
            <4>1. b \in Int /\ b \in 0..15 /\ v \in Int
                BY DEF Screen!Bits, Screen!Words
            <4>2. CASE v = w
                <5>1. Mine(m, w, v, b) <=> b \in 4..15
                    BY <1>2, <2>1, <4>1, <4>2 DEF Mine
                <5>2. D[v] = x
                    BY <1>2, <3>3, <4>1, <4>2
                <5> QED BY <3>0, <4>1, <4>2, <5>1, <5>2 DEF Screen!Merge, Screen!Bits
            <4>5. CASE v # w
                BY <1>2, <2>1, <3>3, <4>1, <4>5 DEF Mine
            <4> QED BY <4>2, <4>5
        <3> QED BY <3>3, <3>4
    <2>2. CASE m = 1
        <3>0. PICK x, y : /\ x = Screen!Merge(line[w], 0..3, Screen!Bits \ line[w])
              /\ y = Screen!Merge(line[w + 1], 8..15, Screen!Bits \ line[w + 1])
            OBVIOUS
        <3>1. D = [line EXCEPT ![w] = x, ![w + 1] = y]
            BY <1>0, <1>1, <1>3, <2>2, <3>0 DEF Screen!ReverseChar
        <3>2. x \in SUBSET Screen!Bits /\ y \in SUBSET Screen!Bits
            BY <1>4, <2>2, <3>0 DEF Line, Screen!Merge, Screen!Bits
        <3>3. D \in Line /\ \A v \in Screen!Words : D[v] = IF v = w THEN x ELSE IF v = w + 1 THEN y ELSE line[v]
            BY <1>2, <1>4, <2>2, <3>1, <3>2 DEF Line
        <3>4. ASSUME NEW v \in Screen!Words, NEW b \in Screen!Bits
              PROVE  b \in D[v] <=> IF Mine(m, w, v, b) THEN b \notin line[v] ELSE b \in line[v]
            <4>1. b \in Int /\ b \in 0..15 /\ v \in Int
                BY DEF Screen!Bits, Screen!Words
            <4>2. CASE v = w
                <5>1. Mine(m, w, v, b) <=> b \in 0..3
                    BY <1>2, <2>2, <4>1, <4>2 DEF Mine
                <5>2. D[v] = x
                    BY <1>2, <3>3, <4>1, <4>2
                <5> QED BY <3>0, <4>1, <4>2, <5>1, <5>2 DEF Screen!Merge, Screen!Bits
            <4>3. CASE v = w + 1
                <5>1. Mine(m, w, v, b) <=> b \in 8..15
                    BY <1>2, <2>2, <4>1, <4>3 DEF Mine
                <5>2. D[v] = y
                    BY <1>2, <3>3, <4>1, <4>3
                <5> QED BY <3>0, <4>1, <4>3, <5>1, <5>2 DEF Screen!Merge, Screen!Bits
            <4>5. CASE v # w /\ v # w + 1
                BY <1>2, <2>2, <3>3, <4>1, <4>5 DEF Mine
            <4> QED BY <4>2, <4>3, <4>5
        <3> QED BY <3>3, <3>4
    <2>3. CASE m = 2
        <3>0. PICK x, y : /\ x = Screen!Merge(line[w + 1], 0..7, Screen!Bits \ line[w + 1])
              /\ y = Screen!Merge(line[w + 2], 12..15, Screen!Bits \ line[w + 2])
            OBVIOUS
        <3>1. D = [line EXCEPT ![w + 1] = x, ![w + 2] = y]
            BY <1>0, <1>1, <1>3, <2>3, <3>0 DEF Screen!ReverseChar
        <3>2. x \in SUBSET Screen!Bits /\ y \in SUBSET Screen!Bits
            BY <1>4, <2>3, <3>0 DEF Line, Screen!Merge, Screen!Bits
        <3>3. D \in Line /\ \A v \in Screen!Words : D[v] = IF v = w + 1 THEN x ELSE IF v = w + 2 THEN y ELSE line[v]
            BY <1>2, <1>4, <2>3, <3>1, <3>2 DEF Line
        <3>4. ASSUME NEW v \in Screen!Words, NEW b \in Screen!Bits
              PROVE  b \in D[v] <=> IF Mine(m, w, v, b) THEN b \notin line[v] ELSE b \in line[v]
            <4>1. b \in Int /\ b \in 0..15 /\ v \in Int
                BY DEF Screen!Bits, Screen!Words
            <4>3. CASE v = w + 1
                <5>1. Mine(m, w, v, b) <=> b \in 0..7
                    BY <1>2, <2>3, <4>1, <4>3 DEF Mine
                <5>2. D[v] = x
                    BY <1>2, <3>3, <4>1, <4>3
                <5> QED BY <3>0, <4>1, <4>3, <5>1, <5>2 DEF Screen!Merge, Screen!Bits
            <4>4. CASE v = w + 2
                <5>1. Mine(m, w, v, b) <=> b \in 12..15
                    BY <1>2, <2>3, <4>1, <4>4 DEF Mine
                <5>2. D[v] = y
                    BY <1>2, <3>3, <4>1, <4>4
                <5> QED BY <3>0, <4>1, <4>4, <5>1, <5>2 DEF Screen!Merge, Screen!Bits
            <4>5. CASE v # w + 1 /\ v # w + 2
                BY <1>2, <2>3, <3>3, <4>1, <4>5 DEF Mine
            <4> QED BY <4>3, <4>4, <4>5
        <3> QED BY <3>3, <3>4
    <2>4. CASE m = 3
        <3>0. PICK x : /\ x = Screen!Merge(line[w + 2], 0..11, Screen!Bits \ line[w + 2])
            OBVIOUS
        <3>1. D = [line EXCEPT ![w + 2] = x]
            BY <1>0, <1>1, <1>3, <2>4, <3>0 DEF Screen!ReverseChar
        <3>2. x \in SUBSET Screen!Bits
            BY <1>4, <2>4, <3>0 DEF Line, Screen!Merge, Screen!Bits
        <3>3. D \in Line /\ \A v \in Screen!Words : D[v] = IF v = w + 2 THEN x ELSE line[v]
            BY <1>2, <1>4, <2>4, <3>1, <3>2 DEF Line
        <3>4. ASSUME NEW v \in Screen!Words, NEW b \in Screen!Bits
              PROVE  b \in D[v] <=> IF Mine(m, w, v, b) THEN b \notin line[v] ELSE b \in line[v]
            <4>1. b \in Int /\ b \in 0..15 /\ v \in Int
                BY DEF Screen!Bits, Screen!Words
            <4>4. CASE v = w + 2
                <5>1. Mine(m, w, v, b) <=> b \in 0..11
                    BY <1>2, <2>4, <4>1, <4>4 DEF Mine
                <5>2. D[v] = x
                    BY <1>2, <3>3, <4>1, <4>4
                <5> QED BY <3>0, <4>1, <4>4, <5>1, <5>2 DEF Screen!Merge, Screen!Bits
            <4>5. CASE v # w + 2
                BY <1>2, <2>4, <3>3, <4>1, <4>5 DEF Mine
            <4> QED BY <4>4, <4>5
        <3> QED BY <3>3, <3>4
    <2> QED BY <1>2, <2>1, <2>2, <2>3, <2>4
<1>6. ASSUME NEW d \in Screen!Cols, NEW k \in 0..11
      PROVE  Lit(D, d, k) <=> IF d = c THEN ~Lit(line, d, k) ELSE Lit(line, d, k)
    BY <1>0, <1>1, <1>5, MineIs, WordsOf DEF Lit
<1> QED BY <1>3, <1>5, <1>6

Page  == [Screen!Rows -> Line]
Cells == [Screen!Rows -> [Screen!Cols -> SUBSET (4..15)]]

\* p shows the text t, with no cursor
Clean(p, t) ==
    /\ p \in Page /\ t \in Cells
    /\ \A r \in Screen!Rows, c \in Screen!Cols, k \in 0..11 : Lit(p[r], c, k) <=> 15 - k \in t[r][c]

\* the escape sequence is as long as its handler says
EscapeInv ==
    /\ ~escape => esc = 0 /\ handler = "escape"
    /\ escape /\ handler = "escape" => esc = 1
    /\ escape /\ handler = "escape_0" => esc = 2

\* reversed where the cursor is, the plane shows the text
ScreenInv ==
    /\ col \in Screen!Cols /\ row \in Screen!Rows
    /\ escape \in BOOLEAN /\ handler \in {"escape", "escape_0"}
    /\ EscapeInv
    /\ plane \in Page /\ text \in Cells
    /\ \A r \in Screen!Rows, c \in Screen!Cols, k \in 0..11 :
          Lit(plane[r], c, k) <=> IF r = row /\ c = col THEN 15 - k \notin text[r][c] ELSE 15 - k \in text[r][c]

LEMMA ScreenKept == ScreenInv => Screen!TypeOK /\ Screen!ScreenShowsText
<1> SUFFICES ASSUME ScreenInv PROVE Screen!TypeOK /\ Screen!ScreenShowsText
    OBVIOUS
<1>1. Screen!TypeOK
    <2>1. escape \in BOOLEAN
        BY DEF ScreenInv
    <2>2. esc \in 0..Screen!Esclen
        <3>1. esc \in {0, 1, 2}
            BY DEF ScreenInv, EscapeInv
        <3> QED BY <3>1 DEF Screen!Esclen
    <2>3. col \in Screen!Cols /\ row \in Screen!Rows /\ handler \in {"escape", "escape_0"}
          /\ plane \in [Screen!Rows -> [Screen!Words -> SUBSET Screen!Bits]]
          /\ text \in [Screen!Rows -> [Screen!Cols -> SUBSET (4..15)]]
        BY DEF ScreenInv, Page, Cells, Line
    <2> QED BY <2>1, <2>2, <2>3 DEF Screen!TypeOK
<1>2. ASSUME NEW r \in Screen!Rows, NEW c \in Screen!Cols
      PROVE  Screen!Shown(r, c) = IF r = row /\ c = col THEN (4..15) \ text[r][c] ELSE text[r][c]
    <2>1. PICK g : g = IF r = row /\ c = col THEN (4..15) \ text[r][c] ELSE text[r][c]
        OBVIOUS
    <2>2. g \in SUBSET (4..15)
        BY <2>1 DEF ScreenInv, Cells
    <2>3. \A k \in 0..11 : Lit(plane[r], c, k) <=> 15 - k \in g
        <3> SUFFICES ASSUME NEW k \in 0..11 PROVE Lit(plane[r], c, k) <=> 15 - k \in g
            OBVIOUS
        <3>1. 15 - k \in 4..15
            OBVIOUS
        <3>2. Lit(plane[r], c, k) <=> IF r = row /\ c = col THEN 15 - k \notin text[r][c] ELSE 15 - k \in text[r][c]
            BY DEF ScreenInv
        <3> QED BY <2>1, <3>1, <3>2
    <2>4. Screen!Shown(r, c) = {15 - k : k \in {i \in 0..11 : Lit(plane[r], c, i)}}
        BY DEF Screen!Shown, Lit, BitAt, WordAt
    <2>5. {i \in 0..11 : Lit(plane[r], c, i)} = {i \in 0..11 : 15 - i \in g}
        BY <2>3
    <2>6. {15 - k : k \in {i \in 0..11 : 15 - i \in g}} = g
        <3>1. \A b \in g : 15 - b \in 0..11 /\ 15 - (15 - b) = b /\ b \in Int
            BY <2>2
        <3> QED BY <3>1
    <2> QED BY <2>1, <2>4, <2>5, <2>6
<1> QED BY <1>1, <1>2 DEF Screen!ScreenShowsText

LEMMA OffIsClean == ScreenInv => Clean(Screen!Off, text)
<1> SUFFICES ASSUME ScreenInv PROVE Clean(Screen!Off, text)
    OBVIOUS
<1>1. PICK D : D = Screen!ReverseChar(plane[row], col)
    OBVIOUS
<1>2. plane \in Page /\ row \in Screen!Rows /\ col \in Screen!Cols /\ text \in Cells /\ plane[row] \in Line
    BY DEF ScreenInv, Page
<1>3. D \in Line /\ \A d \in Screen!Cols, k \in 0..11 :
          Lit(D, d, k) <=> IF d = col THEN ~Lit(plane[row], d, k) ELSE Lit(plane[row], d, k)
    BY <1>1, <1>2, CharReversed
<1>4. Screen!Off = [plane EXCEPT ![row] = D]
    BY <1>1 DEF Screen!Off
<1>5. Screen!Off \in Page /\ \A r \in Screen!Rows : Screen!Off[r] = IF r = row THEN D ELSE plane[r]
    BY <1>2, <1>3, <1>4 DEF Page
<1> QED BY <1>2, <1>3, <1>5 DEF Clean, ScreenInv

\* every action turns the cursor on
LEMMA CursorOn ==
    ASSUME NEW p, NEW t, Clean(p, t), Screen!On(p), text' = t,
           col' \in Screen!Cols, row' \in Screen!Rows,
           escape' \in BOOLEAN, handler' \in {"escape", "escape_0"}, EscapeInv'
    PROVE  ScreenInv'
<1>1. PICK D, x, y : D = Screen!ReverseChar(p[row'], col') /\ x = col' /\ y = row'
    OBVIOUS
<1>2. p \in Page /\ t \in Cells /\ y \in Screen!Rows /\ x \in Screen!Cols /\ p[y] \in Line
    BY <1>1 DEF Clean, Page
<1>3. D \in Line /\ \A d \in Screen!Cols, k \in 0..11 :
          Lit(D, d, k) <=> IF d = x THEN ~Lit(p[y], d, k) ELSE Lit(p[y], d, k)
    BY <1>1, <1>2, CharReversed
<1>4. plane' = [p EXCEPT ![y] = D]
    BY <1>1 DEF Screen!On
<1>5. plane' \in Page /\ \A r \in Screen!Rows : plane'[r] = IF r = y THEN D ELSE p[r]
    BY <1>2, <1>3, <1>4 DEF Page
<1>6. ASSUME NEW r \in Screen!Rows, NEW c \in Screen!Cols, NEW k \in 0..11
      PROVE  Lit(plane'[r], c, k) <=> IF r = y /\ c = x THEN 15 - k \notin t[r][c] ELSE 15 - k \in t[r][c]
    BY <1>2, <1>3, <1>5 DEF Clean
<1> QED BY <1>1, <1>2, <1>5, <1>6 DEF ScreenInv, Lit, BitAt, WordAt

LEMMA DrawnIsClean ==
    ASSUME NEW p, NEW t, Clean(p, t), NEW r \in Screen!Rows, NEW c \in Screen!Cols, NEW f \in SUBSET (4..15)
    PROVE  Clean(Screen!Drawn(p, r, c, f), [t EXCEPT ![r][c] = f])
<1>1. PICK D, u : D = Screen!DrawChar(p[r], c, f) /\ u = [t EXCEPT ![r][c] = f]
    OBVIOUS
<1>2. p \in Page /\ t \in Cells /\ p[r] \in Line /\ t[r] \in [Screen!Cols -> SUBSET (4..15)]
    BY DEF Clean, Page, Cells
<1>3. D \in Line /\ \A d \in Screen!Cols, k \in 0..11 :
          Lit(D, d, k) <=> IF d = c THEN 15 - k \in f ELSE Lit(p[r], d, k)
    BY <1>1, <1>2, CharDrawn
<1>4. Screen!Drawn(p, r, c, f) = [p EXCEPT ![r] = D]
    BY <1>1 DEF Screen!Drawn
<1>5. PICK e : e = [p EXCEPT ![r] = D]
    OBVIOUS
<1>6. e \in Page /\ \A s \in Screen!Rows : e[s] = IF s = r THEN D ELSE p[s]
    BY <1>2, <1>3, <1>5 DEF Page
<1>7. u \in Cells /\ \A s \in Screen!Rows, d \in Screen!Cols : u[s][d] = IF s = r /\ d = c THEN f ELSE t[s][d]
    BY <1>1, <1>2 DEF Cells
<1>8. ASSUME NEW s \in Screen!Rows, NEW d \in Screen!Cols, NEW k \in 0..11
      PROVE  Lit(e[s], d, k) <=> 15 - k \in u[s][d]
    BY <1>3, <1>6, <1>7 DEF Clean
<1> QED BY <1>1, <1>4, <1>5, <1>6, <1>7, <1>8 DEF Clean

LEMMA ScrolledIsClean ==
    ASSUME NEW p, NEW t, Clean(p, t)
    PROVE  Clean(Screen!Scrolled(p, Screen!EmptyLine), Screen!Scrolled(t, [c \in Screen!Cols |-> Screen!Blank]))
<1>1. PICK e, u : /\ e = Screen!Scrolled(p, Screen!EmptyLine)
                  /\ u = Screen!Scrolled(t, [c \in Screen!Cols |-> Screen!Blank])
    OBVIOUS
<1>2. p \in Page /\ t \in Cells
    BY DEF Clean
<1>3. \A r \in Screen!Rows : r # Ymax - 1 => r + 1 \in Screen!Rows
    BY ScreenAssumption DEF Screen!Rows
<1>4. Screen!EmptyLine \in Line /\ \A c \in Screen!Cols, k \in 0..11 : ~Lit(Screen!EmptyLine, c, k)
    BY WordsOf DEF Screen!EmptyLine, Line, Lit
<1>5. e \in Page /\ \A r \in Screen!Rows : e[r] = IF r = Ymax - 1 THEN Screen!EmptyLine ELSE p[r + 1]
    BY <1>1, <1>2, <1>3, <1>4 DEF Screen!Scrolled, Page
<1>6. u \in Cells /\ \A r \in Screen!Rows, c \in Screen!Cols : u[r][c] = IF r = Ymax - 1 THEN {} ELSE t[r + 1][c]
    <2>1. PICK b : b = [c \in Screen!Cols |-> Screen!Blank]
        OBVIOUS
    <2>2. b \in [Screen!Cols -> SUBSET (4..15)] /\ \A c \in Screen!Cols : b[c] = {}
        BY <2>1 DEF Screen!Blank
    <2>3. u = [r \in Screen!Rows |-> IF r = Ymax - 1 THEN b ELSE t[r + 1]]
        BY <1>1, <2>1 DEF Screen!Scrolled
    <2> QED BY <1>2, <1>3, <2>2, <2>3 DEF Cells
<1>7. ASSUME NEW r \in Screen!Rows, NEW c \in Screen!Cols, NEW k \in 0..11
      PROVE  Lit(e[r], c, k) <=> 15 - k \in u[r][c]
    BY <1>3, <1>4, <1>5, <1>6 DEF Clean
<1> QED BY <1>1, <1>5, <1>6, <1>7 DEF Clean

LEMMA ScreenInit == Screen!Init => ScreenInv
<1> SUFFICES ASSUME Screen!Init PROVE ScreenInv
    OBVIOUS
<1>1. PICK D : D = Screen!ReverseChar(Screen!EmptyLine, Xmin)
    OBVIOUS
<1>2. Xmin \in Screen!Cols /\ Ymin \in Screen!Rows
    BY ScreenAssumption DEF Screen!Cols, Screen!Rows
<1>3. Screen!EmptyLine \in Line /\ \A c \in Screen!Cols, k \in 0..11 : ~Lit(Screen!EmptyLine, c, k)
    BY WordsOf DEF Screen!EmptyLine, Line, Lit
<1>4. D \in Line /\ \A d \in Screen!Cols, k \in 0..11 : Lit(D, d, k) <=> d = Xmin
    BY <1>1, <1>2, <1>3, CharReversed
<1>5. col = Xmin /\ row = Ymin /\ escape = FALSE /\ handler = "escape" /\ esc = 0
    BY DEF Screen!Init
<1>6. plane \in Page /\ \A r \in Screen!Rows : plane[r] = IF r = Ymin THEN D ELSE Screen!EmptyLine
    BY <1>1, <1>3, <1>4 DEF Screen!Init, Page
<1>7. text \in Cells /\ \A r \in Screen!Rows, c \in Screen!Cols : text[r][c] = {}
    BY DEF Screen!Init, Cells, Screen!Blank
<1> QED BY <1>2, <1>3, <1>4, <1>5, <1>6, <1>7 DEF ScreenInv, EscapeInv

\* The row below, or the same one on the screen scrolled by a row.
LEMMA LineFed ==
    ASSUME ScreenInv, NEW p, NEW t, Clean(p, t), Screen!LineFeed(p, t), col' \in Screen!Cols,
           UNCHANGED <<escape, handler, esc>>
    PROVE  ScreenInv'
<1>1. escape' \in BOOLEAN /\ handler' \in {"escape", "escape_0"} /\ EscapeInv'
    <2>1. escape' \in BOOLEAN
        BY DEF ScreenInv
    <2> QED BY <2>1 DEF ScreenInv, EscapeInv
<1>2. CASE row + 1 >= Ymax
    <2>1. Ymax - 1 \in Screen!Rows
        BY ScreenAssumption DEF Screen!Rows
    <2>2. PICK q, u : q = Screen!Scrolled(p, Screen!EmptyLine) /\ u = Screen!Scrolled(t, [c \in Screen!Cols |-> Screen!Blank])
        OBVIOUS
    <2>3. Clean(q, u)
        BY <2>2, ScrolledIsClean
    <2>4. row' = Ymax - 1 /\ Screen!On(q) /\ text' = u
        BY <1>2, <2>2 DEF Screen!LineFeed
    <2> QED BY <1>1, <2>1, <2>3, <2>4, CursorOn
<1>3. CASE ~(row + 1 >= Ymax)
    <2>1. row + 1 \in Screen!Rows
        BY <1>3, ScreenAssumption DEF Screen!Rows, ScreenInv
    <2>2. row' = row + 1 /\ Screen!On(p) /\ text' = t
        BY <1>3 DEF Screen!LineFeed
    <2> QED BY <1>1, <2>1, <2>2, CursorOn
<1> QED BY <1>2, <1>3

LEMMA PrintableStep == ScreenInv /\ Screen!PutPrintable => ScreenInv'
<1> SUFFICES ASSUME ScreenInv, Screen!PutPrintable PROVE ScreenInv'
    OBVIOUS
<1>1. PICK ch \in DOMAIN Font :
          LET p == Screen!Drawn(Screen!Off, row, col, Font[ch])
              t == [text EXCEPT ![row][col] = Font[ch]]
          IN  IF col + 1 >= Xmax
              THEN col' = Xmin /\ Screen!LineFeed(p, t)
              ELSE col' = col + 1 /\ row' = row /\ Screen!On(p) /\ text' = t
    BY DEF Screen!PutPrintable
<1>2. PICK p, t : p = Screen!Drawn(Screen!Off, row, col, Font[ch]) /\ t = [text EXCEPT ![row][col] = Font[ch]]
    OBVIOUS
<1>3. col \in Screen!Cols /\ row \in Screen!Rows /\ Font[ch] \in SUBSET (4..15)
    BY ScreenAssumption DEF ScreenInv
<1>4. Clean(p, t)
    BY <1>2, <1>3, OffIsClean, DrawnIsClean
<1>5. UNCHANGED <<escape, handler, esc>>
    BY DEF Screen!PutPrintable, Screen!escVars
<1>6. escape' \in BOOLEAN /\ handler' \in {"escape", "escape_0"} /\ EscapeInv'
    <2>1. escape' \in BOOLEAN
        BY <1>5 DEF ScreenInv
    <2> QED BY <1>5, <2>1 DEF ScreenInv, EscapeInv
<1>7. CASE col + 1 >= Xmax
    <2>1. col' = Xmin /\ Screen!LineFeed(p, t) /\ Xmin \in Screen!Cols
        BY <1>1, <1>2, <1>7, ScreenAssumption DEF Screen!Cols
    <2> QED BY <1>4, <1>5, <2>1, LineFed
<1>8. CASE ~(col + 1 >= Xmax)
    <2>1. col' = col + 1 /\ row' = row /\ Screen!On(p) /\ text' = t
        BY <1>1, <1>2, <1>8
    <2>2. col + 1 \in Screen!Cols
        BY <1>3, <1>8, ScreenAssumption DEF Screen!Cols
    <2> QED BY <1>3, <1>4, <1>6, <2>1, <2>2, CursorOn
<1> QED BY <1>7, <1>8

\* The cursor moves and nothing else.
LEMMA Moved ==
    ASSUME ScreenInv, Screen!On(Screen!Off), text' = text, col' \in Screen!Cols, row' \in Screen!Rows,
           escape' \in BOOLEAN, handler' \in {"escape", "escape_0"}, EscapeInv'
    PROVE  ScreenInv'
    BY OffIsClean, CursorOn

LEMMA MoveStep ==
    ASSUME ScreenInv, NEW c \in Screen!Cols, NEW r \in Screen!Rows, Screen!Move(c, r)
    PROVE  ScreenInv'
<1>1. UNCHANGED <<escape, handler, esc, text>> /\ col' = c /\ row' = r /\ Screen!On(Screen!Off)
    BY DEF Screen!Move, Screen!escVars
<1>2. escape' \in BOOLEAN
    BY <1>1 DEF ScreenInv
<1>3. handler' \in {"escape", "escape_0"} /\ EscapeInv'
    BY <1>1 DEF ScreenInv, EscapeInv
<1> QED BY <1>1, <1>2, <1>3, Moved

LEMMA DeleteStep == ScreenInv /\ Screen!Delete => ScreenInv'
<1> SUFFICES ASSUME ScreenInv, Screen!Delete PROVE ScreenInv'
    OBVIOUS
<1>1. col - 1 \in Screen!Cols /\ row \in Screen!Rows
    BY ScreenAssumption DEF ScreenInv, Screen!Delete, Screen!Cols
<1>2. PICK p, t : p = Screen!Drawn(Screen!Off, row, col - 1, {}) /\ t = [text EXCEPT ![row][col - 1] = {}]
    OBVIOUS
<1>3. Clean(p, t)
    <2>1. {} \in SUBSET (4..15)
        OBVIOUS
    <2> QED BY <1>1, <1>2, <2>1, OffIsClean, DrawnIsClean
<1>4. col' = col - 1 /\ row' = row /\ Screen!On(p) /\ text' = t /\ UNCHANGED <<escape, handler, esc>>
    BY <1>2 DEF Screen!Delete, Screen!Blank, Screen!escVars
<1>5. escape' \in BOOLEAN
    BY <1>4 DEF ScreenInv
<1>6. handler' \in {"escape", "escape_0"} /\ EscapeInv'
    BY <1>4 DEF ScreenInv, EscapeInv
<1> QED BY <1>1, <1>3, <1>4, <1>5, <1>6, CursorOn

LEMMA EscapeSteps ==
    ASSUME ScreenInv, Screen!Escape \/ Screen!EscBracket \/ Screen!EscOther \/ Screen!EscMove
    PROVE  ScreenInv'
<1>1. Screen!On(Screen!Off) /\ text' = text
    BY DEF Screen!Escape, Screen!EscBracket, Screen!EscOther, Screen!EscMove
<1>2. escape' \in BOOLEAN
    BY DEF ScreenInv, Screen!Escape, Screen!EscBracket, Screen!EscOther, Screen!EscMove, Screen!EndEscape
<1>3. handler' \in {"escape", "escape_0"} /\ EscapeInv'
    <2>1. CASE Screen!Escape
        BY <2>1 DEF ScreenInv, EscapeInv, Screen!Escape
    <2>2. CASE Screen!EscBracket
        BY <2>2 DEF ScreenInv, EscapeInv, Screen!EscBracket
    <2>3. CASE Screen!EscOther \/ Screen!EscMove
        BY <2>3 DEF EscapeInv, Screen!EscOther, Screen!EscMove, Screen!EndEscape
    <2> QED BY <2>1, <2>2, <2>3
<1>4. col' \in Screen!Cols /\ row' \in Screen!Rows
    <2>1. col \in Screen!Cols /\ row \in Screen!Rows
        BY DEF ScreenInv
    <2>2. CASE Screen!EscMove
        BY <2>1, <2>2, ScreenAssumption DEF Screen!EscMove, Screen!Cols, Screen!Rows
    <2>3. CASE ~Screen!EscMove
        BY <2>1, <2>3 DEF Screen!Escape, Screen!EscBracket, Screen!EscOther, Screen!cursorVars
    <2> QED BY <2>2, <2>3
<1> QED BY <1>1, <1>2, <1>3, <1>4, Moved

(***************************************************************************)
(* The line is erased cell by cell.  That the recursive function exists,   *)
(* and what it returns, are proved for the least column where they fail.   *)
(***************************************************************************)
Erases(e, line, n) ==
    e = [c \in col..n |-> IF c = col THEN line ELSE Screen!DrawChar(e[c - 1], c - 1, Screen!Blank)]

LEMMA LeastColumn ==
    ASSUME NEW S \in SUBSET Nat, S # {}
    PROVE  \E n \in S : \A m \in S : n <= m
<1> DEFINE R == OpToRel(<, Nat)
<1>1. \E n \in S : \A m \in S : ~(<<m, n>> \in R)
    BY NatLessThanWellFounded, WFMin
<1>2. \A n, m \in Nat : m < n => <<m, n>> \in R
    BY DEF OpToRel
<1> HIDE DEF R
<1>3. PICK n \in S : \A m \in S : ~(<<m, n>> \in R)
    BY <1>1
<1>4. \A m \in S : ~(m < n)
    BY <1>2, <1>3
<1> QED BY <1>3, <1>4

LEMMA EraseExists ==
    ASSUME col \in Screen!Cols, NEW line
    PROVE  \E e : Erases(e, line, Xmax)
<1> DEFINE Bad == {n \in col..Xmax : \A e : ~Erases(e, line, n)}
<1>1. col \in Nat /\ Xmax \in Nat /\ col < Xmax
    BY ScreenAssumption DEF Screen!Cols
<1>2. Bad = {}
    <2> SUFFICES ASSUME Bad # {} PROVE FALSE
        OBVIOUS
    <2>0. Bad \in SUBSET Nat
        BY <1>1
    <2>1. PICK n \in Bad : \A m \in Bad : n <= m
        <3> HIDE DEF Bad
        <3> QED BY <2>0, LeastColumn
    <2>2. CASE n = col
        <3>1. Erases([c \in col..col |-> line], line, col)
            BY <1>1 DEF Erases
        <3> QED BY <2>1, <2>2, <3>1
    <2>3. CASE n # col
        <3>1. n \in Nat /\ n - 1 \in col..Xmax /\ n - 1 \notin Bad
            BY <1>1, <2>1, <2>3
        <3>2. PICK e : Erases(e, line, n - 1)
            BY <3>1
        <3>3. PICK h : h = [c \in col..n |-> IF c = n THEN Screen!DrawChar(e[n - 1], n - 1, Screen!Blank) ELSE e[c]]
            OBVIOUS
        <3>4. ASSUME NEW c \in col..n
              PROVE  h[c] = IF c = col THEN line ELSE Screen!DrawChar(h[c - 1], c - 1, Screen!Blank)
            <4>1. CASE c = n
                <5>1. n - 1 \in col..n /\ n - 1 # n
                    BY <1>1, <3>1
                <5>2. h[n - 1] = e[n - 1] /\ h[n] = Screen!DrawChar(e[n - 1], n - 1, Screen!Blank)
                    BY <3>3, <4>1, <5>1
                <5> QED BY <2>3, <4>1, <5>2
            <4>2. CASE c # n /\ c = col
                <5>1. c \in col..(n - 1)
                    BY <1>1, <3>1, <4>2
                <5>2. h[c] = e[c] /\ e[c] = line
                    BY <3>2, <3>3, <4>2, <5>1 DEF Erases
                <5> QED BY <4>2, <5>2
            <4>3. CASE c # n /\ c # col
                <5>1. c \in col..(n - 1) /\ c - 1 \in col..n /\ c - 1 # n
                    BY <1>1, <3>1, <4>3
                <5>2. h[c] = e[c] /\ h[c - 1] = e[c - 1] /\ e[c] = Screen!DrawChar(e[c - 1], c - 1, Screen!Blank)
                    BY <3>2, <3>3, <4>3, <5>1 DEF Erases
                <5> QED BY <4>3, <5>2
            <4> QED BY <4>1, <4>2, <4>3
        <3>5. h = [c \in col..n |-> h[c]]
            BY <3>3
        <3>6. Erases(h, line, n)
            BY <3>4, <3>5 DEF Erases
        <3> QED BY <2>1, <3>6
    <2> QED BY <2>2, <2>3
<1>3. Xmax \in col..Xmax
    BY <1>1
<1> QED BY <1>2, <1>3

LEMMA LineErased ==
    ASSUME col \in Screen!Cols, NEW line \in Line
    PROVE  /\ Screen!ErasedFrom(line) \in Line
           /\ \A d \in Screen!Cols, k \in 0..11 :
                 Lit(Screen!ErasedFrom(line), d, k) <=> d < col /\ Lit(line, d, k)
<1>1. PICK e : Erases(e, line, Xmax) /\ Screen!ErasedFrom(line) = e[Xmax]
    <2>1. \E e : e = [c \in col..Xmax |-> IF c = col THEN line ELSE Screen!DrawChar(e[c - 1], c - 1, Screen!Blank)]
        BY EraseExists DEF Erases
    <2> DEFINE f == CHOOSE e : e = [c \in col..Xmax |-> IF c = col THEN line
                                                        ELSE Screen!DrawChar(e[c - 1], c - 1, Screen!Blank)]
    <2>2. f = [c \in col..Xmax |-> IF c = col THEN line ELSE Screen!DrawChar(f[c - 1], c - 1, Screen!Blank)]
        BY <2>1
    <2>3. Screen!ErasedFrom(line) = f[Xmax]
        BY DEF Screen!ErasedFrom
    <2> QED BY <2>2, <2>3 DEF Erases
<1> DEFINE Good(n) == /\ e[n] \in Line
                      /\ \A d \in Screen!Cols, k \in 0..11 :
                            Lit(e[n], d, k) <=> (d < col \/ d >= n) /\ Lit(line, d, k)
           Bad == {n \in col..Xmax : ~Good(n)}
<1>2. col \in Nat /\ Xmax \in Nat /\ Xmin \in Nat /\ Xmin <= col /\ col < Xmax
    BY ScreenAssumption DEF Screen!Cols
<1>3. Bad = {}
    <2> SUFFICES ASSUME Bad # {} PROVE FALSE
        OBVIOUS
    <2>0. Bad \in SUBSET Nat
        BY <1>2
    <2>1. PICK n \in Bad : \A m \in Bad : n <= m
        <3> HIDE DEF Bad
        <3> QED BY <2>0, LeastColumn
    <2>2. CASE n = col
        <3>1. e[n] = line
            BY <1>1, <1>2, <2>1, <2>2 DEF Erases
        <3>2. \A d \in Screen!Cols : d < col \/ d >= n
            BY <1>2, <2>2 DEF Screen!Cols
        <3> QED BY <2>1, <3>1, <3>2
    <2>3. CASE n # col
        <3>1. n \in Nat /\ n - 1 \in Screen!Cols /\ n \in col..Xmax /\ n - 1 \in col..Xmax /\ n - 1 \notin Bad
            BY <1>2, <2>1, <2>3 DEF Screen!Cols
        <3>2. Good(n - 1)
            BY <3>1
        <3>3. e[n] = Screen!DrawChar(e[n - 1], n - 1, {})
            BY <1>1, <2>3, <3>1 DEF Erases, Screen!Blank
        <3>4. PICK D : D = e[n - 1]
            OBVIOUS
        <3>5. D \in Line /\ {} \in SUBSET (4..15)
            BY <3>2, <3>4
        <3>6. e[n] \in Line /\ \A d \in Screen!Cols, k \in 0..11 :
                  Lit(e[n], d, k) <=> IF d = n - 1 THEN 15 - k \in {} ELSE Lit(D, d, k)
            BY <3>1, <3>3, <3>4, <3>5, CharDrawn
        <3>7. ASSUME NEW d \in Screen!Cols, NEW k \in 0..11
              PROVE  Lit(e[n], d, k) <=> (d < col \/ d >= n) /\ Lit(line, d, k)
            <4>1. Lit(D, d, k) <=> (d < col \/ d >= n - 1) /\ Lit(line, d, k)
                BY <3>2, <3>4
            <4>2. d \in Nat /\ (d # n - 1 => (d >= n <=> d >= n - 1)) /\ (d = n - 1 => ~(d < col \/ d >= n))
                BY <1>2, <3>1, ColNat
            <4> QED BY <3>6, <4>1, <4>2
        <3>8. Good(n)
            BY <3>6, <3>7
        <3> QED BY <2>1, <3>8
    <2> QED BY <2>2, <2>3
<1>4. Good(Xmax)
    <2>1. Xmax \in col..Xmax
        BY <1>2
    <2> QED BY <1>3, <2>1
<1>5. \A d \in Screen!Cols : ~(d >= Xmax)
    BY <1>2 DEF Screen!Cols
<1> QED BY <1>1, <1>4, <1>5

LEMMA EraseStep == ScreenInv /\ Screen!EscErase => ScreenInv'
<1> SUFFICES ASSUME ScreenInv, Screen!EscErase PROVE ScreenInv'
    OBVIOUS
<1>1. PICK q, D : q = Screen!Off /\ D = Screen!ErasedFrom(q[row])
    OBVIOUS
<1>2. /\ col \in Screen!Cols /\ row \in Screen!Rows /\ Clean(q, text) /\ q \in Page /\ text \in Cells /\ q[row] \in Line
    BY <1>1, OffIsClean DEF ScreenInv, Clean, Page
<1>3. D \in Line /\ \A d \in Screen!Cols, k \in 0..11 : Lit(D, d, k) <=> d < col /\ Lit(q[row], d, k)
    BY <1>1, <1>2, LineErased
<1>4. PICK p, t : /\ p = [q EXCEPT ![row] = D]
                  /\ t = [text EXCEPT ![row] = [c \in Screen!Cols |-> IF c < col THEN text[row][c] ELSE {}]]
    OBVIOUS
<1>5. p \in Page /\ \A r \in Screen!Rows : p[r] = IF r = row THEN D ELSE q[r]
    BY <1>2, <1>3, <1>4 DEF Page
<1>6. t \in Cells /\ \A r \in Screen!Rows, c \in Screen!Cols :
                         t[r][c] = IF r = row /\ ~(c < col) THEN {} ELSE text[r][c]
    <2>1. PICK l : l = [c \in Screen!Cols |-> IF c < col THEN text[row][c] ELSE {}]
        OBVIOUS
    <2>2. text[row] \in [Screen!Cols -> SUBSET (4..15)]
        BY <1>2 DEF Cells
    <2>3. l \in [Screen!Cols -> SUBSET (4..15)] /\ \A c \in Screen!Cols : l[c] = IF c < col THEN text[row][c] ELSE {}
        BY <2>1, <2>2
    <2>4. t = [text EXCEPT ![row] = l]
        BY <1>4, <2>1
    <2> QED BY <1>2, <2>3, <2>4 DEF Cells
<1>7. Clean(p, t)
    <2>1. ASSUME NEW r \in Screen!Rows, NEW c \in Screen!Cols, NEW k \in 0..11
          PROVE  Lit(p[r], c, k) <=> 15 - k \in t[r][c]
        BY <1>2, <1>3, <1>5, <1>6 DEF Clean
    <2> QED BY <1>5, <1>6, <2>1 DEF Clean
<1>8. /\ Screen!On(p) /\ text' = t /\ UNCHANGED <<col, row>>
      /\ escape' = FALSE /\ esc' = 0 /\ handler' = "escape"
    BY <1>1, <1>4 DEF Screen!EscErase, Screen!EndEscape, Screen!cursorVars, Screen!Blank
<1>9. EscapeInv'
    BY <1>8 DEF EscapeInv
<1> QED BY <1>2, <1>7, <1>8, <1>9, CursorOn

LEMMA ScreenStep == ScreenInv /\ [Screen!Next]_screenVars => ScreenInv'
<1> SUFFICES ASSUME ScreenInv, [Screen!Next]_screenVars PROVE ScreenInv'
    OBVIOUS
<1>0. col \in Screen!Cols /\ row \in Screen!Rows
    BY DEF ScreenInv
<1>1. CASE Screen!Backspace
    <2>1. (IF col > Xmin THEN col - 1 ELSE col) \in Screen!Cols
        BY <1>0, ScreenAssumption DEF Screen!Cols
    <2> QED BY <1>0, <1>1, <2>1, MoveStep DEF Screen!Backspace
<1>2. CASE Screen!Return
    <2>1. Xmin \in Screen!Cols
        BY ScreenAssumption DEF Screen!Cols
    <2> QED BY <1>0, <1>2, <2>1, MoveStep DEF Screen!Return
<1>3. CASE Screen!Tabulate
    <2>1. PICK c : c = (LET i == ((col \div Screen!Tab) + 1) * Screen!Tab IN IF i < Xmax THEN i ELSE col)
        OBVIOUS
    <2>2. c \in Screen!Cols
        <3>1. PICK x, i : x = col \div 8 /\ i = (x + 1) * 8
            OBVIOUS
        <3>2. col \in Nat /\ x \in Nat /\ col < 8 * x + 8
            <4>1. col \in Nat
                BY <1>0, ColNat
            <4>2. x \in Nat
                BY <3>1, <4>1, SMTT(30)
            <4> QED BY <3>1, <4>1, <4>2, SMTT(30)
        <3>3. i \in Nat /\ i > col
            BY <3>1, <3>2
        <3>4. c = IF i < Xmax THEN i ELSE col
            BY <2>1, <3>1 DEF Screen!Tab
        <3> QED BY <1>0, <3>2, <3>3, <3>4, ScreenAssumption DEF Screen!Cols
    <2>3. Screen!Move(c, row)
        BY <1>3, <2>1 DEF Screen!Tabulate
    <2> QED BY <1>0, <2>2, <2>3, MoveStep
<1>4. CASE Screen!Newline
    BY <1>0, <1>4, OffIsClean, LineFed DEF Screen!Newline, Screen!escVars
<1>5. CASE UNCHANGED screenVars
    <2>1. escape' \in BOOLEAN
        BY <1>5 DEF screenVars, ScreenInv
    <2>2. UNCHANGED <<col, row, escape, handler, esc, plane, text>>
        BY <1>5 DEF screenVars
    <2> QED BY <2>1, <2>2 DEF ScreenInv, EscapeInv, Lit, BitAt, WordAt
<1> QED BY <1>1, <1>2, <1>3, <1>4, <1>5, PrintableStep, DeleteStep, EscapeSteps, EraseStep
        DEF Screen!Next, Screen!Bmdputc

-----------------------------------------------------------------------------
(* The console: BootConsole                                                *)

\* how many characters the console's receive buffer holds, and where the i-th is
Holds == IF pop[console] >= push[console] THEN pop[console] - push[console]
                                          ELSE pop[console] - push[console] + RbufSize
Place(i) == IF pop[console] >= i THEN pop[console] - i ELSE pop[console] - i + RbufSize

Entry == [sio |-> [data : Console!Chars, framing : BOOLEAN], kbd |-> [data : Console!Codes, framing : {FALSE}]]

\* What the chip may hold: only breaks come down the line that is not the console's.
FifoOK ==
    /\ fifo = [u \in Console!Unit |-> fifo[u]]
    /\ \A u \in Console!Unit : fifo[u] \in Seq(Entry[u])
    /\ console = "kbd" => \A i \in 1..Len(fifo["sio"]) : fifo["sio"][i].framing
    /\ console = "sio" => fifo["kbd"] = <<>>

Flags == {"shift", "ctrl", "meta"}
FlagOf(key) == IF key = "rshift" THEN "shift" ELSE key

\* what an entry will mean when it is decoded with the flags f, and the flags it leaves
Means(c, f) ==
    IF c.framing THEN Console!Nothing
    ELSE IF console = "sio" THEN c.data
    ELSE IF c.data.key = "a" /\ ~c.data.up THEN Console!Char("shift" \in f, "ctrl" \in f, "meta" \in f)
    ELSE Console!Nothing
Goes(c, f) ==
    IF console = "sio" \/ c.data.key = "a" THEN f
    ELSE IF c.data.up THEN f \ {FlagOf(c.data.key)} ELSE f \cup {FlagOf(c.data.key)}

(***************************************************************************)
(* The console's characters that are not returned yet: those of the        *)
(* buffer, then those that the chip's entries will mean.  After i of the   *)
(* entries cnt[i] characters have been decoded and the flags are on[i]; in *)
(* the end they are those of the keys that are held.                       *)
(***************************************************************************)
Stream(cnt, on) ==
    LET L == fifo[console]
    IN  /\ cnt \in [0..Len(L) -> Nat] /\ on \in [0..Len(L) -> SUBSET Flags]
        /\ cnt[0] = Holds /\ cnt[Len(L)] = Len(unread)
        /\ \A i, j \in 0..Len(L) : i <= j => cnt[i] <= cnt[j]
        /\ \A i \in 1..Holds : unread[i] = rbuf[console][Place(i)]
        /\ \A i \in 1..Len(L) :
              /\ on[i] = Goes(L[i], on[i - 1])
              /\ Means(L[i], on[i - 1]) = Console!Nothing => cnt[i] = cnt[i - 1]
              /\ Means(L[i], on[i - 1]) # Console!Nothing =>
                    cnt[i] = cnt[i - 1] + 1 /\ unread[cnt[i]] = Means(L[i], on[i - 1])
        /\ (shift <=> "shift" \in on[0]) /\ (ctrl <=> "ctrl" \in on[0]) /\ (meta <=> "meta" \in on[0])
        /\ Console!Shifted <=> "shift" \in on[Len(L)]
        /\ "ctrl" \in held <=> "ctrl" \in on[Len(L)]
        /\ "meta" \in held <=> "meta" \in on[Len(L)]

ConsoleInv ==
    /\ Console!TypeOK /\ FifoOK /\ Len(unread) <= Ahead
    /\ ~lost => \E cnt, on : Stream(cnt, on)

LEMMA ConsoleInit == Console!Init => ConsoleInv
<1> SUFFICES ASSUME Console!Init PROVE ConsoleInv
    OBVIOUS
<1> USE DEF Console!Init, Console!Cninit, Console!Unit
<1>1. fifo["sio"] = <<>> /\ fifo["kbd"] = <<>> /\ unread = <<>> /\ console \in {"sio", "kbd"}
    OBVIOUS
<1>2. Console!TypeOK
    <2>1. shift \in BOOLEAN /\ ctrl \in BOOLEAN /\ meta \in BOOLEAN /\ lost \in BOOLEAN
        OBVIOUS
    <2>2. push \in [Console!Unit -> 1..RbufSize] /\ pop \in [Console!Unit -> 1..RbufSize]
        BY ConsoleAssumption
    <2>3. rbuf \in [Console!Unit -> [0..RbufSize -> Console!Chars]]
        BY DEF Console!Chars
    <2>4. \A u \in Console!Unit : Len(fifo[u]) <= SioFifo
        BY ConsoleAssumption
    <2>5. held \subseteq Modifiers /\ unread \in Seq(Console!Chars) /\ getc = "idle"
        OBVIOUS
    <2> QED BY <2>1, <2>2, <2>3, <2>4, <2>5 DEF Console!TypeOK
<1>3. FifoOK
    <2>1. \A u \in Console!Unit : fifo[u] = <<>> /\ fifo[u] \in Seq(Entry[u])
        OBVIOUS
    <2>2. fifo = [u \in Console!Unit |-> fifo[u]]
        OBVIOUS
    <2> QED BY <2>1, <2>2 DEF FifoOK
<1>4. Stream([i \in 0..0 |-> 0], [i \in 0..0 |-> {}])
    <2>1. Holds = 0 /\ Len(fifo[console]) = 0 /\ Len(unread) = 0
        BY ConsoleAssumption DEF Holds
    <2>2. ~shift /\ ~ctrl /\ ~meta /\ ~Console!Shifted /\ held = {}
        BY DEF Console!Shifted
    <2> QED BY <2>1, <2>2 DEF Stream
<1> QED BY <1>1, <1>2, <1>3, <1>4, ConsoleAssumption DEF ConsoleInv

HeldAre(f) == (Console!Shifted <=> "shift" \in f) /\ ("ctrl" \in held <=> "ctrl" \in f) /\ ("meta" \in held <=> "meta" \in f)

LEMMA ConsoleFacts ==
    ASSUME ConsoleInv
    PROVE  /\ Console!Unit = {"sio", "kbd"} /\ console \in Console!Unit
           /\ push[console] \in 1..RbufSize /\ pop[console] \in 1..RbufSize
           /\ fifo[console] \in Seq(Entry[console]) /\ Len(fifo[console]) \in Nat
           /\ unread \in Seq(Console!Chars) /\ Len(unread) \in Nat
           /\ RbufSize \in Nat /\ Ahead \in Nat /\ Ahead < RbufSize /\ Len(unread) <= Ahead
           /\ Holds \in 0..(RbufSize - 1) /\ (Holds = 0 <=> push[console] = pop[console])
           /\ "nothing" \notin Console!Chars
<1>1. Console!Unit = {"sio", "kbd"} /\ console \in Console!Unit
    BY DEF ConsoleInv, Console!TypeOK, Console!Unit
<1>2. push[console] \in 1..RbufSize /\ pop[console] \in 1..RbufSize
    BY <1>1 DEF ConsoleInv, Console!TypeOK
<1>3. fifo[console] \in Seq(Entry[console]) /\ Len(fifo[console]) \in Nat
    BY <1>1 DEF ConsoleInv, FifoOK
<1>4. unread \in Seq(Console!Chars) /\ Len(unread) \in Nat
    BY DEF ConsoleInv, Console!TypeOK
<1>5. Holds \in 0..(RbufSize - 1) /\ (Holds = 0 <=> push[console] = pop[console])
    BY <1>2, ConsoleAssumption DEF Holds
<1>6. "nothing" \notin Console!Chars
    BY DEF Console!Chars
<1> QED BY <1>1, <1>2, <1>3, <1>4, <1>5, <1>6, ConsoleAssumption DEF ConsoleInv

\* Nothing but the flags and the entries decide what is decoded.
LEMMA SameStream ==
    ASSUME ConsoleInv, NEW cnt, NEW on, Stream(cnt, on), HeldAre(on[Len(fifo[console])])',
           UNCHANGED <<console, push, pop, rbuf, shift, ctrl, meta, unread>>, fifo'[console] = fifo[console]
    PROVE  Stream(cnt, on)'
<1>1. Holds' = Holds /\ \A i : Place(i)' = Place(i)
    BY DEF Holds, Place
<1>2. \A x, f : Means(x, f)' = Means(x, f) /\ Goes(x, f)' = Goes(x, f)
    BY DEF Means, Goes
<1>3. PICK L : L = fifo[console] /\ L = fifo'[console']
    OBVIOUS
<1> QED BY <1>1, <1>2, <1>3 DEF Stream, HeldAre

LEMMA AppendedTo ==
    ASSUME NEW S, NEW L \in Seq(S), NEW c \in S
    PROVE  /\ Append(L, c) \in Seq(S) /\ Len(Append(L, c)) = Len(L) + 1
           /\ \A i \in 1..Len(L) : Append(L, c)[i] = L[i]
           /\ Append(L, c)[Len(L) + 1] = c
    OBVIOUS

LEMMA Appended ==
    ASSUME ConsoleInv, NEW cnt, NEW on, Stream(cnt, on),
           UNCHANGED <<console, push, pop, rbuf, shift, ctrl, meta>>,
           NEW c \in Entry[console], NEW ch \in Console!Chars \cup {Console!Nothing}, NEW g \in SUBSET Flags,
           fifo'[console] = Append(fifo[console], c),
           unread' = IF ch # Console!Nothing THEN Append(unread, ch) ELSE unread,
           Means(c, on[Len(fifo[console])]) = ch, Goes(c, on[Len(fifo[console])]) = g, HeldAre(g)'
    PROVE  \E cnt1, on1 : Stream(cnt1, on1)'
<1>0. PICK L, n : L = fifo[console] /\ n = Len(L)
    OBVIOUS
<1> DEFINE more == IF ch = Console!Nothing THEN 0 ELSE 1
           cnt1 == [i \in 0..(n + 1) |-> IF i <= n THEN cnt[i] ELSE cnt[n] + more]
           on1  == [i \in 0..(n + 1) |-> IF i <= n THEN on[i] ELSE g]
<1>1. /\ L \in Seq(Entry[console]) /\ n \in Nat /\ Holds \in Nat
      /\ unread \in Seq(Console!Chars) /\ Len(unread) \in Nat
    BY <1>0, ConsoleFacts
<1>2. /\ cnt \in [0..n -> Nat] /\ on \in [0..n -> SUBSET Flags]
      /\ cnt[0] = Holds /\ cnt[n] = Len(unread)
      /\ \A i, j \in 0..n : i <= j => cnt[i] <= cnt[j]
    BY <1>0 DEF Stream
<1>3. PICK M : M = fifo'[console']
    OBVIOUS
<1>13. Len(M) = n + 1 /\ (\A i \in 1..n : M[i] = L[i]) /\ M[n + 1] = c
    <2>1. M = Append(L, c)
        BY <1>0, <1>3
    <2> QED BY <1>0, <1>1, <2>1, AppendedTo
<1>4. Len(unread') = cnt[n] + more /\ (\A i \in 1..Len(unread) : unread'[i] = unread[i])
    <2>1. CASE ch = Console!Nothing
        BY <1>1, <1>2, <2>1
    <2>2. CASE ch # Console!Nothing
        BY <1>1, <1>2, <2>2, AppendedTo
    <2> QED BY <2>1, <2>2
<1>5. ch # Console!Nothing => unread'[cnt[n] + 1] = ch
    BY <1>1, <1>2, AppendedTo
<1>6. cnt1 \in [0..(n + 1) -> Nat] /\ on1 \in [0..(n + 1) -> SUBSET Flags]
    BY <1>1, <1>2
<1>7. /\ cnt1[0] = cnt[0] /\ on1[0] = on[0] /\ cnt1[n + 1] = cnt[n] + more /\ on1[n + 1] = g
      /\ \A i \in 0..n : cnt1[i] = cnt[i] /\ on1[i] = on[i]
    BY <1>1
<1>8. ASSUME NEW i \in 0..(n + 1), NEW j \in 0..(n + 1), i <= j PROVE cnt1[i] <= cnt1[j]
    <2>1. CASE j = n + 1 /\ i # n + 1
        <3>1. i \in 0..n /\ n \in 0..n /\ i <= n
            BY <1>1, <2>1
        <3>2. cnt[i] <= cnt[n] /\ cnt[i] \in Nat /\ cnt[n] \in Nat
            BY <1>2, <3>1
        <3> QED BY <1>1, <2>1, <3>1, <3>2
    <2>2. CASE i \in 0..n /\ j \in 0..n
        <3>1. cnt1[i] = cnt[i] /\ cnt1[j] = cnt[j] /\ cnt[i] <= cnt[j]
            BY <1>2, <1>7, <1>8, <2>2
        <3> QED BY <3>1
    <2>3. CASE i = n + 1 /\ j = n + 1
        <3>1. cnt1[i] \in Nat
            BY <1>6, <1>8
        <3> QED BY <2>3, <3>1
    <2>4. (j = n + 1 /\ i # n + 1) \/ (i \in 0..n /\ j \in 0..n) \/ (i = n + 1 /\ j = n + 1)
        BY <1>1, <1>8
    <2> QED BY <2>1, <2>2, <2>3, <2>4
<1> HIDE DEF cnt1, on1, more
<1>9. Holds' = Holds /\ \A i \in 1..Holds : unread'[i] = rbuf'[console'][Place(i)']
    <2>1. Holds' = Holds /\ \A i \in 1..Holds : Place(i)' = Place(i)
        BY DEF Holds, Place
    <2>2. \A i \in 1..Holds : i \in 1..Len(unread) /\ unread[i] = rbuf[console][Place(i)]
        BY <1>1, <1>2 DEF Stream
    <2> QED BY <1>4, <2>1, <2>2
<1>10. \A x, f : Means(x, f)' = Means(x, f) /\ Goes(x, f)' = Goes(x, f)
    BY DEF Means, Goes
<1>11. ASSUME NEW i \in 1..(n + 1)
       PROVE  /\ on1[i] = Goes(M[i], on1[i - 1])
              /\ Means(M[i], on1[i - 1]) = Console!Nothing => cnt1[i] = cnt1[i - 1]
              /\ Means(M[i], on1[i - 1]) # Console!Nothing =>
                    cnt1[i] = cnt1[i - 1] + 1 /\ unread'[cnt1[i]] = Means(M[i], on1[i - 1])
    <2>1. CASE i = n + 1
        <3>1. i - 1 = n
            BY <1>1, <2>1
        <3>2. M[i] = c /\ on1[i - 1] = on[n] /\ cnt1[i - 1] = cnt[n] /\ on1[i] = g /\ cnt1[i] = cnt[n] + more
            BY <1>1, <1>13, <1>7, <2>1, <3>1
        <3>3. Goes(M[i], on1[i - 1]) = g /\ Means(M[i], on1[i - 1]) = ch
            BY <1>0, <3>2
        <3>4. cnt[n] \in Nat
            BY <1>1, <1>2
        <3>5. CASE ch = Console!Nothing
            BY <3>2, <3>3, <3>4, <3>5 DEF more
        <3>6. CASE ch # Console!Nothing
            BY <1>5, <3>2, <3>3, <3>4, <3>6 DEF more
        <3> QED BY <3>5, <3>6
    <2>2. CASE i # n + 1
        <3>1. i \in 1..n /\ i \in 0..n /\ i - 1 \in 0..n
            BY <1>1, <2>2
        <3>2. M[i] = L[i] /\ on1[i - 1] = on[i - 1] /\ on1[i] = on[i] /\ cnt1[i - 1] = cnt[i - 1] /\ cnt1[i] = cnt[i]
            BY <1>13, <1>7, <3>1
        <3>3. cnt[i] \in Nat /\ cnt[i - 1] \in Nat /\ cnt[i] <= Len(unread)
            <4>1. n \in 0..n /\ i <= n
                BY <1>1, <3>1
            <4> QED BY <1>2, <3>1, <4>1
        <3>4. /\ on[i] = Goes(L[i], on[i - 1])
              /\ Means(L[i], on[i - 1]) = Console!Nothing => cnt[i] = cnt[i - 1]
              /\ Means(L[i], on[i - 1]) # Console!Nothing =>
                    cnt[i] = cnt[i - 1] + 1 /\ unread[cnt[i]] = Means(L[i], on[i - 1])
            BY <1>0, <3>1 DEF Stream
        <3>5. Means(L[i], on[i - 1]) # Console!Nothing => cnt[i] \in 1..Len(unread)
            BY <3>3, <3>4
        <3> QED BY <1>4, <3>2, <3>4, <3>5
    <2> QED BY <2>1, <2>2
<1>12. PICK c1, o1 : c1 = cnt1 /\ o1 = on1
    OBVIOUS
<1>14. Stream(c1, o1)'
    <2>1. (shift' <=> "shift" \in on1[0]) /\ (ctrl' <=> "ctrl" \in on1[0]) /\ (meta' <=> "meta" \in on1[0])
        BY <1>7 DEF Stream
    <2>2. HeldAre(o1[n + 1])'
        BY <1>7, <1>12
    <2> QED BY <1>2, <1>3, <1>4, <1>6, <1>7, <1>8, <1>9, <1>10, <1>11, <1>12, <1>13, <2>1, <2>2 DEF Stream, HeldAre
<1> QED BY <1>14

LEMMA TailOf ==
    ASSUME NEW S, NEW L \in Seq(S), L # <<>>
    PROVE  /\ Len(L) \in Nat \ {0} /\ Tail(L) \in Seq(S) /\ Len(Tail(L)) = Len(L) - 1
           /\ \A i \in 1..(Len(L) - 1) : Tail(L)[i] = L[i + 1]
           /\ Head(L) = L[1] /\ L[1] \in S
    OBVIOUS

\* PUSH_RBUF writes where the buffer's next character is read, and nowhere else that is read.
LEMMA Pushed ==
    ASSUME ConsoleInv, NEW h, h = Holds, h + 1 < RbufSize,
           NEW c, Console!PushRbuf(console, c), UNCHANGED <<console, pop>>
    PROVE  /\ Holds' = h + 1
           /\ \A i \in 1..h : Place(i)' = Place(i) /\ rbuf'[console][Place(i)] = rbuf[console][Place(i)]
           /\ rbuf'[console][Place(h + 1)'] = c
<1>1. PICK a, b, r : a = push[console] /\ b = pop[console] /\ r = RbufSize
    OBVIOUS
<1>2. a \in 1..r /\ b \in 1..r /\ r \in Nat /\ h \in 0..(r - 1)
    BY <1>1, ConsoleFacts
<1>3. push'[console] = IF a - 1 = 0 THEN r ELSE a - 1
    <2>1. push \in [Console!Unit -> 1..RbufSize] /\ console \in Console!Unit
        BY ConsoleFacts DEF ConsoleInv, Console!TypeOK
    <2> QED BY <1>1, <2>1 DEF Console!PushRbuf, Console!Before
<1>4. h = IF b >= a THEN b - a ELSE b - a + r
    BY <1>1 DEF Holds
<1>5. Holds' = IF b >= push'[console] THEN b - push'[console] ELSE b - push'[console] + r
    BY <1>1 DEF Holds
<1>6. Holds' = h + 1
    BY <1>1, <1>2, <1>3, <1>4, <1>5
<1>7. \A i : Place(i)' = Place(i) /\ Place(i) = IF b >= i THEN b - i ELSE b - i + r
    BY <1>1 DEF Place
<1>8. Place(h + 1)' = a - 1
    <2>1. Place(h + 1)' = IF b >= h + 1 THEN b - (h + 1) ELSE b - (h + 1) + r
        BY <1>1 DEF Place
    <2> QED BY <1>2, <1>4, <2>1
<1>9. ASSUME NEW i \in 1..h PROVE Place(i) # a - 1 /\ Place(i) \in 0..r
    <2>1. Place(i) = IF b >= i THEN b - i ELSE b - i + r
        BY <1>1 DEF Place
    <2> QED BY <1>2, <1>4, <2>1
<1>10. /\ rbuf'[console][a - 1] = c
       /\ \A j \in 0..r : j # a - 1 => rbuf'[console][j] = rbuf[console][j]
    <2>1. rbuf \in [Console!Unit -> [0..RbufSize -> Console!Chars]] /\ console \in Console!Unit
        BY ConsoleFacts DEF ConsoleInv, Console!TypeOK
    <2>2. rbuf' = [rbuf EXCEPT ![console][a - 1] = c] /\ a - 1 \in 0..RbufSize
        BY <1>1, <1>2 DEF Console!PushRbuf
    <2>3. rbuf[console] \in [0..RbufSize -> Console!Chars]
        BY <2>1
    <2>4. rbuf'[console] = [rbuf[console] EXCEPT ![a - 1] = c]
        BY <2>1, <2>2
    <2> QED BY <1>1, <2>2, <2>3, <2>4
<1> QED BY <1>6, <1>7, <1>8, <1>9, <1>10

LEMMA Decoded ==
    ASSUME ConsoleInv, NEW cnt, NEW on, Stream(cnt, on), fifo[console] # <<>>,
           fifo'[console] = Tail(fifo[console]), UNCHANGED <<console, pop, held, unread>>,
           (shift' <=> "shift" \in on[1]), (ctrl' <=> "ctrl" \in on[1]), (meta' <=> "meta" \in on[1]),
           IF Means(fifo[console][1], on[0]) = Console!Nothing THEN UNCHANGED <<push, rbuf>>
           ELSE Console!PushRbuf(console, Means(fifo[console][1], on[0]))
    PROVE  \E cnt1, on1 : Stream(cnt1, on1)'
<1>0. PICK L, n : L = fifo[console] /\ n = Len(L)
    OBVIOUS
<1> DEFINE cnt1 == [i \in 0..(n - 1) |-> cnt[i + 1]]
           on1  == [i \in 0..(n - 1) |-> on[i + 1]]
<1>1. /\ L \in Seq(Entry[console]) /\ n \in Nat \ {0} /\ Holds \in Nat
      /\ unread \in Seq(Console!Chars) /\ Len(unread) \in Nat /\ Len(unread) < RbufSize /\ RbufSize \in Nat
    BY <1>0, ConsoleFacts, TailOf
<1>2. /\ cnt \in [0..n -> Nat] /\ on \in [0..n -> SUBSET Flags]
      /\ cnt[0] = Holds /\ cnt[n] = Len(unread)
      /\ \A i, j \in 0..n : i <= j => cnt[i] <= cnt[j]
    BY <1>0 DEF Stream
<1>3. PICK M : M = fifo'[console'] /\ M = Tail(L)
    BY <1>0
<1>4. Len(M) = n - 1 /\ (\A i \in 1..(n - 1) : M[i] = L[i + 1])
    BY <1>0, <1>1, <1>3, TailOf
<1>5. cnt1 \in [0..(n - 1) -> Nat] /\ on1 \in [0..(n - 1) -> SUBSET Flags]
    BY <1>1, <1>2
<1>6. \A i \in 0..(n - 1) : cnt1[i] = cnt[i + 1] /\ on1[i] = on[i + 1]
    OBVIOUS
<1> HIDE DEF cnt1, on1
<1>7. cnt1[0] = cnt[1] /\ on1[0] = on[1] /\ cnt1[n - 1] = cnt[n] /\ on1[n - 1] = on[n]
    <2>1. 0 \in 0..(n - 1) /\ n - 1 \in 0..(n - 1) /\ (n - 1) + 1 = n /\ 0 + 1 = 1
        BY <1>1
    <2>2. cnt1[0] = cnt[0 + 1] /\ on1[0] = on[0 + 1] /\ cnt1[n - 1] = cnt[(n - 1) + 1] /\ on1[n - 1] = on[(n - 1) + 1]
        BY <1>6, <2>1
    <2> QED BY <2>1, <2>2
<1>8. \A i, j \in 0..(n - 1) : i <= j => cnt1[i] <= cnt1[j]
    <2> SUFFICES ASSUME NEW i \in 0..(n - 1), NEW j \in 0..(n - 1), i <= j PROVE cnt1[i] <= cnt1[j]
        OBVIOUS
    <2>1. i + 1 \in 0..n /\ j + 1 \in 0..n /\ i + 1 <= j + 1
        BY <1>1
    <2> QED BY <1>2, <1>6, <2>1
<1>9. \A x, f : Means(x, f)' = Means(x, f) /\ Goes(x, f)' = Goes(x, f)
    BY DEF Means, Goes
<1>10. \A i \in 1..n :
              /\ on[i] = Goes(L[i], on[i - 1])
              /\ Means(L[i], on[i - 1]) = Console!Nothing => cnt[i] = cnt[i - 1]
              /\ Means(L[i], on[i - 1]) # Console!Nothing =>
                    cnt[i] = cnt[i - 1] + 1 /\ unread[cnt[i]] = Means(L[i], on[i - 1])
    BY <1>0 DEF Stream
<1>11. ASSUME NEW i \in 1..(n - 1)
       PROVE  /\ on1[i] = Goes(M[i], on1[i - 1])
              /\ Means(M[i], on1[i - 1]) = Console!Nothing => cnt1[i] = cnt1[i - 1]
              /\ Means(M[i], on1[i - 1]) # Console!Nothing =>
                    cnt1[i] = cnt1[i - 1] + 1 /\ unread[cnt1[i]] = Means(M[i], on1[i - 1])
    <2>1. i + 1 \in 1..n /\ (i + 1) - 1 = i /\ i \in 0..(n - 1) /\ i - 1 \in 0..(n - 1) /\ (i - 1) + 1 = i
        BY <1>1
    <2>2. M[i] = L[i + 1] /\ on1[i - 1] = on[i] /\ on1[i] = on[i + 1] /\ cnt1[i - 1] = cnt[i] /\ cnt1[i] = cnt[i + 1]
        <3>1. on1[i - 1] = on[(i - 1) + 1] /\ cnt1[i - 1] = cnt[(i - 1) + 1]
            BY <1>6, <2>1
        <3> QED BY <1>4, <1>6, <2>1, <3>1
    <2>3. /\ on[i + 1] = Goes(L[i + 1], on[(i + 1) - 1])
          /\ Means(L[i + 1], on[(i + 1) - 1]) = Console!Nothing => cnt[i + 1] = cnt[(i + 1) - 1]
          /\ Means(L[i + 1], on[(i + 1) - 1]) # Console!Nothing =>
                    cnt[i + 1] = cnt[(i + 1) - 1] + 1 /\ unread[cnt[i + 1]] = Means(L[i + 1], on[(i + 1) - 1])
        BY <1>10, <2>1
    <2> QED BY <2>1, <2>2, <2>3
<1>12. /\ Means(L[1], on[0]) = Console!Nothing => cnt[1] = cnt[0]
       /\ Means(L[1], on[0]) # Console!Nothing => cnt[1] = cnt[0] + 1 /\ unread[cnt[1]] = Means(L[1], on[0])
    <2>1. 1 \in 1..n /\ 1 - 1 = 0
        BY <1>1
    <2>2. /\ Means(L[1], on[1 - 1]) = Console!Nothing => cnt[1] = cnt[1 - 1]
          /\ Means(L[1], on[1 - 1]) # Console!Nothing =>
                cnt[1] = cnt[1 - 1] + 1 /\ unread[cnt[1]] = Means(L[1], on[1 - 1])
        BY <1>10, <2>1
    <2> QED BY <2>1, <2>2
<1>13. \A i \in 1..Holds : unread[i] = rbuf[console][Place(i)]
    BY DEF Stream
<1>14. Holds' = cnt[1] /\ \A i \in 1..Holds' : unread'[i] = rbuf'[console'][Place(i)']
    <2>1. CASE Means(L[1], on[0]) = Console!Nothing
        <3>1. Holds' = Holds /\ \A i : Place(i)' = Place(i)
            BY <1>0, <2>1 DEF Holds, Place
        <3>2. rbuf' = rbuf /\ console' = console /\ unread' = unread
            BY <1>0, <2>1
        <3> QED BY <1>2, <1>12, <1>13, <2>1, <3>1, <3>2
    <2>2. CASE Means(L[1], on[0]) # Console!Nothing
        <3>1. Console!PushRbuf(console, Means(L[1], on[0])) /\ unread' = unread /\ console' = console
            BY <1>0, <2>2
        <3>2. cnt[1] = Holds + 1 /\ unread[cnt[1]] = Means(L[1], on[0])
            BY <1>2, <1>12, <2>2
        <3>3. PICK h : h = Holds
            OBVIOUS
        <3>4. h + 1 < RbufSize
            <4>1. 1 \in 0..n /\ n \in 0..n /\ 1 <= n
                BY <1>1
            <4>2. cnt[1] <= cnt[n]
                BY <1>2, <4>1
            <4> QED BY <1>1, <1>2, <3>2, <3>3, <4>2
        <3>5. /\ Holds' = h + 1
              /\ \A i \in 1..h : Place(i)' = Place(i) /\ rbuf'[console][Place(i)] = rbuf[console][Place(i)]
              /\ rbuf'[console][Place(h + 1)'] = Means(L[1], on[0])
            BY <1>0, <3>1, <3>3, <3>4, Pushed
        <3>6. \A i \in 1..h : unread'[i] = rbuf'[console'][Place(i)']
            BY <1>13, <3>1, <3>3, <3>5
        <3>7. unread'[h + 1] = rbuf'[console'][Place(h + 1)']
            BY <3>1, <3>2, <3>3, <3>5
        <3>8. \A i \in 1..(h + 1) : i \in 1..h \/ i = h + 1
            BY <1>1, <3>3
        <3> QED BY <3>2, <3>3, <3>5, <3>6, <3>7, <3>8
    <2> QED BY <2>1, <2>2
<1>15. PICK c1, o1 : c1 = cnt1 /\ o1 = on1
    OBVIOUS
<1>16. HeldAre(o1[n - 1])'
    <2>1. o1[n - 1] = on[n]
        BY <1>7, <1>15
    <2>2. HeldAre(on[n])
        BY <1>0 DEF Stream, HeldAre
    <2> QED BY <2>1, <2>2 DEF HeldAre, Console!Shifted
<1>17. (shift' <=> "shift" \in on1[0]) /\ (ctrl' <=> "ctrl" \in on1[0]) /\ (meta' <=> "meta" \in on1[0])
    BY <1>7
<1>18. Stream(c1, o1)'
    <2>1. c1 \in [0..Len(M) -> Nat] /\ o1 \in [0..Len(M) -> SUBSET Flags] /\ c1[0] = Holds' /\ c1[Len(M)] = Len(unread')
        BY <1>2, <1>4, <1>5, <1>7, <1>14, <1>15
    <2>2. \A i, j \in 0..Len(M) : i <= j => c1[i] <= c1[j]
        BY <1>4, <1>8, <1>15
    <2>3. \A i \in 1..Len(M) :
              /\ o1[i] = Goes(M[i], o1[i - 1])'
              /\ Means(M[i], o1[i - 1])' = Console!Nothing => c1[i] = c1[i - 1]
              /\ Means(M[i], o1[i - 1])' # Console!Nothing =>
                    c1[i] = c1[i - 1] + 1 /\ unread'[c1[i]] = Means(M[i], o1[i - 1])'
        BY <1>4, <1>9, <1>11, <1>15
    <2>4. HeldAre(o1[Len(M)])'
        BY <1>4, <1>16
    <2>5. (shift' <=> "shift" \in o1[0]) /\ (ctrl' <=> "ctrl" \in o1[0]) /\ (meta' <=> "meta" \in o1[0])
        BY <1>15, <1>17
    <2> QED BY <1>3, <1>14, <2>1, <2>2, <2>3, <2>4, <2>5 DEF Stream, HeldAre
<1> QED BY <1>18

LEMMA Popped ==
    ASSUME ConsoleInv, NEW cnt, NEW on, Stream(cnt, on), Console!PopRbuf
    PROVE  unread # <<>> /\ \E cnt1 : Stream(cnt1, on)'
<1>0. PICK L, n : L = fifo[console] /\ n = Len(L)
    OBVIOUS
<1> DEFINE cnt1 == [i \in 0..n |-> cnt[i] - 1]
<1>1. /\ L \in Seq(Entry[console]) /\ n \in Nat /\ Holds \in Nat \ {0}
      /\ unread \in Seq(Console!Chars) /\ Len(unread) \in Nat
    BY <1>0, ConsoleFacts DEF Console!PopRbuf
<1>2. /\ cnt \in [0..n -> Nat] /\ on \in [0..n -> SUBSET Flags]
      /\ cnt[0] = Holds /\ cnt[n] = Len(unread)
      /\ \A i, j \in 0..n : i <= j => cnt[i] <= cnt[j]
    BY <1>0 DEF Stream
<1>3. \A i \in 0..n : cnt[i] \in Nat \ {0} /\ cnt[i] <= Len(unread)
    <2> SUFFICES ASSUME NEW i \in 0..n PROVE cnt[i] \in Nat \ {0} /\ cnt[i] <= Len(unread)
        OBVIOUS
    <2>1. 0 \in 0..n /\ n \in 0..n /\ 0 <= i /\ i <= n
        BY <1>1
    <2> QED BY <1>1, <1>2, <2>1
<1>4. Len(unread) # 0 /\ unread # <<>>
    <2>1. n \in 0..n
        BY <1>1
    <2> QED BY <1>1, <1>2, <1>3, <2>1
<1>5. unread' = Tail(unread) /\ Len(unread') = Len(unread) - 1 /\ \A i \in 1..(Len(unread) - 1) : unread'[i] = unread[i + 1]
    BY <1>1, <1>4, TailOf DEF Console!PopRbuf
<1>6. cnt1 \in [0..n -> Nat] /\ (\A i \in 0..n : cnt1[i] = cnt[i] - 1)
    BY <1>1, <1>3
<1> HIDE DEF cnt1
<1>7. cnt1[0] = Holds - 1 /\ cnt1[n] = Len(unread')
    <2>1. 0 \in 0..n /\ n \in 0..n
        BY <1>1
    <2> QED BY <1>2, <1>5, <1>6, <2>1
<1>8. \A i, j \in 0..n : i <= j => cnt1[i] <= cnt1[j]
    BY <1>2, <1>3, <1>6
<1>9. Holds' = Holds - 1 /\ \A i \in 1..(Holds - 1) : Place(i)' = Place(i + 1)
    <2>1. PICK a, b, r : a = push[console] /\ b = pop[console] /\ r = RbufSize
        OBVIOUS
    <2>2. a \in 1..r /\ b \in 1..r /\ r \in Nat /\ a # b
        BY <2>1, ConsoleFacts DEF Console!PopRbuf
    <2>3. pop'[console] = (IF b - 1 = 0 THEN r ELSE b - 1) /\ push' = push /\ console' = console
        <3>1. pop \in [Console!Unit -> 1..RbufSize] /\ console \in Console!Unit
            BY ConsoleFacts DEF ConsoleInv, Console!TypeOK
        <3> QED BY <2>1, <3>1 DEF Console!PopRbuf, Console!Before
    <2>4. PICK b1 : b1 = pop'[console]
        OBVIOUS
    <2>5. Holds = (IF b >= a THEN b - a ELSE b - a + r) /\ Holds' = (IF b1 >= a THEN b1 - a ELSE b1 - a + r)
        BY <2>1, <2>3, <2>4 DEF Holds
    <2>6. \A i : /\ Place(i) = (IF b >= i THEN b - i ELSE b - i + r)
                 /\ Place(i)' = (IF b1 >= i THEN b1 - i ELSE b1 - i + r)
        BY <2>1, <2>3, <2>4 DEF Place
    <2>7. Holds' = Holds - 1
        BY <2>2, <2>3, <2>4, <2>5
    <2>8. ASSUME NEW i \in 1..(Holds - 1) PROVE Place(i)' = Place(i + 1)
        <3>1. Place(i + 1) = IF b >= i + 1 THEN b - (i + 1) ELSE b - (i + 1) + r
            BY <2>6
        <3>2. Place(i)' = IF b1 >= i THEN b1 - i ELSE b1 - i + r
            BY <2>6
        <3>3. i \in Nat \ {0} /\ i + 1 <= Holds /\ Holds \in 0..(r - 1)
            BY <1>1, <2>2, <2>5
        <3> QED BY <2>2, <2>3, <2>4, <2>5, <3>1, <3>2, <3>3
    <2> QED BY <2>7, <2>8
<1>10. \A i \in 1..Holds' : unread'[i] = rbuf'[console'][Place(i)']
    <2> SUFFICES ASSUME NEW i \in 1..(Holds - 1) PROVE unread'[i] = rbuf'[console'][Place(i)']
        BY <1>9
    <2>1. i \in 1..(Len(unread) - 1) /\ i + 1 \in 1..Holds
        <3>1. Holds <= Len(unread)
            <4>1. 0 \in 0..n
                BY <1>1
            <4> QED BY <1>2, <1>3, <4>1
        <3> QED BY <1>1, <3>1
    <2>2. unread[i + 1] = rbuf[console][Place(i + 1)]
        BY <2>1 DEF Stream
    <2>3. rbuf' = rbuf /\ console' = console /\ Place(i)' = Place(i + 1)
        BY <1>9 DEF Console!PopRbuf
    <2> QED BY <1>5, <2>1, <2>2, <2>3
<1>11. \A x, f : Means(x, f)' = Means(x, f) /\ Goes(x, f)' = Goes(x, f)
    BY DEF Means, Goes, Console!PopRbuf
<1>12. ASSUME NEW i \in 1..n
       PROVE  /\ on[i] = Goes(L[i], on[i - 1])
              /\ Means(L[i], on[i - 1]) = Console!Nothing => cnt1[i] = cnt1[i - 1]
              /\ Means(L[i], on[i - 1]) # Console!Nothing =>
                    cnt1[i] = cnt1[i - 1] + 1 /\ unread'[cnt1[i]] = Means(L[i], on[i - 1])
    <2>1. /\ on[i] = Goes(L[i], on[i - 1])
          /\ Means(L[i], on[i - 1]) = Console!Nothing => cnt[i] = cnt[i - 1]
          /\ Means(L[i], on[i - 1]) # Console!Nothing =>
                cnt[i] = cnt[i - 1] + 1 /\ unread[cnt[i]] = Means(L[i], on[i - 1])
        BY <1>0 DEF Stream
    <2>2. i \in 0..n /\ i - 1 \in 0..n
        BY <1>1
    <2>3. cnt1[i] = cnt[i] - 1 /\ cnt1[i - 1] = cnt[i - 1] - 1 /\ cnt[i] \in Nat /\ cnt[i - 1] \in Nat \ {0} /\ cnt[i] <= Len(unread)
        BY <1>3, <1>6, <2>2
    <2>4. CASE Means(L[i], on[i - 1]) = Console!Nothing
        BY <2>1, <2>3, <2>4
    <2>5. CASE Means(L[i], on[i - 1]) # Console!Nothing
        <3>1. cnt[i] = cnt[i - 1] + 1 /\ unread[cnt[i]] = Means(L[i], on[i - 1])
            BY <2>1, <2>5
        <3>2. cnt1[i] = cnt1[i - 1] + 1 /\ cnt1[i] \in 1..(Len(unread) - 1) /\ cnt1[i] + 1 = cnt[i]
            BY <1>1, <2>3, <3>1
        <3>3. unread'[cnt1[i]] = unread[cnt1[i] + 1]
            BY <1>5, <3>2
        <3> QED BY <2>1, <2>5, <3>1, <3>2, <3>3
    <2> QED BY <2>4, <2>5
<1>13. PICK c1 : c1 = cnt1
    OBVIOUS
<1>14. Stream(c1, on)'
    <2>1. UNCHANGED <<console, fifo, shift, ctrl, meta, held>>
        BY DEF Console!PopRbuf, Console!flagVars
    <2>2. HeldAre(on[n])' /\ (shift' <=> "shift" \in on[0]) /\ (ctrl' <=> "ctrl" \in on[0]) /\ (meta' <=> "meta" \in on[0])
        BY <1>0, <2>1 DEF Stream, HeldAre, Console!Shifted
    <2> QED BY <1>0, <1>2, <1>6, <1>7, <1>8, <1>9, <1>10, <1>11, <1>12, <1>13, <2>1, <2>2 DEF Stream, HeldAre
<1> QED BY <1>4, <1>14

LEMMA CharOK == \A s, c, m : Console!Char(s, c, m) \in Console!Chars
    BY DEF Console!Char, Console!Chars

LEMMA GoesOK ==
    ASSUME ConsoleInv, NEW c \in Entry[console], NEW f \in SUBSET Flags
    PROVE  Goes(c, f) \in SUBSET Flags
<1>1. CASE console = "sio"
    BY <1>1 DEF Goes
<1>2. CASE console = "kbd"
    <2>1. c.data.key \in Modifiers \cup {"a"}
        BY <1>2 DEF Entry, Console!Codes
    <2>2. c.data.key # "a" => FlagOf(c.data.key) \in Flags
        BY <2>1, ConsoleAssumption DEF FlagOf, Flags
    <2> QED BY <2>2 DEF Goes
<1> QED BY <1>1, <1>2, ConsoleFacts

LEMMA ArriveStep ==
    ASSUME ConsoleInv, NEW u \in Console!Unit, NEW c \in Entry[u], NEW ch \in Console!Chars \cup {Console!Nothing},
           Console!Arrive(u, c, ch), held' \subseteq Modifiers,
           u # console => console = "kbd" /\ c.framing /\ held' = held /\ ch = Console!Nothing,
           u = console => \A f \in SUBSET Flags : HeldAre(f) => Means(c, f) = ch /\ HeldAre(Goes(c, f))'
    PROVE  ConsoleInv'
<1> USE DEF Console!Arrive
<1>1. UNCHANGED <<console, push, pop, rbuf, shift, ctrl, meta, getc>>
    BY DEF Console!rbufVars, Console!flagVars
<1>2. /\ Console!Unit = {"sio", "kbd"} /\ console \in Console!Unit /\ SioFifo \in Nat \ {0}
      /\ fifo = [v \in Console!Unit |-> fifo[v]] /\ (\A v \in Console!Unit : fifo[v] \in Seq(Entry[v]))
      /\ (\A v \in Console!Unit : Len(fifo[v]) <= SioFifo) /\ (u = console \/ (u = "sio" /\ console = "kbd"))
    BY ConsoleFacts, ConsoleAssumption DEF ConsoleInv, FifoOK, Console!TypeOK, Console!Unit
<1>3. /\ unread \in Seq(Console!Chars) /\ Len(unread) \in Nat /\ Len(unread) <= Ahead /\ Ahead \in Nat
    BY ConsoleFacts
<1>4. CASE Len(fifo[u]) = SioFifo
    <2>1. lost' = TRUE /\ UNCHANGED <<fifo, unread>>
        BY <1>4
    <2>2. Console!TypeOK'
        <3>1. push' \in [Console!Unit -> 1..RbufSize] /\ pop' \in [Console!Unit -> 1..RbufSize]
              /\ rbuf' \in [Console!Unit -> [0..RbufSize -> Console!Chars]] /\ console' \in Console!Unit
              /\ getc' \in Console!Unit \cup {"idle", "pop"} /\ held' \subseteq Modifiers /\ unread' \in Seq(Console!Chars)
            BY <1>1, <2>1 DEF ConsoleInv, Console!TypeOK
        <3>2. shift' \in BOOLEAN /\ ctrl' \in BOOLEAN /\ meta' \in BOOLEAN /\ lost' \in BOOLEAN
            BY <1>1, <2>1 DEF ConsoleInv, Console!TypeOK
        <3>3. \A v \in Console!Unit : Len(fifo'[v]) <= SioFifo
            BY <2>1, <1>2
        <3> QED BY <3>1, <3>2, <3>3 DEF Console!TypeOK
    <2>3. FifoOK'
        BY <1>1, <2>1 DEF ConsoleInv, FifoOK
    <2> QED BY <1>3, <2>1, <2>2, <2>3 DEF ConsoleInv
<1>5. CASE Len(fifo[u]) # SioFifo
    <2>1. /\ fifo' = [fifo EXCEPT ![u] = Append(@, c)] /\ lost' = lost
          /\ unread' = IF u = console /\ ch # Console!Nothing THEN Append(unread, ch) ELSE unread
          /\ ch # Console!Nothing => Len(unread) < Ahead
        BY <1>5
    <2>2. fifo'[u] = Append(fifo[u], c) /\ (\A v \in Console!Unit : v # u => fifo'[v] = fifo[v])
        BY <1>2, <2>1
    <2>3. fifo'[u] \in Seq(Entry[u]) /\ Len(fifo'[u]) <= SioFifo
        <3>1. fifo[u] \in Seq(Entry[u]) /\ Len(fifo[u]) <= SioFifo /\ Len(fifo[u]) \in Nat
            BY <1>2
        <3>2. fifo'[u] \in Seq(Entry[u]) /\ Len(fifo'[u]) = Len(fifo[u]) + 1
            <4>1. PICK S, M : S = Entry[u] /\ M = fifo[u]
                OBVIOUS
            <4>2. M \in Seq(S) /\ c \in S
                BY <3>1, <4>1
            <4>3. Append(M, c) \in Seq(S) /\ Len(Append(M, c)) = Len(M) + 1
                BY <4>2, AppendedTo
            <4> QED BY <2>2, <4>1, <4>3
        <3> QED BY <1>2, <1>5, <3>1, <3>2
    <2>4. unread' \in Seq(Console!Chars) /\ Len(unread') <= Ahead
        BY <1>3, <2>1
    <2>5. Console!TypeOK'
        <3>1. push' \in [Console!Unit -> 1..RbufSize] /\ pop' \in [Console!Unit -> 1..RbufSize]
              /\ rbuf' \in [Console!Unit -> [0..RbufSize -> Console!Chars]] /\ console' \in Console!Unit
              /\ getc' \in Console!Unit \cup {"idle", "pop"} /\ held' \subseteq Modifiers
            BY <1>1 DEF ConsoleInv, Console!TypeOK
        <3>2. shift' \in BOOLEAN /\ ctrl' \in BOOLEAN /\ meta' \in BOOLEAN /\ lost' \in BOOLEAN
            BY <1>1, <2>1 DEF ConsoleInv, Console!TypeOK
        <3>3. \A v \in Console!Unit : Len(fifo'[v]) <= SioFifo
            BY <1>2, <2>2, <2>3
        <3> QED BY <2>4, <3>1, <3>2, <3>3 DEF Console!TypeOK
    <2>6. FifoOK'
        <3>1. fifo' = [v \in Console!Unit |-> fifo'[v]]
            BY <1>2, <2>1
        <3>2. \A v \in Console!Unit : fifo'[v] \in Seq(Entry[v])
            BY <1>2, <2>2, <2>3
        <3>3. console = "sio" => fifo'["kbd"] = <<>>
            BY <1>2, <2>2 DEF ConsoleInv, FifoOK
        <3>4. console = "kbd" => \A i \in 1..Len(fifo'["sio"]) : fifo'["sio"][i].framing
            <4>1. CASE u = "sio" /\ console = "kbd"
                <5>1. c.framing /\ (\A i \in 1..Len(fifo["sio"]) : fifo["sio"][i].framing)
                      /\ Len(fifo["sio"]) \in Nat /\ fifo["sio"] \in Seq(Entry["sio"])
                    BY <1>2, <4>1 DEF ConsoleInv, FifoOK
                <5>2. Len(fifo'["sio"]) = Len(fifo["sio"]) + 1 /\ fifo'["sio"][Len(fifo["sio"]) + 1] = c
                      /\ \A i \in 1..Len(fifo["sio"]) : fifo'["sio"][i] = fifo["sio"][i]
                    BY <2>2, <4>1, <5>1, AppendedTo
                <5>3. \A i \in 1..Len(fifo'["sio"]) : i \in 1..Len(fifo["sio"]) \/ i = Len(fifo["sio"]) + 1
                    BY <5>1, <5>2
                <5> QED BY <5>1, <5>2, <5>3
            <4>2. CASE ~(u = "sio" /\ console = "kbd")
                <5>1. console = "kbd" => fifo'["sio"] = fifo["sio"]
                    BY <1>2, <2>2, <4>2
                <5> QED BY <5>1 DEF ConsoleInv, FifoOK
            <4> QED BY <4>1, <4>2
        <3> QED BY <1>1, <3>1, <3>2, <3>3, <3>4 DEF FifoOK
    <2>7. ~lost' => \E cnt, on : Stream(cnt, on)'
        <3> SUFFICES ASSUME ~lost' PROVE \E cnt, on : Stream(cnt, on)'
            OBVIOUS
        <3>1. PICK cnt, on : Stream(cnt, on)
            BY <2>1 DEF ConsoleInv
        <3>2. HeldAre(on[Len(fifo[console])]) /\ on[Len(fifo[console])] \in SUBSET Flags
            <4>1. Len(fifo[console]) \in 0..Len(fifo[console])
                BY ConsoleFacts
            <4> QED BY <3>1, <4>1 DEF Stream, HeldAre
        <3>3. CASE u = console
            <4>1. PICK f : f = on[Len(fifo[console])]
                OBVIOUS
            <4>2. Means(c, f) = ch /\ HeldAre(Goes(c, f))' /\ Goes(c, f) \in SUBSET Flags
                BY <3>2, <3>3, <4>1, GoesOK
            <4>3. PICK g : g = Goes(c, f)
                OBVIOUS
            <4>4. HeldAre(g)' /\ g \in SUBSET Flags
                <5>1. Goes(c, f)' = g
                    BY <1>1, <4>3 DEF Goes
                <5> QED BY <4>2, <4>3, <5>1 DEF HeldAre
            <4>5. unread' = IF ch # Console!Nothing THEN Append(unread, ch) ELSE unread
                BY <2>1, <3>3
            <4> QED BY <1>1, <2>2, <3>1, <3>3, <4>1, <4>2, <4>3, <4>4, <4>5, Appended
        <3>4. CASE u # console
            <4>1. unread' = unread /\ fifo'[console] = fifo[console] /\ held' = held
                BY <1>2, <2>1, <2>2, <3>4
            <4>2. PICK f : f = on[Len(fifo[console])]
                OBVIOUS
            <4>3. HeldAre(f)' /\ on[Len(fifo[console])]' = f
                BY <1>1, <3>2, <4>1, <4>2 DEF HeldAre, Console!Shifted
            <4>4. HeldAre(on[Len(fifo[console])])'
                BY <4>3 DEF HeldAre
            <4> QED BY <1>1, <3>1, <4>1, <4>4, SameStream
        <3> QED BY <3>3, <3>4
    <2> QED BY <2>4, <2>5, <2>6, <2>7 DEF ConsoleInv
<1> QED BY <1>4, <1>5

LEMMA LineStep == ConsoleInv /\ Console!Line => ConsoleInv'
<1> SUFFICES ASSUME ConsoleInv, Console!Line PROVE ConsoleInv'
    OBVIOUS
<1>1. PICK ch \in {"a", "A"} : Console!Arrive("sio", [data |-> ch, framing |-> FALSE], ch)
    BY DEF Console!Line
<1>2. PICK c : c = [data |-> ch, framing |-> FALSE]
    OBVIOUS
<1>3. c.data = ch /\ ~c.framing /\ c \in Entry["sio"] /\ ch \in Console!Chars
    BY <1>2 DEF Entry, Console!Chars
<1>4. console = "sio" /\ held' = held /\ held' \subseteq Modifiers /\ "sio" \in Console!Unit /\ console' = console
    BY <1>1 DEF Console!Line, Console!Arrive, Console!Unit, ConsoleInv, Console!TypeOK
<1>5. \A f \in SUBSET Flags : HeldAre(f) => Means(c, f) = ch /\ HeldAre(Goes(c, f))'
    BY <1>3, <1>4 DEF Means, Goes, HeldAre, Console!Shifted
<1> QED BY <1>1, <1>2, <1>3, <1>4, <1>5, ArriveStep

LEMMA BreakStep == ConsoleInv /\ Console!Break => ConsoleInv'
<1> SUFFICES ASSUME ConsoleInv, Console!Break PROVE ConsoleInv'
    OBVIOUS
<1>1. PICK c : c = [data |-> "a", framing |-> TRUE]
    OBVIOUS
<1>2. c.framing /\ c \in Entry["sio"] /\ Console!Arrive("sio", c, Console!Nothing) /\ held' = held
    BY <1>1 DEF Entry, Console!Chars, Console!Break
<1>3. held' \subseteq Modifiers /\ "sio" \in Console!Unit /\ console' = console /\ console \in {"sio", "kbd"}
    BY <1>2, ConsoleFacts DEF Console!Arrive, ConsoleInv, Console!TypeOK
<1>4. console = "sio" => \A f \in SUBSET Flags : HeldAre(f) => Means(c, f) = Console!Nothing /\ HeldAre(Goes(c, f))'
    BY <1>2, <1>3 DEF Means, Goes, HeldAre, Console!Shifted
<1> QED BY <1>2, <1>3, <1>4, ArriveStep

LEMMA PressStep == ConsoleInv /\ Console!Press => ConsoleInv'
<1> SUFFICES ASSUME ConsoleInv, Console!Press PROVE ConsoleInv'
    OBVIOUS
<1>1. PICK k \in (Modifiers \ held) \cup {"a"} :
          /\ Console!Arrive("kbd", [data |-> [key |-> k, up |-> FALSE], framing |-> FALSE],
                  IF k = "a" THEN Console!Char(Console!Shifted, "ctrl" \in held, "meta" \in held) ELSE Console!Nothing)
          /\ held' = IF k = "a" THEN held ELSE held \cup {k}
    BY DEF Console!Press
<1>2. PICK c, ch : /\ c = [data |-> [key |-> k, up |-> FALSE], framing |-> FALSE]
                   /\ ch = IF k = "a" THEN Console!Char(Console!Shifted, "ctrl" \in held, "meta" \in held)
                                      ELSE Console!Nothing
    OBVIOUS
<1>3. c.data.key = k /\ ~c.data.up /\ ~c.framing /\ c \in Entry["kbd"] /\ ch \in Console!Chars \cup {Console!Nothing}
    BY <1>2, CharOK DEF Entry, Console!Codes
<1>4. /\ console = "kbd" /\ console' = console /\ "kbd" \in Console!Unit
      /\ held \subseteq Modifiers /\ held' \subseteq Modifiers
    BY <1>1 DEF Console!Press, Console!Arrive, Console!Unit, ConsoleInv, Console!TypeOK
<1>5. ASSUME NEW f \in SUBSET Flags, HeldAre(f) PROVE Means(c, f) = ch /\ HeldAre(Goes(c, f))'
    <2>1. Means(c, f) = ch
        <3>1. CASE k = "a"
            <4>1. Means(c, f) = Console!Char("shift" \in f, "ctrl" \in f, "meta" \in f)
                BY <1>3, <1>4, <3>1 DEF Means
            <4> QED BY <1>2, <1>5, <3>1, <4>1 DEF HeldAre, Console!Char
        <3>2. CASE k # "a"
            BY <1>2, <1>3, <1>4, <3>2 DEF Means
        <3> QED BY <3>1, <3>2
    <2>2. Goes(c, f)' = IF k = "a" THEN f ELSE f \cup {FlagOf(k)}
        BY <1>3, <1>4 DEF Goes
    <2>3. k \in {"a", "shift", "rshift", "ctrl", "meta"}
        BY ConsoleAssumption
    <2> QED BY <1>1, <1>5, <2>1, <2>2, <2>3 DEF HeldAre, Console!Shifted, FlagOf
<1> QED BY <1>1, <1>2, <1>3, <1>4, <1>5, ArriveStep

LEMMA ReleaseStep == ConsoleInv /\ Console!Release => ConsoleInv'
<1> SUFFICES ASSUME ConsoleInv, Console!Release PROVE ConsoleInv'
    OBVIOUS
<1>1. PICK k \in held \cup {"a"} :
          /\ Console!Arrive("kbd", [data |-> [key |-> k, up |-> TRUE], framing |-> FALSE], Console!Nothing)
          /\ held' = held \ {k}
    BY DEF Console!Release
<1>2. PICK c : c = [data |-> [key |-> k, up |-> TRUE], framing |-> FALSE]
    OBVIOUS
<1>4. /\ console = "kbd" /\ console' = console /\ "kbd" \in Console!Unit
      /\ held \subseteq Modifiers /\ held' \subseteq Modifiers
    BY <1>1 DEF Console!Release, Console!Arrive, Console!Unit, ConsoleInv, Console!TypeOK
<1>3. c.data.key = k /\ c.data.up /\ ~c.framing /\ c \in Entry["kbd"]
    BY <1>2, <1>4 DEF Entry, Console!Codes
<1>5. ASSUME NEW f \in SUBSET Flags, HeldAre(f) PROVE Means(c, f) = Console!Nothing /\ HeldAre(Goes(c, f))'
    <2>1. Means(c, f) = Console!Nothing
        BY <1>3, <1>4 DEF Means
    <2>2. Goes(c, f)' = IF k = "a" THEN f ELSE f \ {FlagOf(k)}
        BY <1>3, <1>4 DEF Goes
    <2>3. k \in {"a", "shift", "rshift", "ctrl", "meta"} /\ "a" \notin held /\ ~({"shift", "rshift"} \subseteq held)
        BY <1>4, ConsoleAssumption
    <2> QED BY <1>1, <1>5, <2>1, <2>2, <2>3 DEF HeldAre, Console!Shifted, FlagOf
<1> QED BY <1>1, <1>2, <1>3, <1>4, <1>5, ArriveStep

\* A character that siointr() takes is the console's.
LEMMA SiointrStep == ConsoleInv /\ Console!Siointr => ConsoleInv'
<1> SUFFICES ASSUME ConsoleInv, Console!Siointr PROVE ConsoleInv'
    OBVIOUS
<1>1. PICK L, c : L = fifo[console] /\ c = L[1]
    OBVIOUS
<1>2. getc = console
    <2>1. getc \in {"sio", "kbd"} /\ console \in {"sio", "kbd"} /\ fifo[getc] # <<>> /\ ~Head(fifo[getc]).framing
        BY ConsoleFacts DEF Console!Siointr, Console!Unit
    <2>2. CASE console = "kbd" /\ getc = "sio"
        <3>1. fifo["sio"] \in Seq(Entry["sio"]) /\ fifo["sio"] # <<>> /\ (\A i \in 1..Len(fifo["sio"]) : fifo["sio"][i].framing)
            BY <2>1, <2>2 DEF ConsoleInv, FifoOK, Console!Unit
        <3>2. Head(fifo["sio"]) = fifo["sio"][1] /\ 1 \in 1..Len(fifo["sio"])
            BY <3>1, TailOf
        <3> QED BY <2>1, <2>2, <3>1, <3>2
    <2>3. CASE console = "sio" /\ getc = "kbd"
        BY <2>1, <2>3 DEF ConsoleInv, FifoOK
    <2> QED BY <2>1, <2>2, <2>3
<1>3. /\ L \in Seq(Entry[console]) /\ L # <<>> /\ Head(L) = c /\ c \in Entry[console] /\ ~c.framing
      /\ Tail(L) \in Seq(Entry[console]) /\ Len(Tail(L)) = Len(L) - 1 /\ Len(L) \in Nat \ {0}
    BY <1>1, <1>2, ConsoleFacts, TailOf DEF Console!Siointr
<1>4. /\ fifo' = [fifo EXCEPT ![console] = Tail(L)]
      /\ UNCHANGED <<console, pop, getc, held, unread, lost>>
    BY <1>1, <1>2 DEF Console!Siointr
<1>5. IF console = "sio"
      THEN Console!PushRbuf("sio", c.data) /\ UNCHANGED <<shift, ctrl, meta>>
      ELSE /\ Console!DecodeFlags(c.data)
           /\ IF Console!Decode(c.data) = Console!Nothing THEN UNCHANGED <<rbuf, push>>
              ELSE Console!PushRbuf("kbd", Console!Decode(c.data))
    BY <1>1, <1>2, <1>3 DEF Console!Siointr, Console!flagVars
<1>6. PICK d \in Console!Chars \cup {Console!Nothing} :
          /\ IF d = Console!Nothing THEN UNCHANGED <<push, rbuf>> ELSE Console!PushRbuf(console, d)
          /\ console = "sio" => d = c.data
          /\ console = "kbd" => d = Console!Decode(c.data)
    <2>1. CASE console = "sio"
        <3>1. c.data \in Console!Chars /\ Console!Nothing \notin Console!Chars
            BY <1>3, <2>1, ConsoleFacts DEF Entry, Console!Nothing
        <3> QED BY <1>5, <2>1, <3>1
    <2>2. CASE console = "kbd"
        <3>1. Console!Decode(c.data) \in Console!Chars \cup {Console!Nothing}
            BY CharOK DEF Console!Decode
        <3> QED BY <1>5, <2>2, <3>1
    <2> QED BY <2>1, <2>2, ConsoleFacts
<1>7. /\ Console!Unit = {"sio", "kbd"} /\ console \in Console!Unit /\ RbufSize \in Nat
      /\ fifo = [v \in Console!Unit |-> fifo[v]] /\ (\A v \in Console!Unit : fifo[v] \in Seq(Entry[v]))
      /\ push[console] \in 1..RbufSize
    BY ConsoleFacts DEF ConsoleInv, FifoOK
<1>8. fifo'[console] = Tail(L) /\ (\A v \in Console!Unit : v # console => fifo'[v] = fifo[v])
      /\ fifo' = [v \in Console!Unit |-> fifo'[v]]
    BY <1>4, <1>7
<1>9. Console!TypeOK'
    <2>1. pop' \in [Console!Unit -> 1..RbufSize] /\ console' \in Console!Unit /\ unread' \in Seq(Console!Chars)
          /\ getc' \in Console!Unit \cup {"idle", "pop"} /\ held' \subseteq Modifiers
        BY <1>4 DEF ConsoleInv, Console!TypeOK
    <2>2. lost' \in BOOLEAN
        BY <1>4 DEF ConsoleInv, Console!TypeOK
    <2>3. \A v \in Console!Unit : Len(fifo'[v]) <= SioFifo
        <3>1. \A v \in Console!Unit : Len(fifo[v]) <= SioFifo
            BY DEF ConsoleInv, Console!TypeOK
        <3>2. Len(fifo'[console]) <= SioFifo
            BY <1>1, <1>3, <1>7, <1>8, <3>1, ConsoleAssumption
        <3> QED BY <1>8, <3>1, <3>2
    <2>4. push \in [Console!Unit -> 1..RbufSize] /\ rbuf \in [Console!Unit -> [0..RbufSize -> Console!Chars]]
        BY DEF ConsoleInv, Console!TypeOK
    <2>5. push' \in [Console!Unit -> 1..RbufSize] /\ rbuf' \in [Console!Unit -> [0..RbufSize -> Console!Chars]]
        <3>1. CASE d = Console!Nothing
            BY <1>6, <2>4, <3>1
        <3>2. CASE d # Console!Nothing
            <4>1. push' = [push EXCEPT ![console] = Console!Before(@)] /\ rbuf' = [rbuf EXCEPT ![console][push[console] - 1] = d]
                BY <1>6, <3>2 DEF Console!PushRbuf
            <4>2. Console!Before(push[console]) \in 1..RbufSize /\ push[console] - 1 \in 0..RbufSize
                BY <1>7 DEF Console!Before
            <4>3. d \in Console!Chars
                BY <1>6, <3>2
            <4> QED BY <1>7, <2>4, <4>1, <4>2, <4>3
        <3> QED BY <3>1, <3>2
    <2>6. shift \in BOOLEAN /\ ctrl \in BOOLEAN /\ meta \in BOOLEAN
        BY DEF ConsoleInv, Console!TypeOK
    <2>7. shift' \in BOOLEAN
        BY <1>5, <2>6 DEF Console!DecodeFlags
    <2>8. ctrl' \in BOOLEAN
        BY <1>5, <2>6 DEF Console!DecodeFlags
    <2>9. meta' \in BOOLEAN
        BY <1>5, <2>6 DEF Console!DecodeFlags
    <2> QED BY <2>1, <2>2, <2>3, <2>5, <2>7, <2>8, <2>9 DEF Console!TypeOK
<1>10. FifoOK'
    <2>1. \A v \in Console!Unit : fifo'[v] \in Seq(Entry[v])
        BY <1>3, <1>7, <1>8
    <2>2. console = "kbd" => fifo'["sio"] = fifo["sio"]
        BY <1>7, <1>8
    <2>3. console = "sio" => fifo'["kbd"] = fifo["kbd"]
        BY <1>7, <1>8
    <2> QED BY <1>4, <1>8, <2>1, <2>2, <2>3 DEF ConsoleInv, FifoOK
<1>11. ~lost' => \E cnt, on : Stream(cnt, on)'
    <2> SUFFICES ASSUME ~lost' PROVE \E cnt, on : Stream(cnt, on)'
        OBVIOUS
    <2>1. PICK cnt, on : Stream(cnt, on)
        BY <1>4 DEF ConsoleInv
    <2>2. /\ on[0] \in SUBSET Flags /\ on[1] = Goes(c, on[0])
          /\ (shift <=> "shift" \in on[0]) /\ (ctrl <=> "ctrl" \in on[0]) /\ (meta <=> "meta" \in on[0])
        <3>1. 1 \in 1..Len(L) /\ 1 - 1 = 0 /\ 0 \in 0..Len(L)
            BY <1>3
        <3>2. on[1] = Goes(L[1], on[1 - 1]) /\ on \in [0..Len(L) -> SUBSET Flags]
            BY <1>1, <2>1, <3>1 DEF Stream
        <3> QED BY <1>1, <2>1, <3>1, <3>2 DEF Stream
    <2>3. Means(c, on[0]) = d
        <3>1. CASE console = "sio"
            BY <1>3, <1>6, <3>1 DEF Means
        <3>2. CASE console = "kbd"
            <4>1. d = IF c.data.key = "a" /\ ~c.data.up THEN Console!Char(shift, ctrl, meta) ELSE Console!Nothing
                BY <1>6, <3>2 DEF Console!Decode
            <4>2. Console!Char(shift, ctrl, meta) = Console!Char("shift" \in on[0], "ctrl" \in on[0], "meta" \in on[0])
                BY <2>2 DEF Console!Char
            <4> QED BY <1>3, <3>2, <4>1, <4>2 DEF Means
        <3> QED BY <1>7, <3>1, <3>2
    <2>4. (shift' <=> "shift" \in on[1]) /\ (ctrl' <=> "ctrl" \in on[1]) /\ (meta' <=> "meta" \in on[1])
        <3>1. CASE console = "sio"
            <4>1. on[1] = on[0] /\ UNCHANGED <<shift, ctrl, meta>>
                BY <1>5, <2>2, <3>1 DEF Goes
            <4> QED BY <2>2, <4>1
        <3>2. CASE console = "kbd"
            <4>1. Console!DecodeFlags(c.data)
                BY <1>5, <3>2
            <4>2. c.data.key \in {"a", "shift", "rshift", "ctrl", "meta"} /\ c.data.up \in BOOLEAN
                BY <1>3, <3>2, ConsoleAssumption DEF Entry, Console!Codes
            <4>3. on[1] = IF c.data.key = "a" THEN on[0]
                          ELSE IF c.data.up THEN on[0] \ {FlagOf(c.data.key)} ELSE on[0] \cup {FlagOf(c.data.key)}
                BY <2>2, <3>2 DEF Goes
            <4>4. shift' <=> "shift" \in on[1]
                BY <2>2, <4>1, <4>2, <4>3 DEF Console!DecodeFlags, FlagOf
            <4>5. ctrl' <=> "ctrl" \in on[1]
                BY <2>2, <4>1, <4>2, <4>3 DEF Console!DecodeFlags, FlagOf
            <4>6. meta' <=> "meta" \in on[1]
                BY <2>2, <4>1, <4>2, <4>3 DEF Console!DecodeFlags, FlagOf
            <4> QED BY <4>4, <4>5, <4>6
        <3> QED BY <1>7, <3>1, <3>2
    <2> QED BY <1>1, <1>3, <1>4, <1>6, <1>8, <2>1, <2>3, <2>4, Decoded
<1> QED BY <1>4, <1>9, <1>10, <1>11 DEF ConsoleInv

LEMMA PopStep == ConsoleInv /\ Console!PopRbuf => ConsoleInv'
<1> SUFFICES ASSUME ConsoleInv, Console!PopRbuf PROVE ConsoleInv'
    OBVIOUS
<1>1. /\ UNCHANGED <<console, push, rbuf, shift, ctrl, meta, fifo, held, lost>> /\ getc' = "idle"
      /\ pop' = [pop EXCEPT ![console] = Console!Before(@)]
      /\ unread' = IF unread = <<>> THEN unread ELSE Tail(unread)
    BY DEF Console!PopRbuf, Console!flagVars
<1>2. unread' \in Seq(Console!Chars) /\ Len(unread') <= Ahead
    <2>1. unread \in Seq(Console!Chars) /\ Len(unread) <= Ahead /\ Ahead \in Nat
        BY ConsoleFacts
    <2>2. CASE unread # <<>>
        <3>1. Tail(unread) \in Seq(Console!Chars) /\ Len(Tail(unread)) = Len(unread) - 1 /\ Len(unread) \in Nat
            BY <2>1, <2>2, TailOf
        <3> QED BY <1>1, <2>1, <2>2, <3>1
    <2> QED BY <1>1, <2>1, <2>2
<1>3. Console!TypeOK'
    <2>1. pop' \in [Console!Unit -> 1..RbufSize]
        <3>1. pop \in [Console!Unit -> 1..RbufSize] /\ console \in Console!Unit /\ pop[console] \in 1..RbufSize /\ RbufSize \in Nat
            BY ConsoleFacts DEF ConsoleInv, Console!TypeOK
        <3>2. Console!Before(pop[console]) \in 1..RbufSize
            BY <3>1 DEF Console!Before
        <3> QED BY <1>1, <3>1, <3>2
    <2>2. push' \in [Console!Unit -> 1..RbufSize] /\ rbuf' \in [Console!Unit -> [0..RbufSize -> Console!Chars]]
          /\ console' \in Console!Unit /\ held' \subseteq Modifiers
        BY <1>1 DEF ConsoleInv, Console!TypeOK
    <2>3. shift' \in BOOLEAN /\ ctrl' \in BOOLEAN /\ meta' \in BOOLEAN /\ lost' \in BOOLEAN
        BY <1>1 DEF ConsoleInv, Console!TypeOK
    <2>4. \A u \in Console!Unit : Len(fifo'[u]) <= SioFifo
        BY <1>1 DEF ConsoleInv, Console!TypeOK
    <2> QED BY <1>1, <1>2, <2>1, <2>2, <2>3, <2>4 DEF Console!TypeOK
<1>4. FifoOK'
    BY <1>1 DEF ConsoleInv, FifoOK
<1>5. ~lost' => \E cnt, on : Stream(cnt, on)'
    BY <1>1, Popped DEF ConsoleInv
<1> QED BY <1>2, <1>3, <1>4, <1>5 DEF ConsoleInv

LEMMA GetcStep ==
    ASSUME ConsoleInv, getc' \in Console!Unit \cup {"idle", "pop"},
           UNCHANGED <<console, push, pop, rbuf, shift, ctrl, meta, fifo, held, unread, lost>>
    PROVE  ConsoleInv'
<1>1. Console!TypeOK'
    <2>1. push' \in [Console!Unit -> 1..RbufSize] /\ pop' \in [Console!Unit -> 1..RbufSize]
          /\ rbuf' \in [Console!Unit -> [0..RbufSize -> Console!Chars]]
          /\ console' \in Console!Unit /\ held' \subseteq Modifiers /\ unread' \in Seq(Console!Chars)
        BY DEF ConsoleInv, Console!TypeOK
    <2>2. shift' \in BOOLEAN /\ ctrl' \in BOOLEAN /\ meta' \in BOOLEAN /\ lost' \in BOOLEAN
        BY DEF ConsoleInv, Console!TypeOK
    <2>3. \A u \in Console!Unit : Len(fifo'[u]) <= SioFifo
        BY DEF ConsoleInv, Console!TypeOK
    <2> QED BY <2>1, <2>2, <2>3 DEF Console!TypeOK
<1>2. FifoOK'
    BY DEF ConsoleInv, FifoOK
<1>3. ~lost' => \E cnt, on : Stream(cnt, on)'
    <2> SUFFICES ASSUME ~lost' PROVE \E cnt, on : Stream(cnt, on)'
        OBVIOUS
    <2>1. PICK cnt, on : Stream(cnt, on)
        BY DEF ConsoleInv
    <2>2. HeldAre(on[Len(fifo[console])])'
        BY <2>1 DEF Stream, HeldAre, Console!Shifted
    <2> QED BY <2>1, <2>2, SameStream
<1> QED BY <1>1, <1>2, <1>3 DEF ConsoleInv

LEMMA ConsoleStep == ConsoleInv /\ [Console!Next]_consoleVars => ConsoleInv'
<1> SUFFICES ASSUME ConsoleInv, [Console!Next]_consoleVars PROVE ConsoleInv'
    OBVIOUS
<1> USE DEF Console!rbufVars, Console!flagVars, Console!lineVars
<1>1. CASE Console!Getc
    BY <1>1, GetcStep DEF Console!Getc, Console!Unit
<1>2. CASE Console!SiointrEmpty
    BY <1>2, GetcStep DEF Console!SiointrEmpty, Console!Unit
<1>3. CASE Console!ReturnNone
    BY <1>3, GetcStep DEF Console!ReturnNone
<1>4. CASE UNCHANGED consoleVars
    <2>1. getc' \in Console!Unit \cup {"idle", "pop"}
        BY <1>4 DEF consoleVars, ConsoleInv, Console!TypeOK
    <2> QED BY <1>4, <2>1, GetcStep DEF consoleVars
<1> QED BY <1>1, <1>2, <1>3, <1>4, LineStep, BreakStep, PressStep, ReleaseStep, SiointrStep, PopStep DEF Console!Next

\* a buffer index that has wrapped once
LEMMA WrapBelow ==
    ASSUME NEW r \in Nat \ {0}, NEW x \in Int, -r <= x, x < r
    PROVE  x % r = IF x >= 0 THEN x ELSE x + r
    BY SMTT(30)

LEMMA KeysKept == ConsoleInv => Console!KeysInOrder
<1> SUFFICES ASSUME ConsoleInv, ~lost, Len(fifo[console]) = 0 PROVE Console!Buffered = unread
    BY DEF Console!KeysInOrder
<1>1. PICK cnt, on : Stream(cnt, on)
    BY DEF ConsoleInv
<1>2. /\ push[console] \in 1..RbufSize /\ pop[console] \in 1..RbufSize /\ RbufSize \in Nat
      /\ unread \in Seq(Console!Chars) /\ Len(unread) \in Nat /\ Holds \in 0..(RbufSize - 1)
    BY ConsoleFacts
<1>3. Holds = Len(unread) /\ \A i \in 1..Holds : unread[i] = rbuf[console][Place(i)]
    BY <1>1 DEF Stream
<1>4. (pop[console] - push[console]) % RbufSize = Holds
    <2>1. PICK x : x = pop[console] - push[console]
        OBVIOUS
    <2>2. x \in Int /\ RbufSize \in Nat \ {0} /\ -RbufSize <= x /\ x < RbufSize
        BY <1>2, <2>1
    <2>3. x % RbufSize = IF x >= 0 THEN x ELSE x + RbufSize
        BY <2>2, WrapBelow
    <2> QED BY <1>2, <2>1, <2>3 DEF Holds
<1>5. ASSUME NEW i \in 1..Holds PROVE (pop[console] - 1 - (i - 1)) % RbufSize = Place(i)
    <2>1. PICK x : x = pop[console] - 1 - (i - 1)
        OBVIOUS
    <2>2. x = pop[console] - i /\ x \in Int /\ RbufSize \in Nat \ {0} /\ -RbufSize <= x /\ x < RbufSize
        BY <1>2, <2>1
    <2>3. x % RbufSize = IF x >= 0 THEN x ELSE x + RbufSize
        BY <2>2, WrapBelow
    <2> QED BY <1>2, <2>1, <2>2, <2>3 DEF Place
<1>6. Console!Buffered = [i \in 1..Holds |-> rbuf[console][(pop[console] - 1 - (i - 1)) % RbufSize]]
    BY <1>4 DEF Console!Buffered
<1>7. Console!Buffered = [i \in 1..Len(unread) |-> unread[i]]
    BY <1>3, <1>5, <1>6
<1> QED BY <1>2, <1>7

-----------------------------------------------------------------------------
(* The loader                                                              *)

LoaderInv ==
    /\ TypeOK /\ StatusKept /\ CheckIsReported
    /\ NetInv
    /\ ScreenInv
    /\ ConsoleInv
    /\ Counting

LEMMA LoaderInit == BootInit => LoaderInv
    BY ScsiInit, NetInit, ScreenInit, ConsoleInit, MainInit DEF BootInit, LoaderInv

LEMMA LoaderStep == LoaderInv /\ [BootNext]_bootVars => LoaderInv'
<1> SUFFICES ASSUME LoaderInv, [BootNext]_bootVars PROVE LoaderInv'
    OBVIOUS
<1>1. /\ [Next]_scsiVars /\ [Net!Next]_netVars /\ [Screen!Next]_screenVars
      /\ [Console!Next]_consoleVars /\ [Main!Next]_mainVars
    BY StepsOfParts
<1>2. (TypeOK /\ StatusKept /\ CheckIsReported)'
    BY <1>1, ScsiType, ScsiStatus DEF LoaderInv
<1>3. NetInv'
    BY <1>1, NetTypeStep, OpenedStep, HostHasStep DEF LoaderInv, NetInv
<1>4. ScreenInv'
    BY <1>1, ScreenStep DEF LoaderInv
<1>5. ConsoleInv'
    BY <1>1, ConsoleStep DEF LoaderInv
<1>6. Counting'
    BY <1>1, MainStep DEF LoaderInv
<1> QED BY <1>2, <1>3, <1>4, <1>5, <1>6 DEF LoaderInv

LEMMA LoaderSafe == BootSpec => []LoaderInv
    BY LoaderInit, LoaderStep, PTL DEF BootSpec

\* Every part's variables keep their types.
THEOREM BootTyped == BootSpec => []BootTypeOK
<1>1. LoaderInv => BootTypeOK
    BY ScreenKept DEF LoaderInv, NetInv, ConsoleInv, Counting, BootTypeOK
<1> QED BY <1>1, LoaderSafe, PTL

\* A CHECK CONDITION of the disk, at whatever point its target disconnected, is what
\* scrun() returns to sdstrategy() and the other callers (sc.c, sd.c).
THEOREM BootCheckIsReported == BootSpec => []CheckIsReported
<1>1. LoaderInv => CheckIsReported
    BY DEF LoaderInv
<1> QED BY <1>1, LoaderSafe, PTL

\* A receive ring of any number of descriptors is the host's from sc_currmd up to where
\* the chip goes on, and a console buffer of any size returns the keys in the order they
\* were typed, with the modifiers that were held then (lance.c, sio.c, kbd.c, rcvbuf.h).
THEOREM BootBuffersInStep == BootSpec => []BuffersInStep
<1>1. NetInv => Net!RingInStep
    BY RingCounted DEF NetInv
<1>2. LoaderInv => BuffersInStep
    BY <1>1, KeysKept DEF LoaderInv, BuffersInStep
<1> QED BY <1>2, LoaderSafe, PTL

\* On a screen of any size and with any glyphs of 12 bits the pixels are those of the
\* text, reversed in the cursor's cell only, whatever is printed, moved, scrolled and
\* erased (bmd.c).
THEOREM BootScreenShowsText == BootSpec => []ScreenShowsText
<1>1. LoaderInv => ScreenShowsText
    BY ScreenKept DEF LoaderInv, ScreenShowsText
<1> QED BY <1>1, LoaderSafe, PTL

\* net_open() leaves the network device open only on an interface that is open and with
\* the root mounted since then, whatever opens, mounts and closes came before (dev_net.c).
THEOREM BootOpenMeansMounted == BootSpec => []OpenMeansMounted
<1>1. LoaderInv => OpenMeansMounted
    BY DEF LoaderInv, NetInv, OpenedOnce, OpenMeansMounted
<1> QED BY <1>1, LoaderSafe, PTL
=============================================================================
