---------------------------- MODULE SioTtyProofs ----------------------------
(***************************************************************************)
(* Serial output never stalls, for output queues and receive FIFOs of any  *)
(* size and whether or not the console interrupts the driver.              *)
(***************************************************************************)
EXTENDS SioTty, TLAPS

(***************************************************************************)
(* Only between the two halves of getsiocsr() is the register pointer      *)
(* anywhere but at 0, so the transmitter status is read where it is.       *)
(***************************************************************************)
PtrInv == pc # "csr2" => ptr = 0

(***************************************************************************)
(* A transmitter interrupt is to come: it is pending, or a character is    *)
(* being sent, or the console is past its test and is about to send one.   *)
(***************************************************************************)
Soon == tx # "empty" \/ txpend \/ cn \in {"ack", "data"}

(***************************************************************************)
(* With TS_BUSY set an interrupt is to come, or siostart() is on its way   *)
(* to send a character: it has one, and has not found the transmitter      *)
(* full.                                                                   *)
(***************************************************************************)
BusyInv ==
    "BUSY" \in tstate =>
        \/ Soon
        \/ pc = "put"
        \/ pc = "csr0" /\ caller = "start" /\ outq # 0
        \/ pc \in {"csr1", "csr2"} /\ caller = "start" /\ outq # 0 /\ rr.tx
        \/ pc = "getc" /\ outq # 0

IInv == TypeOK /\ PtrInv /\ BusyInv

LEMMA InitInv == Init => IInv
<1> SUFFICES ASSUME Init PROVE IInv
  OBVIOUS
<1>1. rxq \in Seq(Error) /\ Len(rxq) <= RxFifo
  <2>1. <<>> \in Seq(Error) /\ Len(<<>>) = 0
    BY SMT
  <2> QED BY <2>1, BoundsAssumption DEF Init
<1>2. outq \in 0..MaxOut
  BY BoundsAssumption DEF Init
<1>3. rr \in [rx : BOOLEAN, tx : BOOLEAN, err : Error] /\ code \in [err : Error, flag : Error]
  BY DEF Init, Error
<1>4. TypeOK
  BY <1>1, <1>2, <1>3 DEF Init, TypeOK, Pc
<1> QED BY <1>4 DEF Init, IInv, PtrInv, BusyInv

(***************************************************************************)
(* Types.  The queue lengths stay within the bounds, and what is read from *)
(* the chip is of the right kind whichever register it comes from.         *)
(***************************************************************************)
LEMMA EnvironmentTypes == ASSUME TypeOK, Chip \/ Cn \/ Tty PROVE TypeOK'
<1> USE DEF TypeOK, Error
<1>1. CASE TxEmpty
  BY <1>1 DEF TxEmpty, driver, tty
<1>2. ASSUME NEW e \in Error, Receive(e) PROVE TypeOK'
  <2>1. rxq' \in Seq(Error) /\ Len(rxq') <= RxFifo
    BY <1>2, BoundsAssumption DEF Receive
  <2> QED BY <1>2, <2>1 DEF Receive, driver, tty
<1>3. CASE CnEnter
  BY <1>3 DEF CnEnter, Console, driver, tty, chip
<1>4. CASE CnPoll
  BY <1>4 DEF CnPoll, Console, driver, tty
<1>5. CASE CnAck \/ CnData
  BY <1>5 DEF CnAck, CnData, Console, driver, tty
<1>6. CASE Writes
  BY <1>6, BoundsAssumption DEF Writes, chip, Pc
<1>7. CASE Restart \/ Stop
  <2>1. CASE Restart
    BY <2>1 DEF Restart, chip, Pc
  <2>2. CASE Stop
    BY <2>2 DEF Stop, chip, driver
  <2> QED BY <1>7, <2>1, <2>2
<1>8. CASE Flush
  BY <1>8, BoundsAssumption DEF Flush, FlushOutput, chip, driver
<1>9. CASE Open \/ Close
  <2>1. CASE Open
    BY <2>1 DEF Open, chip, driver
  <2>2. CASE Close
    BY <2>2, BoundsAssumption DEF Close, chip, driver
  <2> QED BY <1>9, <2>1, <2>2
<1> QED BY <1>1, <1>2, <1>3, <1>4, <1>5, <1>6, <1>7, <1>8, <1>9 DEF Chip, Cn, Tty

LEMMA ReadsErrors == ASSUME TypeOK PROVE RxError \subseteq Error
<1>1. CASE rxq = <<>>
  BY <1>1 DEF RxError, Error
<1>2. CASE rxq # <<>>
  BY <1>2 DEF RxError, TypeOK
<1> QED BY <1>1, <1>2

LEMMA DriverTypes == ASSUME TypeOK, Driver PROVE TypeOK'
<1> USE DEF TypeOK
<1>1. CASE Start
  BY <1>1 DEF Start, Return, chip, Pc
<1>2. CASE Getc
  BY <1>2, BoundsAssumption DEF Getc, Return, chip, Pc
<1>3. CASE Put
  BY <1>3 DEF Put, tty, Pc
<1>4. CASE Csr0
  <2>1. PICK r \in RxRdy, t \in TxRdy : rr' = [rr EXCEPT !.rx = r, !.tx = t]
    BY <1>4 DEF Csr0
  <2>2. r \in BOOLEAN /\ t \in BOOLEAN
    BY DEF RxRdy, TxRdy
  <2>3. rr' \in [rx : BOOLEAN, tx : BOOLEAN, err : Error]
    BY <2>1, <2>2
  <2> QED BY <1>4, <2>3 DEF Csr0, tty, Pc
<1>5. CASE Csr1
  BY <1>5 DEF Csr1, tty, Pc
<1>6. CASE Csr2
  <2>1. PICK e \in Error : rr' = [rr EXCEPT !.err = e]
    BY <1>6, ReadsErrors DEF Csr2
  <2>2. rr' \in [rx : BOOLEAN, tx : BOOLEAN, err : Error]
    BY <2>1
  <2>3. pc' \in Pc
    BY <1>6 DEF Csr2, Return, Pc
  <2> QED BY <1>6, <2>2, <2>3 DEF Csr2, tty
<1>7. CASE Interrupt \/ Loop \/ Rstpend
  BY <1>7 DEF Interrupt, Loop, Rstpend, tty, chip, Pc
<1>8. CASE ReadData
  <2>1. rxq' \in Seq(Error) /\ Len(rxq') <= RxFifo
    <3>1. CASE rxq = <<>>
      BY <1>8, <3>1 DEF ReadData
    <3>2. CASE rxq # <<>>
      <4>1. Tail(rxq) \in Seq(Error) /\ Len(Tail(rxq)) = Len(rxq) - 1 /\ Len(rxq) \in Nat
        BY <3>2
      <4>2. rxq' = Tail(rxq)
        BY <1>8, <3>2 DEF ReadData
      <4> QED BY <4>1, <4>2, BoundsAssumption
    <3> QED BY <3>1, <3>2
  <2>2. code' \in [err : Error, flag : Error]
    BY <1>8 DEF ReadData, Error
  <2> QED BY <1>8, <2>1, <2>2 DEF ReadData, tty, Pc
<1>9. CASE ErrorReset
  <2>1. PICK f \in Error : code' = [code EXCEPT !.flag = f]
    BY <1>9, ReadsErrors DEF ErrorReset
  <2>2. code' \in [err : Error, flag : Error]
    BY <2>1
  <2> QED BY <1>9, <2>2 DEF ErrorReset, tty, Pc
<1>10. CASE Rint
  <2>1. outq' \in 0..MaxOut
    BY <1>10, BoundsAssumption DEF Rint, FlushOutput, tty
  <2>2. tstate' \subseteq {"BUSY", "FLUSH", "TTSTOP", "ISOPEN"}
    BY <1>10 DEF Rint, FlushOutput, tty
  <2> QED BY <1>10, <2>1, <2>2 DEF Rint, chip, Pc
<1> QED BY <1>1, <1>2, <1>3, <1>4, <1>5, <1>6, <1>7, <1>8, <1>9, <1>10 DEF Driver

(***************************************************************************)
(* The chip and the console: an interrupt that is to come stays so.        *)
(***************************************************************************)
LEMMA EnvironmentStep == ASSUME IInv, Chip \/ Cn PROVE (PtrInv /\ BusyInv)'
<1> USE DEF IInv, PtrInv, BusyInv, Soon
<1>1. CASE TxEmpty
  BY <1>1 DEF TxEmpty, driver, tty
<1>2. CASE \E e \in Error : Receive(e)
  BY <1>2 DEF Receive, driver, tty
<1>3. CASE CnEnter
  BY <1>3 DEF CnEnter, Console, driver, tty, chip
<1>4. CASE CnPoll
  BY <1>4 DEF CnPoll, Console, driver, tty
<1>5. CASE CnAck
  BY <1>5 DEF CnAck, Console, driver, tty
<1>6. CASE CnData
  BY <1>6 DEF CnData, Console, driver, tty
<1> QED BY <1>1, <1>2, <1>3, <1>4, <1>5, <1>6 DEF Chip, Cn

(***************************************************************************)
(* The tty layer calls the driver only when it is not running.             *)
(***************************************************************************)
LEMMA TtyStep == ASSUME IInv, Tty PROVE (PtrInv /\ BusyInv)'
<1> USE DEF IInv, PtrInv, BusyInv, Soon
<1>1. CASE Writes  BY <1>1 DEF Writes, Spltty, chip
<1>2. CASE Restart BY <1>2 DEF Restart, Spltty, chip
<1>3. CASE Stop    BY <1>3 DEF Stop, Spltty, chip, driver
<1>4. CASE Flush   BY <1>4 DEF Flush, FlushOutput, Spltty, chip, driver
<1>5. CASE Open    BY <1>5 DEF Open, Spltty, chip, driver
<1>6. CASE Close   BY <1>6 DEF Close, Spltty, chip, driver
<1> QED BY <1>1, <1>2, <1>3, <1>4, <1>5, <1>6 DEF Tty

(***************************************************************************)
(* getsiocsr() on behalf of siostart(): if it finds the transmitter full,  *)
(* the character in it is what the interrupt is going to come from.        *)
(***************************************************************************)
LEMMA CsrStep == ASSUME IInv, Csr0 \/ Csr1 \/ Csr2 PROVE (PtrInv /\ BusyInv)'
<1> USE DEF IInv, PtrInv, BusyInv, Soon
<1>1. CASE Csr0
  <2>1. ptr = 0
    BY <1>1 DEF Csr0, Runs
  <2>2. PICK r \in BOOLEAN : rr' = [rr EXCEPT !.rx = r, !.tx = (tx = "empty")]
    BY <1>1, <2>1 DEF Csr0, RxRdy, TxRdy
  <2>3. tx # "empty" \/ rr'.tx
    BY <2>2 DEF TypeOK
  <2>4. /\ pc = "csr0" /\ pc' = "csr1" /\ ptr' = 0
        /\ UNCHANGED <<caller, cn, outq, tstate, tx, txpend>>
    BY <1>1 DEF Csr0, Runs, tty
  <2> QED BY <2>3, <2>4
<1>2. CASE Csr1
  BY <1>2 DEF Csr1, Runs, tty
<1>3. CASE Csr2
  <2>1. PICK e \in Error : rr' = [rr EXCEPT !.err = e]
    BY <1>3, ReadsErrors DEF Csr2
  <2>2. rr'.tx = rr.tx
    BY <2>1 DEF TypeOK
  <2> QED BY <1>3, <2>2 DEF Csr2, Return, Runs, tty
<1> QED BY <1>1, <1>2, <1>3

(***************************************************************************)
(* The rest of siostart() and of siottyintr(): where the pending interrupt *)
(* is reset, TS_BUSY is cleared with it, or a character follows.           *)
(***************************************************************************)
LEMMA DriverStep == ASSUME IInv, Driver PROVE (PtrInv /\ BusyInv)'
<1> USE DEF IInv, PtrInv, BusyInv, Soon
<1>1. CASE Start      BY <1>1 DEF Start, Return, Runs, chip
<1>2. CASE Getc       BY <1>2 DEF Getc, Return, Runs, chip
<1>3. CASE Put        BY <1>3 DEF Put, Runs, tty
<1>4. CASE Interrupt  BY <1>4 DEF Interrupt, Spltty, tty, chip
<1>5. CASE ReadData   BY <1>5 DEF ReadData, Runs, tty
<1>6. CASE ErrorReset BY <1>6 DEF ErrorReset, Runs, tty
<1>7. CASE Rint       BY <1>7 DEF Rint, FlushOutput, Runs, tty, chip
<1>8. CASE Rstpend    BY <1>8 DEF Rstpend, Runs
<1>9. CASE Loop       BY <1>9 DEF Loop, Runs, tty, chip
<1> QED BY <1>1, <1>2, <1>3, <1>4, <1>5, <1>6, <1>7, <1>8, <1>9, CsrStep DEF Driver

(***************************************************************************)
(* The three parts are invariant together.                                 *)
(***************************************************************************)
THEOREM Invariance == Spec => []IInv
<1>1. Init => IInv
  BY InitInv
<1>2. IInv /\ [Next]_vars => IInv'
  <2> SUFFICES ASSUME IInv, [Next]_vars PROVE IInv'
    OBVIOUS
  <2>1. CASE Chip \/ Cn
    BY <2>1, EnvironmentTypes, EnvironmentStep DEF IInv
  <2>2. CASE Tty
    BY <2>2, EnvironmentTypes, TtyStep DEF IInv
  <2>3. CASE Driver
    BY <2>3, DriverTypes, DriverStep DEF IInv
  <2>4. CASE UNCHANGED vars
    BY <2>4 DEF vars, driver, tty, chip, IInv, TypeOK, PtrInv, BusyInv, Soon
  <2> QED BY <2>1, <2>2, <2>3, <2>4 DEF Next
<1> QED BY <1>1, <1>2, PTL DEF Spec

(***************************************************************************)
(* The driver keeps its types: neither queue leaves its bounds.            *)
(***************************************************************************)
THEOREM TypeCorrect == Spec => []TypeOK
<1>1. IInv => TypeOK
  BY DEF IInv
<1> QED BY <1>1, Invariance, PTL

(***************************************************************************)
(* Whenever siostart() is locked out by TS_BUSY, an interrupt is to come   *)
(* that lets it in again.                                                  *)
(***************************************************************************)
THEOREM OutputNeverStalls == Spec => []BusyHasInterrupt
<1>1. IInv => BusyHasInterrupt
  BY DEF IInv, BusyInv, Soon, BusyHasInterrupt
<1> QED BY <1>1, Invariance, PTL

(***************************************************************************)
(* siostart() has read the status when it is about to send, and the        *)
(* console when it is past its test: what they found empty is so still, or *)
(* has been filled by the console.                                         *)
(***************************************************************************)
RoomInv ==
    /\ \/ pc \in {"getc", "put"}
       \/ pc \in {"csr1", "csr2"} /\ caller = "start" /\ rr.tx
       => tx # "tty"
    /\ cn \in {"ack", "data"} /\ pc # "csr2" => tx = "empty"

LEMMA RoomEnvironment == ASSUME IInv, RoomInv, Chip \/ Cn \/ Tty PROVE RoomInv'
<1> USE DEF IInv, PtrInv, RoomInv
<1>1. CASE TxEmpty
  BY <1>1 DEF TxEmpty, driver, tty
<1>2. CASE \E e \in Error : Receive(e)
  BY <1>2 DEF Receive, driver, tty
<1>3. CASE CnEnter
  BY <1>3 DEF CnEnter, Console, driver, tty, chip
<1>4. CASE CnPoll
  <2>1. pc # "csr2" /\ cn' = "ack" => tx = "empty"
    BY <1>4 DEF CnPoll, Console, TxRdy
  <2> QED BY <1>4, <2>1 DEF CnPoll, Console, driver, tty
<1>5. CASE CnAck
  BY <1>5 DEF CnAck, Console, driver, tty
<1>6. CASE CnData
  BY <1>6 DEF CnData, Console, driver, tty
<1>7. CASE Tty
  BY <1>7 DEF Tty, Writes, Restart, Stop, Flush, FlushOutput, Open, Close, Spltty, chip, driver
<1> QED BY <1>1, <1>2, <1>3, <1>4, <1>5, <1>6, <1>7 DEF Chip, Cn

LEMMA RoomDriver == ASSUME IInv, RoomInv, Driver PROVE RoomInv'
<1> USE DEF IInv, PtrInv, RoomInv
<1>1. CASE Start      BY <1>1 DEF Start, Return, Runs, chip
<1>2. CASE Getc       BY <1>2 DEF Getc, Return, Runs, chip
<1>3. CASE Put        BY <1>3 DEF Put, Runs, tty
<1>4. CASE Csr0
  <2>1. PICK r \in BOOLEAN : rr' = [rr EXCEPT !.rx = r, !.tx = (tx = "empty")]
    BY <1>4 DEF Csr0, Runs, RxRdy, TxRdy
  <2>2. rr'.tx => tx = "empty"
    BY <2>1 DEF TypeOK
  <2> QED BY <1>4, <2>2 DEF Csr0, Runs, tty
<1>5. CASE Csr1       BY <1>5 DEF Csr1, Runs, tty
<1>6. CASE Csr2
  <2>1. PICK e : rr' = [rr EXCEPT !.err = e]
    BY <1>6 DEF Csr2
  <2>2. rr'.tx = rr.tx
    BY <2>1 DEF TypeOK
  <2> QED BY <1>6, <2>2 DEF Csr2, Return, Runs, tty
<1>7. CASE Interrupt  BY <1>7 DEF Interrupt, Spltty, tty, chip
<1>8. CASE ReadData   BY <1>8 DEF ReadData, Runs, tty
<1>9. CASE ErrorReset BY <1>9 DEF ErrorReset, Runs, tty
<1>10. CASE Rint      BY <1>10 DEF Rint, FlushOutput, Runs, tty, chip
<1>11. CASE Rstpend   BY <1>11 DEF Rstpend, Runs
<1>12. CASE Loop      BY <1>12 DEF Loop, Runs, tty, chip
<1> QED BY <1>1, <1>2, <1>3, <1>4, <1>5, <1>6, <1>7, <1>8, <1>9, <1>10, <1>11, <1>12 DEF Driver

(***************************************************************************)
(* No character is written over before it was sent: siostart() never       *)
(* overwrites one of its own, and the console none, unless it interrupts   *)
(* getsiocsr() between its two halves.                                     *)
(***************************************************************************)
THEOREM NothingIsOverwritten == Spec => NoOutputLost
<1>1. Init => RoomInv
  BY DEF Init, RoomInv
<1>2. IInv /\ RoomInv /\ [Next]_vars => RoomInv'
  <2> SUFFICES ASSUME IInv, RoomInv, [Next]_vars PROVE RoomInv'
    OBVIOUS
  <2>1. CASE UNCHANGED vars
    BY <2>1 DEF vars, driver, tty, chip, RoomInv
  <2> QED BY <2>1, RoomEnvironment, RoomDriver DEF Next
<1>3. RoomInv => (Put => tx # "tty") /\ (CnData /\ pc # "csr2" => tx = "empty")
  BY DEF RoomInv, Put, Runs, CnData, Console
<1> QED BY <1>1, <1>2, <1>3, Invariance, PTL DEF Spec, NoOutputLost
=============================================================================
