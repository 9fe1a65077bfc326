------------------------------- MODULE SioTty -------------------------------
(***************************************************************************)
(* The serial line driver (src/dev/siotty.c): output, the interrupt        *)
(* handler of channel A and the polled console on the same channel.        *)
(*                                                                         *)
(* The driver runs at spltty, one register access per step; between two    *)
(* steps the uPD7201A sends and receives, and, where NestedConsole, an     *)
(* interrupt above spltty prints on the console.  The chip, the tty layer  *)
(* (ttstart, ttyflush, ttywrite) and the console user are the environment. *)
(* Characters are counted on output; on input a character is its receive   *)
(* error.  Operators named ...Wrong are faulted forms of the one below.    *)
(***************************************************************************)
EXTENDS Naturals, Sequences

CONSTANTS
    MaxOut,         \* characters the output queue holds in an instance
    RxFifo,         \* characters the receiver holds, 3 in the chip
    NestedConsole   \* whether syscnputc() is also called above spltty

ASSUME BoundsAssumption == MaxOut \in Nat /\ RxFifo \in Nat
ASSUME NestedAssumption == NestedConsole \in BOOLEAN

Error == {"none", "parity", "framing"}

VARIABLES
    pc,         \* the driver at spltty, "idle" when it is not running
    caller,     \* who called getsiocsr(): "intr" or "start"
    nested,     \* siostart() was called by the tty layer from siottyintr()'s loop
    rr,         \* the value it returns, as far as it is looked at
    code,       \* the character read: its error and the flag put on it
    cn,         \* syscnputc() at splhigh
    outq,       \* t_outq.c_cc
    tstate,     \* which of TS_BUSY, TS_FLUSH, TS_TTSTOP, TS_ISOPEN are set
    ptr,        \* the register pointer of the chip
    tx,         \* the transmit buffer: "empty", or whose character it holds
    txpend,     \* the transmitter interrupt is pending
    rxq         \* the receive FIFO

driver == <<pc, caller, nested, rr, code>>
tty    == <<outq, tstate>>
chip   == <<ptr, tx, txpend, rxq>>
vars   == <<driver, cn, tty, chip>>

Pc == {"idle", "csr0", "csr1", "csr2", "data", "errrst", "rint", "loop", "rstpend",
       "start", "getc", "put"}

TypeOK ==
    /\ pc \in Pc /\ caller \in {"intr", "start"} /\ nested \in BOOLEAN
    /\ rr \in [rx : BOOLEAN, tx : BOOLEAN, err : Error]
    /\ code \in [err : Error, flag : Error]
    /\ cn \in {"idle", "poll", "ack", "data"}
    /\ outq \in 0..MaxOut
    /\ tstate \subseteq {"BUSY", "FLUSH", "TTSTOP", "ISOPEN"}
    /\ ptr \in {0, 1} /\ tx \in {"empty", "tty", "console"} /\ txpend \in BOOLEAN
    /\ rxq \in Seq(Error) /\ Len(rxq) <= RxFifo

Init ==
    /\ pc = "idle" /\ caller = "intr" /\ nested = FALSE
    /\ rr = [rx |-> FALSE, tx |-> FALSE, err |-> "none"]
    /\ code = [err |-> "none", flag |-> "none"]
    /\ cn = "idle"
    /\ outq = 0 /\ tstate = {}
    /\ ptr = 0 /\ tx = "empty" /\ txpend = FALSE /\ rxq = <<>>

(***************************************************************************)
(* The chip.  The status register read is the one the pointer names, and   *)
(* the pointer returns to 0; a bit that is looked for in the wrong         *)
(* register has any value.                                                 *)
(***************************************************************************)
TxEmpty ==
    /\ tx # "empty" /\ tx' = "empty" /\ txpend' = TRUE
    /\ UNCHANGED <<driver, cn, tty, ptr, rxq>>

Receive(e) ==
    /\ Len(rxq) < RxFifo /\ rxq' = Append(rxq, e)
    /\ UNCHANGED <<driver, cn, tty, ptr, tx, txpend>>

RxRdy   == IF ptr = 0 THEN {rxq # <<>>} ELSE BOOLEAN
TxRdy   == IF ptr = 0 THEN {tx = "empty"} ELSE BOOLEAN
RxError == IF ptr = 1 THEN {IF rxq = <<>> THEN "none" ELSE Head(rxq)} ELSE Error

(***************************************************************************)
(* siostart() and what leads to it: new output, a restart, a flush.        *)
(***************************************************************************)
Spltty == pc = "idle" /\ cn = "idle"

Writes ==
    /\ Spltty /\ "ISOPEN" \in tstate /\ outq < MaxOut
    /\ outq' = outq + 1 /\ pc' = "start"
    /\ UNCHANGED <<caller, nested, rr, code, cn, tstate, chip>>

Restart ==
    /\ Spltty /\ "TTSTOP" \in tstate
    /\ tstate' = tstate \ {"TTSTOP"} /\ pc' = "start"
    /\ UNCHANGED <<caller, nested, rr, code, cn, outq, chip>>

\* siostop() after the tty layer has set TS_TTSTOP does nothing.
Stop ==
    /\ Spltty /\ "ISOPEN" \in tstate
    /\ tstate' = tstate \cup {"TTSTOP"}
    /\ UNCHANGED <<driver, cn, outq, chip>>

\* siostop() from ttyflush(), and what ttyflush() goes on to do.
FlushOutput ==
    /\ outq' = 0
    /\ tstate' = IF tstate \cap {"BUSY", "TTSTOP"} = {"BUSY"} THEN tstate \cup {"FLUSH"} ELSE tstate

Flush ==
    /\ Spltty /\ "ISOPEN" \in tstate
    /\ FlushOutput
    /\ UNCHANGED <<driver, cn, chip>>

Open ==
    /\ Spltty /\ "ISOPEN" \notin tstate
    /\ tstate' = tstate \cup {"ISOPEN"}
    /\ UNCHANGED <<driver, cn, outq, chip>>

Close ==
    /\ Spltty /\ "ISOPEN" \in tstate
    /\ tstate' = {} /\ outq' = 0
    /\ UNCHANGED <<driver, cn, chip>>

Runs(p) == cn = "idle" /\ pc = p

\* Where siostart() returns to.
Return == IF nested THEN "loop" ELSE "idle"

StartWrong ==
    /\ Runs("start")
    /\ IF tstate \cap {"BUSY", "TTSTOP"} # {}
       THEN pc' = Return /\ UNCHANGED <<caller, tstate>>
       ELSE /\ tstate' = tstate \cup {"BUSY"} /\ caller' = "start"
            /\ pc' = IF outq = 0 THEN Return ELSE "csr0"
    /\ UNCHANGED <<nested, rr, code, cn, outq, chip>>

Start ==
    /\ Runs("start")
    /\ IF tstate \cap {"BUSY", "TTSTOP"} # {} \/ outq = 0
       THEN pc' = Return /\ UNCHANGED <<caller, tstate>>
       ELSE pc' = "csr0" /\ caller' = "start" /\ tstate' = tstate \cup {"BUSY"}
    /\ UNCHANGED <<nested, rr, code, cn, outq, chip>>

Getc ==
    /\ Runs("getc")
    /\ IF outq = 0 THEN pc' = Return /\ outq' = outq ELSE pc' = "put" /\ outq' = outq - 1
    /\ UNCHANGED <<caller, nested, rr, code, cn, tstate, chip>>

PutWrong ==
    /\ Runs("put")
    /\ tx' = "tty" /\ txpend' = FALSE
    /\ pc' = "getc"
    /\ UNCHANGED <<caller, nested, rr, code, cn, tty, ptr, rxq>>

Put ==
    /\ Runs("put")
    /\ tx' = "tty" /\ txpend' = FALSE
    /\ pc' = "csr0"
    /\ UNCHANGED <<caller, nested, rr, code, cn, tty, ptr, rxq>>

(***************************************************************************)
(* getsiocsr(), three register accesses, and where its callers go on.      *)
(***************************************************************************)
Csr0 ==
    /\ Runs("csr0")
    /\ \E r \in RxRdy, t \in TxRdy : rr' = [rr EXCEPT !.rx = r, !.tx = t]
    /\ ptr' = 0 /\ pc' = "csr1"
    /\ UNCHANGED <<caller, nested, code, cn, tty, tx, txpend, rxq>>

Csr1 ==
    /\ Runs("csr1")
    /\ ptr' = 1 /\ pc' = "csr2"
    /\ UNCHANGED <<caller, nested, rr, code, cn, tty, tx, txpend, rxq>>

Csr2 ==
    /\ Runs("csr2")
    /\ \E e \in RxError : rr' = [rr EXCEPT !.err = e]
    /\ ptr' = 0
    /\ pc' = CASE caller = "intr" /\ rr.rx            -> "data"
               [] caller = "intr" /\ ~rr.rx /\ rr.tx  -> "rstpend"
               [] caller = "start" /\ rr.tx           -> "getc"
               [] caller = "start" /\ ~rr.tx          -> Return
               [] OTHER                               -> "idle"
    /\ UNCHANGED <<caller, nested, code, cn, tty, tx, txpend, rxq>>

(***************************************************************************)
(* siottyintr().                                                           *)
(***************************************************************************)
Interrupt ==
    /\ Spltty /\ (txpend \/ rxq # <<>>)
    /\ pc' = "csr0" /\ caller' = "intr"
    /\ UNCHANGED <<nested, rr, code, cn, tty, chip>>

ReadData ==
    /\ Runs("data")
    /\ code' = [err |-> IF rxq = <<>> THEN "none" ELSE Head(rxq), flag |-> "none"]
    /\ rxq' = IF rxq = <<>> THEN <<>> ELSE Tail(rxq)
    /\ pc' = IF rr.err = "none" THEN "rint" ELSE "errrst"
    /\ UNCHANGED <<caller, nested, rr, cn, tty, ptr, tx, txpend>>

\* The error is reset, and the bits are then looked for in sio_stat: the pointer
\* is back at 0, so that it is RR0 that is read.
ErrorReset ==
    /\ Runs("errrst")
    /\ \E f \in RxError : code' = [code EXCEPT !.flag = f]
    /\ ptr' = 0 /\ pc' = "rint"
    /\ UNCHANGED <<caller, nested, rr, cn, tty, tx, txpend, rxq>>

\* l_rint(), unless nobody has opened the line.  The tty layer takes the character
\* as a stop, or it may echo it or flush the output, and then starts output again.
Rint ==
    /\ Runs("rint")
    /\ \/ pc' = "loop" /\ "ISOPEN" \notin tstate /\ UNCHANGED <<tty, nested>>
       \/ /\ pc' = "loop" /\ "ISOPEN" \in tstate /\ tstate' = tstate \cup {"TTSTOP"}
          /\ UNCHANGED <<outq, nested>>
       \/ /\ pc' = "start" /\ "ISOPEN" \in tstate /\ nested' = TRUE
          /\ \/ tstate' \in {tstate, tstate \ {"TTSTOP"}} /\ outq' \in {outq, outq + 1} \cap 0..MaxOut
             \/ FlushOutput
    /\ UNCHANGED <<caller, rr, code, cn, chip>>

\* The next pass of the loop.
Loop ==
    /\ Runs("loop")
    /\ pc' = "csr0" /\ caller' = "intr" /\ nested' = FALSE
    /\ UNCHANGED <<rr, code, cn, tty, chip>>

RstpendWrong ==
    /\ Runs("rstpend")
    /\ txpend' = FALSE
    /\ tstate' = tstate \ {"FLUSH"}
    /\ pc' = "start"
    /\ UNCHANGED <<caller, nested, rr, code, cn, outq, ptr, tx, rxq>>

Rstpend ==
    /\ Runs("rstpend")
    /\ txpend' = FALSE
    /\ tstate' = tstate \ {"BUSY", "FLUSH"}
    /\ pc' = "start"
    /\ UNCHANGED <<caller, nested, rr, code, cn, outq, ptr, tx, rxq>>

(***************************************************************************)
(* syscnputc(): wait for the transmitter, forget its interrupt, send.      *)
(***************************************************************************)
Console(from, to) == cn = from /\ cn' = to /\ UNCHANGED <<driver, tty>>

CnEnter ==
    /\ pc = "idle" \/ NestedConsole
    /\ Console("idle", "poll")
    /\ UNCHANGED chip

\* Nothing else uses the chip's registers during getsiocsr(): its second half,
\* which nobody looks at, brings the pointer back.
CnPoll ==
    /\ \E t \in TxRdy : Console("poll", IF t THEN "ack" ELSE "poll")
    /\ ptr' = 0
    /\ UNCHANGED <<tx, txpend, rxq>>

CnAck == Console("ack", "data") /\ txpend' = FALSE /\ UNCHANGED <<ptr, tx, rxq>>

CnData ==
    /\ Console("data", "idle")
    /\ tx' = "console" /\ txpend' = FALSE
    /\ UNCHANGED <<ptr, rxq>>

Chip   == TxEmpty \/ \E e \in Error : Receive(e)
Tty    == Writes \/ Restart \/ Stop \/ Flush \/ Open \/ Close
Driver == Start \/ Getc \/ Put \/ Csr0 \/ Csr1 \/ Csr2 \/ Interrupt \/ ReadData \/ ErrorReset
          \/ Rint \/ Loop \/ Rstpend
Cn     == CnEnter \/ CnPoll \/ CnAck \/ CnData

Next == Chip \/ Tty \/ Driver \/ Cn

Spec == Init /\ [][Next]_vars

(***************************************************************************)
(* The chip sends, the driver and the console finish what they began; the  *)
(* line is not received on, nor it or the console written to, for ever.    *)
(***************************************************************************)
Fairness == WF_vars(TxEmpty) /\ WF_vars(Driver) /\ WF_vars(CnPoll \/ CnAck \/ CnData)

FairSpec == Spec /\ Fairness /\ <>[][~(Writes \/ CnEnter \/ \E e \in Error : Receive(e))]_vars

-----------------------------------------------------------------------------
(***************************************************************************)
(* Output does not stall: whenever the driver leaves TS_BUSY set, which    *)
(* stops siostart(), the transmitter is going to interrupt and clear it.   *)
(* The pending interrupt is reset by hand in two places, and one of them,  *)
(* syscnputc(), may run in the middle of the other and of siostart().      *)
(***************************************************************************)
BusyHasInterrupt ==
    "BUSY" \in tstate /\ pc = "idle" /\ cn = "idle" => tx # "empty" \/ txpend

(***************************************************************************)
(* No character is written over before it was sent: siostart() never       *)
(* overwrites one of its own, although it tests the transmitter long       *)
(* before it writes, and syscnputc() none at all, unless it has            *)
(* interrupted getsiocsr() with the pointer at RR1.                        *)
(***************************************************************************)
NoOutputLost ==
    [][/\ Put => tx # "tty"
       /\ CnData /\ pc # "csr2" => tx = "empty"]_vars

(***************************************************************************)
(* Queued output is sent, unless the line is stopped or closed.            *)
(***************************************************************************)
Drained == outq > 0 ~> outq = 0 \/ "TTSTOP" \in tstate

(***************************************************************************)
(* RR_FRAMING is "Framing Error" and RR_PARITY "Parity Error" (sioreg.h):  *)
(* a character that is received with one of them is passed on with that    *)
(* flag, and no other character is.                                        *)
(***************************************************************************)
ErrorsFlagged == pc = "rint" => code.flag = code.err
=============================================================================
