------------------------------- MODULE Lunaws -------------------------------
(***************************************************************************)
(* Keyboard and mouse of channel B (src/dev/lunaws.c).                     *)
(*                                                                         *)
(* The keyboard unit sends single key codes and three-byte mouse reports   *)
(* down one line, and only the byte that begins a report can be told by    *)
(* its value: wsintr() counts.  Bytes are damaged, overrun by the next and *)
(* taken by the console's polling, and wsmouse resets the count as it      *)
(* opens and closes; after each of these the driver has to find the        *)
(* beginning of a report again.  A byte is what it looks like, what it is, *)
(* and the parity of its report.  The unit and the line are external.      *)
(***************************************************************************)
EXTENDS Naturals, Sequences

CONSTANTS
    Fifo,       \* bytes the receiver holds, 3 in the chip
    Deltas      \* what a delta may look like, of "press", "release" and "first"

VARIABLES
    sending,    \* how much of a report the unit has sent, and its parity
    reporting,  \* whether the mouse reports
    asked,      \* what the driver last asked of it
    reset,      \* omms_enable() or omms_disable() has still to reset sc_msreport
    line,       \* the receive FIFO, each byte with its error bits
    msreport, report,   \* sc_msreport; buttons, dx and dy as they come
    pos,        \* the place in its report of the byte that will be read next
    faulted, lies       \* a byte was lost; events passed on since the last such
                        \* loss that nobody sent

linevars   == <<sending, reporting, line>>
lunawsVars == <<linevars, asked, reset, msreport, report, pos, faulted, lies>>

Look == {"press", "release", "first"}
Byte == [look : Look, is : {"key", "buttons", "dx", "dy"}, of : {0, 1}]

TypeOK ==
    /\ sending \in [part : 0..2, of : {0, 1}]
    /\ {reporting, asked, reset, faulted} \subseteq BOOLEAN
    /\ line \in Seq([b : Byte, err : BOOLEAN]) /\ Len(line) <= Fifo
    /\ msreport \in 0..2 /\ report \in Seq(Byte) /\ Len(report) = msreport
    /\ pos \in 0..2
    /\ lies \in 0..9

\* As wsattach() leaves it: the mouse is kept quiet.
Init ==
    /\ sending = [part |-> 0, of |-> 0] /\ line = <<>>
    /\ reporting = FALSE /\ asked = FALSE /\ reset = FALSE
    /\ msreport = 0 /\ report = <<>>
    /\ pos = 0 /\ faulted = FALSE /\ lies = 0

(***************************************************************************)
(* The unit: a key between two reports, or the next byte of a report.      *)
(***************************************************************************)
Sends(b) ==
    \E err \in BOOLEAN :
       IF Len(line) < Fifo THEN line' = Append(line, [b |-> b, err |-> err])
       ELSE line' = [line EXCEPT ![Fifo] = [b |-> b, err |-> TRUE]]

Key ==
    /\ sending.part = 0
    /\ \E l \in {"press", "release"} : Sends([look |-> l, is |-> "key", of |-> sending.of])
    /\ UNCHANGED <<sending, reporting, asked, reset, msreport, report, pos, faulted, lies>>

Reports ==
    /\ reporting \/ sending.part # 0
    /\ \E l \in IF sending.part = 0 THEN {"first"} ELSE Deltas :
          Sends([look |-> l, is |-> <<"buttons", "dx", "dy">>[sending.part + 1], of |-> sending.of])
    /\ sending' = IF sending.part = 2 THEN [part |-> 0, of |-> 1 - sending.of]
                  ELSE [sending EXCEPT !.part = @ + 1]
    /\ UNCHANGED <<reporting, asked, reset, msreport, report, pos, faulted, lies>>

Hears ==
    /\ reporting' = asked
    /\ UNCHANGED <<sending, line, asked, reset, msreport, report, pos, faulted, lies>>

(***************************************************************************)
(* wsintr(), one pass of its loop.                                         *)
(***************************************************************************)
After(b) == CASE b.is = "buttons" -> 1 [] b.is = "dx" -> 2 [] OTHER -> 0

Passes(sent) ==
    /\ lies' = IF sent \/ lies = 9 THEN lies ELSE lies + 1
    /\ UNCHANGED faulted

Quiet == UNCHANGED <<faulted, lies>>
Fault == faulted' = TRUE /\ lies' = 0

\* omkbd_input() passes whatever it is given on as a key, through omkbd_raw[] or not.
OmkbdInput(b) == Passes(b.is = "key") /\ UNCHANGED <<msreport, report>>

Whole(r) == <<r[1].is, r[2].is, r[3].is>> = <<"buttons", "dx", "dy">> /\ r[1].of = r[2].of /\ r[2].of = r[3].of

\* The last byte of a report is counted as the first of the next.
TakeWrong(b) ==
    \/ msreport = 0 /\ b.look # "first" /\ OmkbdInput(b)
    \/ msreport = 0 /\ b.look = "first" /\ msreport' = 1 /\ report' = <<b>> /\ Quiet
    \/ msreport = 1 /\ msreport' = 2 /\ report' = Append(report, b) /\ Quiet
    \/ /\ msreport = 2 /\ msreport' = 1 /\ report' = <<b>>
       /\ Passes(Whole(Append(report, b)))

Take(b) ==
    \/ msreport = 0 /\ b.look # "first" /\ OmkbdInput(b)
    \/ msreport = 0 /\ b.look = "first" /\ msreport' = 1 /\ report' = <<b>> /\ Quiet
    \/ msreport = 1 /\ msreport' = 2 /\ report' = Append(report, b) /\ Quiet
    \/ /\ msreport = 2 /\ msreport' = 0 /\ report' = <<>>
       /\ Passes(Whole(Append(report, b)))

Wsintr ==
    /\ line # <<>>
    /\ line' = Tail(line) /\ pos' = After(Head(line).b)
    /\ IF Head(line).err THEN Fault /\ UNCHANGED <<msreport, report>> ELSE Take(Head(line).b)
    /\ UNCHANGED <<sending, reporting, asked, reset>>

(***************************************************************************)
(* The console, wsmouse and wskbd.                                         *)
(***************************************************************************)
\* ws_cngetc() polls for a byte and takes any for a key.
WsCngetc ==
    /\ line # <<>>
    /\ line' = Tail(line) /\ pos' = After(Head(line).b)
    /\ IF Head(line).b.is = "key" /\ ~Head(line).err THEN Quiet ELSE Fault
    /\ UNCHANGED <<sending, reporting, asked, reset, msreport, report>>

\* omms_enable() and omms_disable(): a command to the mouse, and then
OmmsCommand(on) ==
    /\ ~reset /\ asked' = on /\ reset' = TRUE
    /\ UNCHANGED <<linevars, msreport, report, pos, faulted, lies>>

\* the count is reset, wherever in a report the line is.
OmmsReset ==
    /\ reset /\ reset' = FALSE
    /\ msreport' = 0 /\ report' = <<>>
    /\ IF msreport # 0 /\ pos # 0 THEN Fault ELSE Quiet
    /\ UNCHANGED <<linevars, asked, pos>>

Next ==
    \/ Key \/ Reports \/ Hears \/ Wsintr \/ WsCngetc
    \/ (\E on \in BOOLEAN : OmmsCommand(on)) \/ OmmsReset

Spec == Init /\ [][Next]_lunawsVars

-----------------------------------------------------------------------------
(***************************************************************************)
(* wsintr() tells events from bytes by counting alone.  As long as no byte *)
(* is lost, taken by the console or cut off by a reset every event is one  *)
(* the unit has sent; and after that, whatever the count was, no more than *)
(* three events are made up before reports and keys are read aright again. *)
(* That needs deltas that do not look like the beginning of a report       *)
(* (-128..-121): with them the count may never be right again.             *)
(***************************************************************************)
FindsReports == lies <= IF faulted THEN 3 ELSE 0
=============================================================================
