--------------------------------- MODULE Lcd ---------------------------------
(***************************************************************************)
(* The front panel's LCD (src/dev/lcd.c).                                  *)
(*                                                                         *)
(* The controller of the panel, an HD44780, is external: it keeps two      *)
(* lines of characters, of which a window is shown, an address, and the    *)
(* modes the ioctls set, and is busy after each byte.  A byte is <<"put",  *)
(* character>> for lcdput() and <<"ctrl", command>> for lcdctrl().         *)
(***************************************************************************)
EXTENDS Integers, Sequences

CONSTANTS
    LineLen,        \* characters of a line, 40 in the controller
    Width,          \* characters of it shown, 16
    MaxBufLen,      \* LCD_MAXBUFLEN, the longest write
    Message1, Message2,     \* lcd_boot_message1 and 2
    Chars,          \* characters a program may write
    MaxOps          \* operations between two greetings in an instance

VARIABLES
    opened,     \* sc_opened
    doing,      \* the operation at work or done last
    bytes,      \* what it has still to put
    ddram,      \* the characters of the two lines
    addr,       \* the address: line and place
    shift,      \* how far the window is to the right of the line's beginning
    entry,      \* what a character does: the step of the address, the window's
    shown,      \* whether the display is on
    busy,
    done        \* operations since the last greeting

lcdVars == <<done, opened, doing, bytes, ddram, addr, shift, entry, shown, busy>>

Blank == [y \in 0..1 |-> [x \in 0..LineLen - 1 |-> " "]]

Ctrl(c) == <<"ctrl", c>>
Put(ch) == <<"put", ch>>

\* The bytes of a write, or of one of the messages.
Lcdshow(s) == [i \in 1..Len(s) |-> Put(s[i])]

TypeOK ==
    /\ done \in 0..MaxOps /\ {opened, shown, busy} \subseteq BOOLEAN
    /\ doing \in {"attach", "write", "ioctl", "restore"}
    /\ \A i \in 1..Len(bytes) : bytes[i][1] \in {"put", "ctrl"}
    /\ \A y \in 0..1, x \in 0..LineLen - 1 : ddram[y][x] \in Chars \cup {" "}
    /\ addr \in [y : 0..1, x : 0..LineLen - 1] /\ shift \in 0..LineLen - 1
    /\ entry \in [step : {-1, 1}, window : {-1, 0, 1}]

(***************************************************************************)
(* greeting()                                                              *)
(***************************************************************************)
GreetingWrong ==
    <<Ctrl("init"), Ctrl("on"), Ctrl("cls"), Ctrl("home"), Ctrl("line0")>> \o Lcdshow(Message1)
    \o <<Ctrl("line1")>> \o Lcdshow(Message2)

Greeting ==
    <<Ctrl("init"), Ctrl("entry"), Ctrl("on"), Ctrl("cls"), Ctrl("home"), Ctrl("line0")>> \o Lcdshow(Message1)
    \o <<Ctrl("line1")>> \o Lcdshow(Message2)

\* lcd_attach(), on a panel in any state the firmware may have left
Init ==
    /\ opened = FALSE /\ doing = "attach" /\ bytes = Greeting
    /\ ddram = Blank /\ addr = [y |-> 0, x |-> 0]
    /\ shift \in 0..LineLen - 1 /\ entry \in [step : {-1, 1}, window : {-1, 0, 1}]
    /\ shown \in BOOLEAN /\ busy = FALSE /\ done = 0

(***************************************************************************)
(* The controller.                                                         *)
(***************************************************************************)
\* The address runs over the two lines.
Moved(a, d) ==
    CASE a.x + d = LineLen -> [y |-> 1 - a.y, x |-> 0]
      [] a.x + d = -1      -> [y |-> 1 - a.y, x |-> LineLen - 1]
      [] OTHER             -> [a EXCEPT !.x = @ + d]

Shifted(d) == (shift + d) % LineLen

TakesChar(ch) ==
    /\ ddram' = [ddram EXCEPT ![addr.y][addr.x] = ch]
    /\ addr' = Moved(addr, entry.step) /\ shift' = Shifted(entry.window)
    /\ UNCHANGED <<entry, shown>>

Sets(a, s, e, on) == addr' = a /\ shift' = s /\ entry' = e /\ shown' = on

Origin == [y |-> 0, x |-> 0]

\* Clearing makes the address go up again; whether the window goes with it stays.
Incremented == [step |-> 1, window |-> IF entry.window = 0 THEN 0 ELSE 1]

Takes(c) ==
    CASE c = "cls"     -> ddram' = Blank /\ Sets(Origin, 0, Incremented, shown)
      [] c = "home"    -> UNCHANGED ddram /\ Sets(Origin, 0, entry, shown)
      [] c = "entry"   -> UNCHANGED ddram /\ Sets(addr, shift, [step |-> 1, window |-> 0], shown)
      [] c = "c_left"  -> UNCHANGED ddram /\ Sets(addr, shift, [step |-> -1, window |-> 0], shown)
      [] c = "d_left"  -> UNCHANGED ddram /\ Sets(addr, shift, [step |-> -1, window |-> -1], shown)
      [] c = "d_right" -> UNCHANGED ddram /\ Sets(addr, shift, [step |-> 1, window |-> 1], shown)
      [] c = "on"      -> UNCHANGED ddram /\ Sets(addr, shift, entry, TRUE)
      [] c = "off"     -> UNCHANGED ddram /\ Sets(addr, shift, entry, FALSE)
      [] c = "cursor"  -> UNCHANGED ddram /\ Sets(Moved(addr, -1), shift, entry, shown)
      [] c = "window"  -> UNCHANGED ddram /\ Sets(addr, Shifted(1), entry, shown)
      [] c = "line0"   -> UNCHANGED ddram /\ Sets(Origin, shift, entry, shown)
      [] c = "line1"   -> UNCHANGED ddram /\ Sets([y |-> 1, x |-> 0], shift, entry, shown)
      [] c = "last"    -> UNCHANGED ddram /\ Sets([y |-> 1, x |-> LineLen - 1], shift, entry, shown)
      [] OTHER         -> UNCHANGED ddram /\ Sets(addr, shift, entry, shown)

Settles == busy /\ busy' = FALSE /\ UNCHANGED <<done, opened, doing, bytes, ddram, addr, shift, entry, shown>>

(***************************************************************************)
(* lcdput() and lcdctrl(): a busy controller takes nothing, and            *)
(* lcdbusywait() comes first.                                              *)
(***************************************************************************)
LcdbusywaitWrong == ~busy \/ Head(bytes)[1] = "ctrl"

Lcdbusywait == ~busy

PutByte ==
    /\ bytes # <<>> /\ Lcdbusywait
    /\ bytes' = Tail(bytes) /\ busy' = TRUE
    /\ IF busy THEN UNCHANGED <<ddram, addr, shift, entry, shown>>
       ELSE IF Head(bytes)[1] = "put" THEN TakesChar(Head(bytes)[2]) ELSE Takes(Head(bytes)[2])
    /\ UNCHANGED <<done, opened, doing>>

(***************************************************************************)
(* Open, which is exclusive, close, write and ioctl.                       *)
(***************************************************************************)
Idle == bytes = <<>>
Begins(what, seq) ==
    /\ Idle /\ opened /\ doing' = what /\ bytes' = seq
    /\ done' = IF what = "restore" THEN 0 ELSE done + 1
    /\ done' <= MaxOps
    /\ UNCHANGED <<opened, ddram, addr, shift, entry, shown, busy>>

Lcdopen ==
    /\ Idle /\ ~opened /\ opened' = TRUE
    /\ UNCHANGED <<done, doing, bytes, ddram, addr, shift, entry, shown, busy>>

Lcdclose ==
    /\ Idle /\ opened /\ opened' = FALSE
    /\ UNCHANGED <<done, doing, bytes, ddram, addr, shift, entry, shown, busy>>

\* A longer write is EIO and shows nothing.
Lcdwrite ==
    \E n \in 1..MaxBufLen + 1, ch \in Chars :
       n <= MaxBufLen /\ Begins("write", Lcdshow([i \in 1..n |-> ch]))

\* LCDCLS, LCDHOME, LCDMODE, LCDDISP, LCDMOVE and LCDSEEK, with FWRITE
Lcdioctl ==
    \E c \in {"cls", "home", "c_left", "entry", "d_left", "d_right", "on", "off", "cursor", "window", "last"} :
       Begins("ioctl", <<Ctrl(c)>>)

Lcdrestore == Begins("restore", Greeting)

Next == Settles \/ PutByte \/ Lcdopen \/ Lcdclose \/ Lcdwrite \/ Lcdioctl \/ Lcdrestore

Spec == Init /\ [][Next]_lcdVars

-----------------------------------------------------------------------------
(***************************************************************************)
(* After greeting(), at attach and for LCDRESTORE, the panel shows the two *)
(* messages of the boot, whatever was written, moved, shifted or switched  *)
(* off before, and in whatever state the panel was found.                  *)
(***************************************************************************)
Window(y) == [i \in 1..Width |-> ddram[y][(shift + i - 1) % LineLen]]

RestoreShowsMessages ==
    Idle /\ doing \in {"attach", "restore"} =>
       shown /\ Window(0) = Message1 /\ Window(1) = Message2
=============================================================================
