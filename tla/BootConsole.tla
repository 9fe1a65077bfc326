---------------------------- MODULE BootConsole -----------------------------
(***************************************************************************)
(* The boot loader's console input: the uPD7201A's two channels, which     *)
(* siocngetc() and bmccngetc() poll (sio.c, bmc.c), the keyboard's codes   *)
(* (kbd.c) and the receive buffers (rcvbuf.h).  Channel 0 is the serial    *)
(* line, channel 1 the keyboard.  Nothing is read but while a getc runs.   *)
(***************************************************************************)
EXTENDS Integers, Sequences

CONSTANTS
    RbufSize,  \* RBUF_SIZE
    SioFifo,   \* external: characters that the chip holds
    Ahead,     \* bound: characters typed ahead
    Modifiers  \* the keys held while others are typed: subset of {"shift", "rshift", "ctrl", "meta"}

VARIABLES
    console,   \* the unit of cn_tab
    push, pop, \* rb_push and rb_pop, as offsets in rb_buf
    rbuf,      \* rb_buf
    shift, ctrl, meta, \* shift_flag, ctrl_flag, meta_flag
    getc,      \* "idle", the unit that _siointr() serves, or "pop"
    fifo,      \* external: what the chip holds, per channel
    held,      \* external: the modifier keys that are down
    unread,    \* history: the characters typed at the console and not returned
    lost       \* history: the chip has been overrun

flagVars == <<shift, ctrl, meta>>
rbufVars == <<push, pop, rbuf>>
lineVars == <<fifo, held, unread, lost>>
consoleVars == <<console, rbufVars, flagVars, getc, lineVars>>

Unit == {"sio", "kbd"}   \* 0 and 1
\* the character of the key "a" with the flags of kbd_decode(): 0x80 of META is lost
\* when CTRL is held
Chars == {"a", "A", "^A", "M-a", "M-A"}
Char(s, c, m) ==
    CASE c      -> "^A"
      [] m /\ ~c -> IF s THEN "M-A" ELSE "M-a"
      [] OTHER  -> IF s THEN "A" ELSE "a"
Nothing == "nothing"    \* KC_IGNORE
\* what the keyboard sends; bit 7 is that of the key going up
Codes == [key : Modifiers \cup {"a"}, up : BOOLEAN]

TypeOK ==
    /\ console \in Unit
    /\ push \in [Unit -> 1..RbufSize] /\ pop \in [Unit -> 1..RbufSize]
    /\ rbuf \in [Unit -> [0..RbufSize -> Chars]]
    /\ shift \in BOOLEAN /\ ctrl \in BOOLEAN /\ meta \in BOOLEAN
    /\ getc \in Unit \cup {"idle", "pop"}
    /\ \A u \in Unit : Len(fifo[u]) <= SioFifo
    /\ held \subseteq Modifiers /\ unread \in Seq(Chars) /\ lost \in BOOLEAN

\* cninit(): bmccnprobe() looks at the dip switch and for a frame buffer
Cninit == console \in Unit

\* sioinit()
Init ==
    /\ Cninit
    /\ push = [u \in Unit |-> RbufSize] /\ pop = [u \in Unit |-> RbufSize]
    /\ rbuf = [u \in Unit |-> [i \in 0..RbufSize |-> "a"]]
    /\ shift = FALSE /\ ctrl = FALSE /\ meta = FALSE
    /\ getc = "idle"
    /\ fifo = [u \in Unit |-> <<>>] /\ held = {} /\ unread = <<>> /\ lost = FALSE

-----------------------------------------------------------------------------
(* The line and the keyboard                                                *)

\* a character that means ch arrives at unit u
Arrive(u, c, ch) ==
    /\ ch # Nothing => Len(unread) < Ahead
    /\ IF Len(fifo[u]) = SioFifo
       THEN lost' = TRUE /\ UNCHANGED <<fifo, unread>>
       ELSE /\ fifo' = [fifo EXCEPT ![u] = Append(@, c)]
            /\ unread' = IF u = console /\ ch # Nothing THEN Append(unread, ch) ELSE unread
            /\ UNCHANGED lost
    /\ UNCHANGED <<console, rbufVars, flagVars, getc>>

\* the channel that is not the console's is served in the same way, but never popped
Line ==
    /\ console = "sio"
    /\ \E ch \in {"a", "A"} : Arrive("sio", [data |-> ch, framing |-> FALSE], ch)
    /\ UNCHANGED held
Break ==
    /\ Arrive("sio", [data |-> "a", framing |-> TRUE], Nothing)
    /\ UNCHANGED held

Shifted == {"shift", "rshift"} \cap held # {}
Press ==
    /\ console = "kbd"
    /\ \E k \in (Modifiers \ held) \cup {"a"} :
        /\ Arrive("kbd", [data |-> [key |-> k, up |-> FALSE], framing |-> FALSE],
                  IF k = "a" THEN Char(Shifted, "ctrl" \in held, "meta" \in held) ELSE Nothing)
        /\ held' = IF k = "a" THEN held ELSE held \cup {k}
Release ==
    /\ console = "kbd"
    /\ \E k \in held \cup {"a"} :
        /\ Arrive("kbd", [data |-> [key |-> k, up |-> TRUE], framing |-> FALSE], Nothing)
        /\ held' = held \ {k}

-----------------------------------------------------------------------------
\* kbd_decode(): the character of a code, and the flags it leaves
Decode(c) == IF c.key = "a" /\ ~c.up THEN Char(shift, ctrl, meta) ELSE Nothing
DecodeFlags(c) ==
    /\ shift' = IF c.key \in {"shift", "rshift"} THEN ~c.up ELSE shift
    /\ ctrl'  = IF c.key = "ctrl" THEN ~c.up ELSE ctrl
    /\ meta'  = IF c.key = "meta" THEN ~c.up ELSE meta

Before(p) == IF p - 1 = 0 THEN RbufSize ELSE p - 1

\* PUSH_RBUF that wraps one early
PushRbufWrong(u, c) ==
    /\ rbuf' = [rbuf EXCEPT ![u][push[u] - 1] = c]
    /\ push' = [push EXCEPT ![u] = IF @ - 1 <= 1 THEN RbufSize ELSE @ - 1]

PushRbuf(u, c) ==
    /\ rbuf' = [rbuf EXCEPT ![u][push[u] - 1] = c]
    /\ push' = [push EXCEPT ![u] = Before(@)]

Getc ==
    /\ getc = "idle" /\ getc' = "sio"
    /\ UNCHANGED <<console, rbufVars, flagVars, lineVars>>

\* siointr() with a character: one with a framing error is neither read nor reset
Siointr ==
    /\ getc \in Unit /\ fifo[getc] # <<>>
    /\ LET c == Head(fifo[getc]) IN
          /\ ~c.framing
          /\ fifo' = [fifo EXCEPT ![getc] = Tail(@)]
          /\ IF getc = "sio"
             THEN PushRbuf("sio", c.data) /\ UNCHANGED flagVars
             ELSE /\ DecodeFlags(c.data)
                  /\ IF Decode(c.data) = Nothing
                     THEN UNCHANGED <<rbuf, push>>
                     ELSE PushRbuf("kbd", Decode(c.data))
    /\ UNCHANGED <<console, pop, getc, held, unread, lost>>

\* ... and without one
SiointrEmpty ==
    /\ getc \in Unit /\ fifo[getc] = <<>>
    /\ getc' = IF getc = "sio" THEN "kbd" ELSE "pop"
    /\ UNCHANGED <<console, rbufVars, flagVars, lineVars>>

\* RBUF_EMPTY, or POP_RBUF
ReturnNone ==
    /\ getc = "pop" /\ push[console] = pop[console]
    /\ getc' = "idle"
    /\ UNCHANGED <<console, rbufVars, flagVars, lineVars>>
PopRbuf ==
    /\ getc = "pop" /\ push[console] # pop[console]
    /\ getc' = "idle"
    /\ pop' = [pop EXCEPT ![console] = Before(@)]
    /\ unread' = IF unread = <<>> THEN unread ELSE Tail(unread)
    /\ UNCHANGED <<console, push, rbuf, flagVars, fifo, held, lost>>

Next ==
    \/ Line \/ Break \/ Press \/ Release
    \/ Getc \/ Siointr \/ SiointrEmpty \/ ReturnNone \/ PopRbuf

Spec == Init /\ [][Next]_consoleVars

-----------------------------------------------------------------------------
\* what the console's receive buffer holds, from rb_pop down to rb_push
Buffered ==
    LET n == (pop[console] - push[console]) % RbufSize
        at(i) == (pop[console] - 1 - i) % RbufSize
    IN  [i \in 1..n |-> rbuf[console][at(i - 1)]]

\* The characters not returned yet are those of the buffer, then those the chip holds:
\* they come in the order they were typed, each with the modifiers held at that time,
\* although codes are decoded later, unless the chip is overrun.
KeysInOrder ==
    ~lost /\ Len(fifo[console]) = 0 => Buffered = unread
=============================================================================
