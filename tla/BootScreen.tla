----------------------------- MODULE BootScreen -----------------------------
(***************************************************************************)
(* The boot loader's bitmap console (src/stand/boot/bmd.c).  A character   *)
(* is 12 bits wide: four of them share three 16-bit words of a scan line,  *)
(* which are read from one plane and written to all.  One scan line stands *)
(* for the 20 of a row of text, and a word is the set of its bits, the     *)
(* leftmost being 15.  bl_end, bc_col and bmd_escape_1() have no effect.   *)
(***************************************************************************)
EXTENDS Integers

CONSTANTS
    Xmin, Xmax, \* bc_xmin and bc_xmax: columns are Xmin..(Xmax - 1)
    Ymin, Ymax, \* bc_ymin and bc_ymax
    Font        \* bmdfont of the printable characters: subsets of 4..15

VARIABLES
    col, row,  \* bl_col and bc_row
    escape,    \* STAT_ESCAPE
    handler,   \* bc_escape
    esc,       \* bc_esc - bc_escseq
    plane,     \* the scan lines of the rows
    text       \* history: what a terminal shows: the glyph of each cell

cursorVars == <<col, row>>
escVars    == <<escape, handler, esc>>
screenVars == <<cursorVars, escVars, plane, text>>

Rows  == Ymin..(Ymax - 1)
Cols  == Xmin..(Xmax - 1)
Words == 0..((Xmax * 12) \div 16)
Bits  == 0..15
Esclen == 8     \* bc_escseq
Tab   == 8
Blank == {}     \* bmdfont[0]

TypeOK ==
    /\ col \in Cols /\ row \in Rows
    /\ escape \in BOOLEAN /\ handler \in {"escape", "escape_0"} /\ esc \in 0..Esclen
    /\ plane \in [Rows -> [Words -> SUBSET Bits]]
    /\ text \in [Rows -> [Cols -> SUBSET (4..15)]]

-----------------------------------------------------------------------------
(* Characters in a scan line.  w is the first word of a group of four.      *)

Shift(bits, n) == {b + n : b \in bits}      \* << n, and >> -n

\* a 16-bit word with the bits of mask from new, the others from old
Merge(old, mask, new) == (old \ mask) \cup (new \cap mask)

\* bmd_draw_char() that does not keep what its left neighbour has in the word
DrawCharWrong(line, c, f) ==
    LET w == (c \div 4) * 3
    IN  CASE c % 4 = 0 -> [line EXCEPT ![w] = Merge(@, 4..15, f)]
          [] c % 4 = 1 -> [line EXCEPT ![w] = Merge(@, 0..3, Shift(f, -12)),
                                       ![w + 1] = Merge(@, 8..15, Shift(f, 4))]
          [] c % 4 = 2 -> [line EXCEPT ![w + 1] = Shift(f, -8) \cap 0..7,
                                       ![w + 2] = Merge(@, 12..15, Shift(f, 8))]
          [] c % 4 = 3 -> [line EXCEPT ![w + 2] = Merge(@, 0..11, Shift(f, -4))]

\* bmd_draw_char(), bmd_erase_char() with the glyph Blank
DrawChar(line, c, f) ==
    LET w == (c \div 4) * 3
    IN  CASE c % 4 = 0 -> [line EXCEPT ![w] = Merge(@, 4..15, f)]
          [] c % 4 = 1 -> [line EXCEPT ![w] = Merge(@, 0..3, Shift(f, -12)),
                                       ![w + 1] = Merge(@, 8..15, Shift(f, 4))]
          [] c % 4 = 2 -> [line EXCEPT ![w + 1] = Merge(@, 0..7, Shift(f, -8)),
                                       ![w + 2] = Merge(@, 12..15, Shift(f, 8))]
          [] c % 4 = 3 -> [line EXCEPT ![w + 2] = Merge(@, 0..11, Shift(f, -4))]

\* bmd_reverse_char()
ReverseChar(line, c) ==
    LET w == (c \div 4) * 3
        Not(word) == Bits \ word
    IN  CASE c % 4 = 0 -> [line EXCEPT ![w] = Merge(@, 4..15, Not(@))]
          [] c % 4 = 1 -> [line EXCEPT ![w] = Merge(@, 0..3, Not(@)),
                                       ![w + 1] = Merge(@, 8..15, Not(@))]
          [] c % 4 = 2 -> [line EXCEPT ![w + 1] = Merge(@, 0..7, Not(@)),
                                       ![w + 2] = Merge(@, 12..15, Not(@))]
          [] c % 4 = 3 -> [line EXCEPT ![w + 2] = Merge(@, 0..11, Not(@))]

EmptyLine == [w \in Words |-> {}]

\* bmd_scroll_screen()
Scrolled(rows, empty) ==
    [r \in Rows |-> IF r = Ymax - 1 THEN empty ELSE rows[r + 1]]

-----------------------------------------------------------------------------
(* bmdputc().  Off is the plane without the cursor, where it starts; every *)
(* action turns the cursor on again where it leaves it.                    *)

Off == [plane EXCEPT ![row] = ReverseChar(@, col)]
On(p) == plane' = [p EXCEPT ![row'] = ReverseChar(@, col')]

Drawn(p, r, c, f) == [p EXCEPT ![r] = DrawChar(@, c, f)]

\* the row below r, scrolling at the end of the screen
LineFeed(p, t) ==
    IF row + 1 >= Ymax
    THEN row' = Ymax - 1 /\ On(Scrolled(p, EmptyLine)) /\ text' = Scrolled(t, [c \in Cols |-> Blank])
    ELSE row' = row + 1 /\ On(p) /\ text' = t

PutPrintable ==
    /\ ~escape
    /\ \E ch \in DOMAIN Font :
          LET p == Drawn(Off, row, col, Font[ch])
              t == [text EXCEPT ![row][col] = Font[ch]]
          IN  IF col + 1 >= Xmax
              THEN col' = Xmin /\ LineFeed(p, t)
              ELSE col' = col + 1 /\ row' = row /\ On(p) /\ text' = t
    /\ UNCHANGED escVars

Move(c, r) == col' = c /\ row' = r /\ On(Off) /\ UNCHANGED <<text, escVars>>

Backspace == ~escape /\ Move(IF col > Xmin THEN col - 1 ELSE col, row)
Return    == ~escape /\ Move(Xmin, row)
\* HT and VT
Tabulate  == ~escape /\ LET i == ((col \div Tab) + 1) * Tab
                        IN  Move(IF i < Xmax THEN i ELSE col, row)
Newline   == ~escape /\ col' = col /\ LineFeed(Off, text) /\ UNCHANGED escVars

Delete ==
    /\ ~escape /\ col > Xmin
    /\ col' = col - 1 /\ row' = row
    /\ On(Drawn(Off, row, col - 1, Blank))
    /\ text' = [text EXCEPT ![row][col - 1] = Blank]
    /\ UNCHANGED escVars

Escape ==
    /\ ~escape
    /\ escape' = TRUE /\ esc' = esc + 1
    /\ UNCHANGED <<cursorVars, handler, text>>
    /\ On(Off)

\* ... that goes on in the buffer
EndEscapeWrong == escape' = FALSE /\ handler' = "escape" /\ UNCHANGED esc
EndEscape == escape' = FALSE /\ esc' = 0 /\ handler' = "escape"

\* bmd_escape(): only "[" goes on
EscBracket ==
    /\ escape /\ handler = "escape"
    /\ handler' = "escape_0" /\ esc' = esc + 1
    /\ UNCHANGED <<cursorVars, escape, text>>
    /\ On(Off)
EscOther ==
    /\ escape
    /\ UNCHANGED <<cursorVars, text>>
    /\ EndEscape /\ On(Off)

\* bmd_escape_0(): cursor up, right, home
EscMove ==
    /\ escape /\ handler = "escape_0"
    /\ \/ row > Ymin /\ row' = row - 1 /\ col' = col
       \/ col < Xmax - 1 /\ col' = col + 1 /\ row' = row
       \/ col' = Xmin /\ row' = Ymin
    /\ EndEscape /\ On(Off)
    /\ UNCHANGED text

\* the line after an erase up to the end from column c on
ErasedFrom(line) ==
    LET erase[c \in col..Xmax] == IF c = col THEN line ELSE DrawChar(erase[c - 1], c - 1, Blank)
    IN  erase[Xmax]

EscErase ==
    /\ escape /\ handler = "escape_0"
    /\ EndEscape /\ UNCHANGED cursorVars
    /\ On([Off EXCEPT ![row] = ErasedFrom(@)])
    /\ text' = [text EXCEPT ![row] = [c \in Cols |-> IF c < col THEN @[c] ELSE Blank]]

\* bmdinit()
Init ==
    /\ col = Xmin /\ row = Ymin
    /\ escape = FALSE /\ handler = "escape" /\ esc = 0
    /\ text = [r \in Rows |-> [c \in Cols |-> Blank]]
    /\ plane = [r \in Rows |-> IF r = Ymin THEN ReverseChar(EmptyLine, Xmin) ELSE EmptyLine]

Bmdputc ==
    \/ PutPrintable \/ Backspace \/ Return \/ Tabulate \/ Newline \/ Delete
    \/ Escape \/ EscBracket \/ EscOther \/ EscMove \/ EscErase
Next == Bmdputc

Spec == Init /\ [][Next]_screenVars

-----------------------------------------------------------------------------
\* the glyph that the pixels of a cell show, from its 12 pixels on
Shown(r, c) ==
    LET At(k) == c * 12 + k
    IN  {15 - k : k \in {i \in 0..11 : 15 - (At(i) % 16) \in plane[r][At(i) \div 16]}}

\* The pixels are those of the text that has been written, moved, erased and scrolled,
\* reversed in the cursor's cell and nowhere else: words that two characters share keep
\* the other one, and the cursor goes off where it came on.
ScreenShowsText ==
    \A r \in Rows, c \in Cols :
        Shown(r, c) = IF r = row /\ c = col THEN (4..15) \ text[r][c] ELSE text[r][c]
=============================================================================
