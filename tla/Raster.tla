------------------------------- MODULE Raster -------------------------------
(***************************************************************************)
(* Text on the frame buffer (src/dev/omrasops.c, src/dev/omrasops1.c): the *)
(* wscons emulation operations in terms of words that hold the pixels of   *)
(* two or three characters, and block moves between overlapping spans.     *)
(*                                                                         *)
(* A character is one scan line high, a plane is a function from lines and *)
(* positions to bits, and a word is Word positions, the first being its    *)
(* leftmost bit.  rasops and wsdisplay are external: ri_xorigin is a       *)
(* multiple of Word, and a cursor is taken away before anything is drawn.  *)
(***************************************************************************)
EXTENDS Integers, Sequences

CONSTANTS
    Word,       \* BLITWIDTH, 32
    FontWidth,  \* ri_font->fontwidth, 12
    Xorigin,    \* ri_xorigin
    Ncols, Nrows,
    Nplanes,    \* planes om4_putchar() draws in, 4
    Font,       \* glyphs: functions from 0..FontWidth - 1 to bits
    Attrs,      \* pairs of the colours unpack_attr() gives, fg and bg, as sets of their bits
    Texts,      \* what may be on the screen in the beginning
    MaxOps      \* operations of a behaviour of the instance

VARIABLES
    depth,   \* 1 or 4: which of setup_omrasops1() and setup_omrasops4() was called
    planes,  \* the planes, in which R() and W() or P0() .. P3() are
    cursor,  \* RI_CURSOR
    ccrow, cccol, \* ri_crow and ri_ccol
    cells,   \* history: the glyph and the colours of every character
    lost,    \* history: a move on one plane has lost its pointer to the destination
    ops      \* operations so far

rasterVars == <<depth, planes, cursor, ccrow, cccol, cells, lost, ops>>

RowsOf  == 0..(Nrows - 1)
ColsOf  == 0..(Ncols - 1)
Stride  == ((Xorigin + Ncols * FontWidth) \div Word + 1) * Word
PlaneOf == IF depth = 1 THEN {0} ELSE 0..(Nplanes - 1)
Bit     == {0, 1}
Screen  == [RowsOf -> [0..(Stride - 1) -> Bit]]
Plain   == [p \in 0..(FontWidth - 1) |-> 0]
Black   == <<{0}, {}>>  \* the attribute whose background is 0

TypeOK ==
    /\ depth \in {1, 4} /\ planes \in [PlaneOf -> Screen]
    /\ cursor \in BOOLEAN /\ ccrow \in RowsOf /\ cccol \in ColsOf
    /\ cells \in [RowsOf -> [ColsOf -> [0..(FontWidth - 1) -> Bit] \X (Attrs \cup {Black})]]
    /\ lost \in BOOLEAN /\ ops \in 0..MaxOps

-----------------------------------------------------------------------------
(* Colours and what they look like.                                         *)

HasBit(colour, p) == IF p \in colour THEN 1 ELSE 0

\* om1_putchar(): (glyph ^ inverse)
Om1Bit(bit, attr) == IF attr[2] # {} THEN 1 - bit ELSE bit

\* om4_putchar(): fgpat | bgpat
Om4Bit(bit, attr, p) == IF bit = 1 THEN HasBit(attr[1], p) ELSE HasBit(attr[2], p)

Colour(p, bit, attr) == IF depth = 1 THEN Om1Bit(bit, attr) ELSE Om4Bit(bit, attr, p)

\* what a terminal shows at a position of a plane
Painted(p, row, x) ==
    LET col  == (x - Xorigin) \div FontWidth
        cell == cells[row][col]
        bit  == Colour(p, cell[1][(x - Xorigin) % FontWidth], cell[2])
    IN  IF x < Xorigin \/ col \notin ColsOf THEN 0
        ELSE IF cursor /\ row = ccrow /\ col = cccol THEN 1 - bit ELSE bit

\* On a screen that has been cleared, and perhaps written on.
Init ==
    /\ depth \in {1, 4} /\ cells \in Texts
    /\ cursor = FALSE /\ ccrow = 0 /\ cccol = 0 /\ lost = FALSE /\ ops = 0
    /\ planes = [p \in PlaneOf |-> [row \in RowsOf |-> [x \in 0..(Stride - 1) |-> Painted(p, row, x)]]]

-----------------------------------------------------------------------------
(* Spans of a line (maskbits.h).                                            *)

\* getandputrop(): w bits, at most a word, from one place to another
GetAndPut(from, line, s, d, w, rop) ==
    [x \in DOMAIN line |->
        IF x \in d..(d + w - 1) THEN (IF rop = "clear" THEN 0 ELSE from[s + x - d]) ELSE line[x]]

Copy(s, d, w) == [src |-> s, dst |-> d, w |-> w]
If(cond, step) == IF cond THEN <<step>> ELSE <<>>

\* rasops_lmask[0] is not 0: an aligned span starts with a whole word of its own.
Nstart(dx)       == Word - (dx % Word)
Nend(dx, cx)     == (dx + cx) % Word
NlMiddle(dx, cx) == (cx - Nstart(dx)) \div Word
XoffSrc(sx, dx)  == ((sx % Word) + Nstart(dx)) % Word
SrcStartOver(sx, dx) == IF (sx % Word) + Nstart(dx) >= Word THEN 1 ELSE 0

\* the steps through a line, psrc and pdst being numbers of words
LeftToRight(sx, dx, cx) ==
    LET n    == NlMiddle(dx, cx)
        psrc == sx \div Word + SrcStartOver(sx, dx)
        pdst == dx \div Word + 1
        xoff == XoffSrc(sx, dx)
    IN  <<Copy(sx, dx, Nstart(dx))>>
        \o [i \in 1..n |-> Copy(Word * (psrc + i - 1) + xoff, Word * (pdst + i - 1), Word)]
        \o If(Nend(dx, cx) # 0, Copy(Word * (psrc + n) + xoff, Word * (pdst + n), Nend(dx, cx)))

\* with the test for a boundary off by one
RightToLeftWrong(sx, dx, cx) ==
    LET n    == NlMiddle(dx, cx)
        xoff == XoffSrc(sx, dx)
        psrc == (sx + cx) \div Word - (IF xoff + Nend(dx, cx) > Word THEN 1 ELSE 0)
        pdst == (dx + cx) \div Word
    IN  If(Nend(dx, cx) # 0, Copy(Word * psrc + xoff, Word * pdst, Nend(dx, cx)))
        \o [i \in 1..n |-> Copy(Word * (psrc - i) + xoff, Word * (pdst - i), Word)]
        \o <<Copy(Word * (psrc - n - SrcStartOver(sx, dx)) + (sx % Word),
                  Word * (pdst - n - 1) + (dx % Word), Nstart(dx))>>

RightToLeft(sx, dx, cx) ==
    LET n    == NlMiddle(dx, cx)
        xoff == XoffSrc(sx, dx)
        psrc == (sx + cx) \div Word - (IF xoff + Nend(dx, cx) >= Word THEN 1 ELSE 0)
        pdst == (dx + cx) \div Word
    IN  If(Nend(dx, cx) # 0, Copy(Word * psrc + xoff, Word * pdst, Nend(dx, cx)))
        \o [i \in 1..n |-> Copy(Word * (psrc - i) + xoff, Word * (pdst - i), Word)]
        \o <<Copy(Word * (psrc - n - SrcStartOver(sx, dx)) + (sx % Word),
                  Word * (pdst - n - 1) + (dx % Word), Nstart(dx))>>

\* x direction doesn't matter for < 1 longword
Steps(sx, dx, cx) ==
    IF cx <= Word THEN <<Copy(sx, dx, cx)>>
    ELSE IF sx >= dx THEN LeftToRight(sx, dx, cx) ELSE RightToLeft(sx, dx, cx)

(***************************************************************************)
(* W() casts an address and does not follow it: where om1_windowmove()     *)
(* clears or copies whole words, W(pdst) = 0 and W(pdst) = R(psrc) store   *)
(* nothing and change pdst, for the rest of the line.  om4_windowmove()    *)
(* says *P0(pdst), and getunalignedword() and getandputrop() say *W(pdst). *)
(***************************************************************************)
PointerLost(sx, dx, cx, rop) ==
    /\ cx > Word /\ NlMiddle(dx, cx) > 0
    /\ rop = "clear" \/ (sx >= dx /\ XoffSrc(sx, dx) = 0)

\* What is left then is the step before these words, if there is one.  The step after
\* them goes to addresses around 0, or puts a word of the source where it is already.
Om1Steps(sx, dx, cx, rop) ==
    IF PointerLost(sx, dx, cx, rop)
    THEN If(sx >= dx \/ Nend(dx, cx) # 0, Steps(sx, dx, cx)[1])
    ELSE Steps(sx, dx, cx)

StepsOf(sx, dx, cx, rop) == IF depth = 1 THEN Om1Steps(sx, dx, cx, rop) ELSE Steps(sx, dx, cx)

\* A plane after the steps through one line, each of which finds what the ones before left
MoveLine(plane, src, dst, steps, rop) ==
    LET move[k \in 0..Len(steps)] ==
            IF k = 0 THEN plane
            ELSE LET f == move[k - 1]  c == steps[k]
                 IN  [f EXCEPT ![dst] = GetAndPut(f[src], f[dst], c.src, c.dst, c.w, rop)]
    IN  move[Len(steps)]

\* One line after the other, from the last one if the destination is below.
Line(sy, dy, cy, n) == IF sy < dy THEN cy - n ELSE n - 1

MoveLines(plane, sy, dy, cy, steps, rop) ==
    LET lines[n \in 0..cy] ==
            IF n = 0 THEN plane
            ELSE LET y == Line(sy, dy, cy, n)
                 IN  MoveLine(lines[n - 1], sy + y, dy + y, steps, rop)
    IN  lines[cy]

\* om1_windowmove(), and om4_windowmove() the same in every plane; planemask is ignored
Windowmove(sx, sy, dx, dy, cx, cy, rop) ==
    /\ planes' = [p \in PlaneOf |-> MoveLines(planes[p], sy, dy, cy, StepsOf(sx, dx, cx, rop), rop)]
    /\ lost' = (lost \/ (depth = 1 /\ PointerLost(sx, dx, cx, rop)))

-----------------------------------------------------------------------------
(* Glyphs.  Masks are sets of positions in a word.                          *)

Align(col) == (FontWidth * col) % Word
Wide(col)  == FontWidth + Align(col) > Word
Lmask(col) == Align(col)..(Word - 1)
Rmask(col) == 0..(Word - 1 - ((-(FontWidth + Align(col))) % Word))

\* the positions that are written for a character
Under(col) ==
    LET p == Xorigin + ((FontWidth * col) \div Word) * Word
    IN  IF Wide(col) THEN {p + i : i \in Lmask(col)} \cup {p + Word + i : i \in Rmask(col)}
                     ELSE {p + i : i \in Lmask(col) \cap Rmask(col)}

-----------------------------------------------------------------------------
(* The operations of wscons.                                                *)

Draws ==
    /\ ops < MaxOps /\ ops' = ops + 1
    /\ ~cursor /\ UNCHANGED <<depth, cursor, ccrow, cccol>>

Putchar(row, col, glyph, attr) ==
    /\ Draws
    /\ planes' = [p \in PlaneOf |-> [planes[p] EXCEPT ![row] = [x \in DOMAIN @ |->
          IF x \in Under(col)
          THEN Colour(p, glyph[x - Xorigin - FontWidth * col], attr) ELSE @[x]]]]
    /\ cells' = [cells EXCEPT ![row][col] = <<glyph, attr>>]
    /\ UNCHANGED lost

EraseCols(row, col, num) ==
    /\ Draws
    /\ LET x == Xorigin + col * FontWidth
       IN  Windowmove(x, row, x, row, num * FontWidth, 1, "clear")
    /\ cells' = [cells EXCEPT ![row] = [c \in ColsOf |->
          IF c \in col..(col + num - 1) THEN <<Plain, Black>> ELSE @[c]]]

\* RI_FULLCLEAR is not among ri_flg
EraseRows(row, num) ==
    /\ Draws
    /\ Windowmove(Xorigin, row, Xorigin, row, Ncols * FontWidth, num, "clear")
    /\ cells' = [r \in RowsOf |->
          IF r \in row..(row + num - 1) THEN [c \in ColsOf |-> <<Plain, Black>>] ELSE cells[r]]

CopyRows(src, dst, n) ==
    /\ Draws
    /\ Windowmove(Xorigin, src, Xorigin, dst, Ncols * FontWidth, n, "copy")
    /\ cells' = [r \in RowsOf |-> IF r \in dst..(dst + n - 1) THEN cells[src + r - dst] ELSE cells[r]]

CopyCols(row, src, dst, n) ==
    /\ Draws
    /\ Windowmove(Xorigin + src * FontWidth, row, Xorigin + dst * FontWidth, row, n * FontWidth, 1, "copy")
    /\ cells' = [cells EXCEPT ![row] = [c \in ColsOf |->
          IF c \in dst..(dst + n - 1) THEN @[src + c - dst] ELSE @[c]]]

Inverted(row, col) ==
    planes' = [p \in PlaneOf |-> [planes[p] EXCEPT ![row] = [x \in DOMAIN @ |->
        IF x \in Under(col) THEN 1 - @[x] ELSE @[x]]]]

\* om1_cursor() and om4_cursor(), on and off
CursorOn(row, col) ==
    /\ ~cursor /\ cursor' = TRUE /\ ccrow' = row /\ cccol' = col
    /\ Inverted(row, col)
    /\ UNCHANGED <<depth, cells, lost, ops>>

CursorOffWrong(row, col) ==
    /\ cursor /\ cursor' = FALSE
    /\ Inverted(row, col)
    /\ UNCHANGED <<depth, ccrow, cccol, cells, lost, ops>>

\* wherever it is said to be
CursorOff(row, col) ==
    /\ cursor /\ cursor' = FALSE
    /\ Inverted(ccrow, cccol)
    /\ UNCHANGED <<depth, ccrow, cccol, cells, lost, ops>>

Next ==
    \E row \in RowsOf, col \in ColsOf :
        \/ \E glyph \in Font, attr \in Attrs : Putchar(row, col, glyph, attr)
        \/ \E num \in 1..(Ncols - col) : EraseCols(row, col, num)
        \/ \E num \in 1..(Nrows - row) : EraseRows(row, num)
        \/ \E dst \in RowsOf : \E n \in 1..(Nrows - (IF dst > row THEN dst ELSE row)) : CopyRows(row, dst, n)
        \/ \E dst \in ColsOf : \E n \in 1..(Ncols - (IF dst > col THEN dst ELSE col)) : CopyCols(row, col, dst, n)
        \/ CursorOn(row, col) \/ CursorOff(row, col)

Spec == Init /\ [][Next]_rasterVars

-----------------------------------------------------------------------------
Shown ==
    \A p \in PlaneOf, row \in RowsOf : \A x \in 0..(Stride - 1) :
        planes[p][row][x] = Painted(p, row, x)

\* What is on the screen is the text, whatever was drawn, erased and moved, with
\* exactly the character under the cursor inverted: characters cross words, moves
\* overlap, and the margins stay black.  On one plane it is so as long as no move has
\* lost its pointer.
DisplayShowsText == depth = 4 \/ ~lost => Shown

\* A screen of one plane shows the text after every move, also these of whole words,
\* which omrasops1.c calls aligned operations and handles on their own.  The code does
\* not keep this: it stores nothing in these words.
Om1ShowsText == depth = 1 => Shown
=============================================================================
