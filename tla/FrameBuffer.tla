----------------------------- MODULE FrameBuffer -----------------------------
(***************************************************************************)
(* The frame buffer's device (src/dev/lunafb.c): the probe of the planes,  *)
(* the console's attachment, the pseudo depth, and the colour map, of      *)
(* which the driver keeps a copy.                                          *)
(*                                                                         *)
(* A board has 1, 4 or 8 planes and a RAMDAC of Dac(board) entries; the    *)
(* sizes of the maps are scaled down.  What is drawn is Raster's.  The     *)
(* board, the RAMDAC, wsdisplay and the programs that own the display are  *)
(* external.                                                               *)
(***************************************************************************)
EXTENDS Naturals

CONSTANTS
    Size4, Size8,   \* entries for 4 and for 8 planes, 16 and 256
    Colours         \* colours a program sets, numbers

VARIABLES
    board,          \* planes that are there
    hwplanebits,    \* what the boot code says, then what the probe finds
    checked,        \* dc_depth_checked
    fbstate,        \* "none", "console" after omfb_cnattach(), "attached"
    dcdepth, cmsize,    \* dc_depth and dc_cmsize
    soft,           \* dc_cmap
    dac,            \* the RAMDAC's map
    nscreens,
    got             \* what the last GETCMAP returned: first entry and colours

fbVars == <<board, hwplanebits, checked, fbstate, dcdepth, cmsize, soft, dac, nscreens, got>>

Entries(bits) == IF bits = 8 THEN Size8 ELSE Size4
Slot   == 0..Size8 - 1
Colour == ({"set"} \X Colours) \cup ({"ansi"} \X (0..Size4 - 1)) \cup ({"mono"} \X {0, 1}) \cup {<<"unset", 0>>}

\* dc_cmsize of a depth
Cmsize(d) == IF d = 1 THEN 0 ELSE Entries(d)

TypeOK ==
    /\ {board, hwplanebits} \subseteq {1, 4, 8} /\ dcdepth \in {0, 1, 4, 8}
    /\ fbstate \in {"none", "console", "attached"} /\ checked \in BOOLEAN
    /\ cmsize \in {0, Size4, Size8} /\ nscreens \in 0..1
    /\ \A i \in Slot : {soft[i]} \cup {dac[i]} \subseteq Colour

Init ==
    /\ board \in {1, 4, 8} /\ hwplanebits \in {1, 4, 8}
    /\ checked = FALSE /\ fbstate = "none"
    /\ dcdepth = 0 /\ cmsize = 0 /\ nscreens = 0
    /\ soft = [i \in Slot |-> <<"unset", 0>>] /\ dac = [i \in Slot |-> <<"unset", 0>>]
    /\ got = [index |-> 0, map |-> <<>>]

(***************************************************************************)
(* omfb_set_default_cmap(): white on black, or the ANSI colours, repeated. *)
(***************************************************************************)
Default(d, i) == IF d = 1 THEN <<"mono", i % 2>> ELSE <<"ansi", i % Size4>>

DefaultCmap(bits, d) ==
    /\ soft' = [i \in Slot |-> IF i < Entries(bits) THEN Default(d, i) ELSE soft[i]]
    /\ dac'  = [i \in Slot |-> IF i < Entries(bits) THEN Default(d, i) ELSE dac[i]]

(***************************************************************************)
(* omfb_getdevconfig(), for the console or when the device attaches, and   *)
(* omfb_alloc_screen() and omfb_free_screen().                             *)
(***************************************************************************)
\* The first plane that does not hold what is written ends the probe.
Probe == IF checked THEN hwplanebits ELSE board

Getdevconfig ==
    /\ hwplanebits' = Probe /\ checked' = TRUE
    /\ dcdepth' = Probe /\ cmsize' = Cmsize(Probe)
    /\ DefaultCmap(Probe, Probe)

OmfbCnattach ==
    /\ fbstate = "none" /\ fbstate' = "console"
    /\ Getdevconfig
    /\ UNCHANGED <<board, nscreens, got>>

Omfbattach ==
    /\ fbstate # "attached" /\ fbstate' = "attached"
    /\ IF fbstate = "console"
       THEN nscreens' = 1 /\ UNCHANGED <<hwplanebits, checked, dcdepth, cmsize, soft, dac>>
       ELSE Getdevconfig /\ UNCHANGED nscreens
    /\ UNCHANGED <<board, got>>

AllocScreen ==
    /\ fbstate = "attached" /\ nscreens = 0 /\ nscreens' = 1
    /\ UNCHANGED <<board, hwplanebits, checked, fbstate, dcdepth, cmsize, soft, dac, got>>

FreeScreen ==
    /\ fbstate = "attached" /\ nscreens = 1 /\ nscreens' = 0
    /\ UNCHANGED <<board, hwplanebits, checked, fbstate, dcdepth, cmsize, soft, dac, got>>

(***************************************************************************)
(* omgetcmap() and omsetcmap(): count entries from index on, in three      *)
(* copies of which the second or third may fail.                           *)
(***************************************************************************)
Allowed(index, count) == cmsize # 0 /\ index < cmsize /\ count <= cmsize - index

Part(index, count) == {i \in Slot : index <= i /\ i < index + count}

Omgetcmap ==
    \E index \in Slot, count \in 0..Size8 :
       /\ fbstate = "attached" /\ Allowed(index, count)
       /\ got' = [index |-> index, map |-> [i \in 1..count |-> soft[index + i - 1]]]
       /\ UNCHANGED <<board, hwplanebits, checked, fbstate, dcdepth, cmsize, soft, dac, nscreens>>

\* copyin() from a bad address: EFAULT, and nothing is set.
OmsetcmapWrong ==
    \E index \in Slot, count \in 0..Size8, c \in Colours, bad \in BOOLEAN :
       /\ fbstate = "attached" /\ Allowed(index, count)
       /\ soft' = [i \in Slot |-> IF i \in Part(index, count) THEN <<"set", c>> ELSE soft[i]]
       /\ dac'  = [i \in Slot |-> IF ~bad /\ i \in Part(index, count) THEN <<"set", c>> ELSE dac[i]]
       /\ UNCHANGED <<board, hwplanebits, checked, fbstate, dcdepth, cmsize, nscreens, got>>

Omsetcmap ==
    \E index \in Slot, count \in 0..Size8, c \in Colours, bad \in BOOLEAN :
       /\ fbstate = "attached" /\ Allowed(index, count)
       /\ soft' = [i \in Slot |-> IF ~bad /\ i \in Part(index, count) THEN <<"set", c>> ELSE soft[i]]
       /\ dac'  = [i \in Slot |->
                      IF ~bad /\ hwplanebits # 1 /\ i \in Part(index, count) THEN soft'[i] ELSE dac[i]]
       /\ UNCHANGED <<board, hwplanebits, checked, fbstate, dcdepth, cmsize, nscreens, got>>

\* WSDISPLAYIO_SETGFXMODE; a depth the board does not have is refused.
SetGfxmode ==
    \E d \in {0, 1, 4, 8} :
       LET depth == IF d = 0 THEN hwplanebits ELSE d
       IN  /\ fbstate = "attached" /\ (depth = 4 => hwplanebits # 1) /\ (depth = 8 => hwplanebits = 8)
           /\ dcdepth' = depth /\ cmsize' = Cmsize(depth)
           /\ DefaultCmap(hwplanebits, depth)
           /\ UNCHANGED <<board, hwplanebits, checked, fbstate, nscreens, got>>

Next ==
    \/ OmfbCnattach \/ Omfbattach \/ AllocScreen \/ FreeScreen
    \/ Omgetcmap \/ Omsetcmap \/ SetGfxmode

Spec == Init /\ [][Next]_fbVars

-----------------------------------------------------------------------------
(***************************************************************************)
(* A program that saves the colour map, sets its own and restores what it  *)
(* saved gives the display back as it was: the copy GETCMAP reads is what  *)
(* the RAMDAC shows, for every entry of the current depth, also after a    *)
(* PUTCMAP that failed half way, after the depth was changed to fewer      *)
(* planes than the board has and back, and whatever the boot code said of  *)
(* the board.                                                              *)
(***************************************************************************)
CopyIsShown ==
    fbstate # "none" => cmsize = Cmsize(dcdepth) /\ dcdepth <= board /\ \A i \in 0..cmsize - 1 : soft[i] = dac[i]
=============================================================================
