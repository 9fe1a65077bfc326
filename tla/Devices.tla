------------------------------ MODULE Devices ------------------------------
(***************************************************************************)
(* The kernel's smaller parts, which share nothing but the processors: the *)
(* start of these, disk labels, the frame buffer and what is drawn in it,  *)
(* the keyboard and mouse, the time of day and the LCD.  A behaviour is    *)
(* one of one part, the others staying in an initial state.                *)
(***************************************************************************)
EXTENDS Hatch, Sequences

CONSTANTS
    LabelWidth, Edits, Sectors,                             \* of DiskLabel
    Word, FontWidth, Xorigin, Ncols, Nrows, Nplanes,        \* of Raster
    Font, Attrs, Texts, MaxDraws,
    Size4, Size8, Colours,                                  \* of FrameBuffer
    Fifo, Deltas,                                           \* of Lunaws
    Times, Base,                                            \* of TimeOfDay
    LineLen, LcdWidth, MaxBufLen, Message1, Message2,       \* of Lcd
    Chars, MaxOps

VARIABLES
    part, \* the part that moves
    sector, lp, error, bootlp, msg, seen, saved,
    depth, planes, cursor, ccrow, cccol, cells, lost, ops,
    board, hwplanebits, checked, fbstate, dcdepth, cmsize, soft, dac, nscreens, got,
    sending, reporting, asked, reset, line, msreport, report, pos, faulted, lies,
    machine, todchip, up, todrvalid, time, base, battery, right,
    opened, doing, bytes, ddram, addr, shift, entry, shown, busy, done

labelVars  == <<sector, lp, error, bootlp, msg, seen, saved>>
rasterVars == <<depth, planes, cursor, ccrow, cccol, cells, lost, ops>>
fbVars     == <<board, hwplanebits, checked, fbstate, dcdepth, cmsize, soft, dac, nscreens, got>>
lunawsVars == <<sending, reporting, asked, reset, line, msreport, report, pos, faulted, lies>>
clockVars  == <<machine, todchip, up, todrvalid, time, base, battery, right>>
lcdVars    == <<opened, doing, bytes, ddram, addr, shift, entry, shown, busy, done>>
devicesVars == <<part, vars, labelVars, rasterVars, fbVars, lunawsVars, clockVars, lcdVars>>

Labels  == INSTANCE DiskLabel WITH Width <- LabelWidth
Text    == INSTANCE Raster WITH MaxOps <- MaxDraws
Display == INSTANCE FrameBuffer
Keys    == INSTANCE Lunaws
Tod     == INSTANCE TimeOfDay WITH chip <- todchip
Panel   == INSTANCE Lcd WITH Width <- LcdWidth

\* disklabel(8) leaves partition c alone: checkdisklabel() makes it the whole disk.
ASSUME LabelAssumption ==
    /\ LabelWidth \in Nat \ {0}
    /\ Edits \subseteq (Labels!Parts \ {"c"}) \X [off : Nat, size : Nat, type : Labels!Types]
    /\ Sectors \subseteq Labels!SectorType /\ Sectors # {}

\* A character is not wider than a word, and the screen begins at a word.
ASSUME TextAssumption ==
    /\ Word \in Nat \ {0} /\ FontWidth \in 1..Word /\ Xorigin \in Nat /\ Xorigin % Word = 0
    /\ Ncols \in Nat \ {0} /\ Nrows \in Nat \ {0} /\ Nplanes \in Nat \ {0} /\ MaxDraws \in Nat
    /\ Font \subseteq [0..(FontWidth - 1) -> {0, 1}] /\ Attrs \subseteq (SUBSET Nat) \X (SUBSET Nat)
    /\ Texts \subseteq [0..(Nrows - 1) -> [0..(Ncols - 1) ->
                         [0..(FontWidth - 1) -> {0, 1}] \X (Attrs \cup {Text!Black})]]
    /\ Texts # {}

\* The maps of four planes and of eight
ASSUME DisplayAssumption == Size4 \in Nat \ {0} /\ Size8 \in Nat /\ Size4 <= Size8

\* No delta of the mouse is from -128 to -121, which would look like a first byte.
ASSUME KeysAssumption == Fifo \in Nat \ {0} /\ Deltas \subseteq {"press", "release"}

\* The months the two digits of the chip's year can tell apart
ASSUME TodAssumption ==
    /\ Times["88k"] \subseteq 0..1199 /\ Times["88k2"] \subseteq 240..1439
    /\ Base \in Times["88k"] \cap Times["88k2"]

\* The messages are as long as what is shown of a line, which is not all of it.
ASSUME PanelAssumption ==
    /\ LineLen \in Nat /\ LcdWidth \in Nat /\ 0 < LcdWidth /\ LcdWidth <= LineLen
    /\ MaxBufLen \in Nat /\ MaxOps \in Nat
    /\ Message1 \in Seq(Chars) /\ Message2 \in Seq(Chars)
    /\ Len(Message1) = LcdWidth /\ Len(Message2) = LcdWidth

Parts == {"start", "label", "text", "display", "keys", "tod", "panel"}

\* The parts that have a choice of initial states make it only where they move.
DevicesInit ==
    /\ part \in Parts
    /\ Init /\ Labels!Init /\ Text!Init /\ Display!Init /\ Keys!Init /\ Tod!Init /\ Panel!Init
    /\ part # "label" => sector = CHOOSE s \in Sectors : TRUE
    /\ part # "text" => depth = 1 /\ cells = CHOOSE t \in Texts : TRUE
    /\ part # "display" => board = 1 /\ hwplanebits = 1
    /\ part # "tod" => machine = "88k" /\ right = CHOOSE t \in Times["88k"] : TRUE
    /\ part # "panel" => shift = 0 /\ entry = [step |-> 1, window |-> 0] /\ shown

StartMoves ==
    part = "start" /\ Next /\ UNCHANGED <<labelVars, rasterVars, fbVars, lunawsVars, clockVars, lcdVars>>
LabelMoves ==
    part = "label" /\ Labels!Next /\ UNCHANGED <<vars, rasterVars, fbVars, lunawsVars, clockVars, lcdVars>>
TextMoves ==
    part = "text" /\ Text!Next /\ UNCHANGED <<vars, labelVars, fbVars, lunawsVars, clockVars, lcdVars>>
DisplayMoves ==
    part = "display" /\ Display!Next /\ UNCHANGED <<vars, labelVars, rasterVars, lunawsVars, clockVars, lcdVars>>
KeysMoves ==
    part = "keys" /\ Keys!Next /\ UNCHANGED <<vars, labelVars, rasterVars, fbVars, clockVars, lcdVars>>
TodMoves ==
    part = "tod" /\ Tod!Next /\ UNCHANGED <<vars, labelVars, rasterVars, fbVars, lunawsVars, lcdVars>>
PanelMoves ==
    part = "panel" /\ Panel!Next /\ UNCHANGED <<vars, labelVars, rasterVars, fbVars, lunawsVars, clockVars>>

DevicesNext ==
    /\ UNCHANGED part
    /\ StartMoves \/ LabelMoves \/ TextMoves \/ DisplayMoves \/ KeysMoves \/ TodMoves \/ PanelMoves

\* Fairness, where the processors start
DevicesFairness ==
    \A c \in Cpus :
       /\ WF_vars(part = "start" /\ Main(c)) /\ WF_vars(part = "start" /\ Secondary(c))
       /\ WF_vars(part = "start" /\ Elect(c))
       /\ SF_vars(part = "start" /\ LockHatch(c)) /\ SF_vars(part = "start" /\ LockBoot(c))

DevicesSpec ==
    /\ DevicesInit
    /\ [][DevicesNext]_devicesVars
    /\ DevicesFairness

\* AllHatched, and AllStart of the behaviours in which they do
ProcessorsStart == []AllHatched /\ (part = "start" => AllStart)

DevicesTypeOK ==
    /\ TypeOK /\ Labels!TypeOK /\ Text!TypeOK /\ Display!TypeOK /\ Keys!TypeOK /\ Tod!TypeOK /\ Panel!TypeOK
LabelSurvives        == Labels!LabelSurvives
ReadersAgree         == Labels!ReadersAgree
KeepsUniOs           == Labels!KeepsUniOs \* not kept by the code: devices_drop.cfg
DisplayShowsText     == Text!DisplayShowsText
Om1ShowsText         == Text!Om1ShowsText \* likewise
CopyIsShown          == Display!CopyIsShown
FindsReports         == Keys!FindsReports
TimeIsKept           == Tod!TimeIsKept
RestoreShowsMessages == Panel!RestoreShowsMessages
=============================================================================
