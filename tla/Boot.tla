-------------------------------- MODULE Boot --------------------------------
(***************************************************************************)
(* The boot loader's parts, which share nothing but the processor: a       *)
(* behaviour is one of one part, the others staying in an initial state.   *)
(***************************************************************************)
EXTENDS BootScsi, FiniteSets, Sequences

CONSTANTS
    Lerbuf, Day, Timeout, MaxOpens,                 \* of BootNet
    Xmin, Xmax, Ymin, Ymax, Font,                   \* of BootScreen
    RbufSize, SioFifo, Ahead, Modifiers,            \* of BootConsole
    BootTimeout, SecsPerDay, Names                  \* of BootMain

\* LERBUF is not 0, and a day is longer than a moment.
ASSUME NetAssumption ==
    Lerbuf \in Nat \ {0} /\ Day \in Nat \ {0} /\ Timeout \in Nat \ {0} /\ MaxOpens \in Nat

\* There is at least one row and one column; a glyph is 12 bits wide.
ASSUME ScreenAssumption ==
    /\ Xmin \in Nat /\ Xmax \in Nat /\ Ymin \in Nat /\ Ymax \in Nat /\ Xmin < Xmax /\ Ymin < Ymax
    /\ \A ch \in DOMAIN Font : Font[ch] \subseteq 4..15

\* What is typed ahead of the polls fits in RBUF_SIZE, and one of the SHIFT keys is held
\* at a time: kbd.c has one flag for the two, which either one clears when it goes up.
ASSUME ConsoleAssumption ==
    /\ RbufSize \in Nat /\ SioFifo \in Nat \ {0} /\ Ahead \in Nat /\ Ahead < RbufSize
    /\ Modifiers \subseteq {"shift", "rshift", "ctrl", "meta"} /\ ~({"shift", "rshift"} \subseteq Modifiers)

VARIABLES
    part, \* the part that moves
    opens, attached, sock, rootip, stage, mounted, rmd, currmd, tmd, tint, chip, chipAt,
    io, deadline, secs, len, whole,
    col, row, escape, handler, esc, plane, text,
    console, push, pop, rbuf, shift, ctrl, meta, getc, fifo, held, unread, lost,
    pc, command, default, status, timeout, otick, now, name, fdev, fs

netVars     == <<opens, attached, sock, rootip, stage, mounted, rmd, currmd, tmd, tint, chip, chipAt,
                 io, deadline, secs, len, whole>>
screenVars  == <<col, row, escape, handler, esc, plane, text>>
consoleVars == <<console, push, pop, rbuf, shift, ctrl, meta, getc, fifo, held, unread, lost>>
mainVars    == <<pc, command, default, status, timeout, otick, now, name, fdev, fs>>
bootVars    == <<part, scsiVars, netVars, screenVars, consoleVars, mainVars>>

Net     == INSTANCE BootNet
Screen  == INSTANCE BootScreen
Console == INSTANCE BootConsole
Main    == INSTANCE BootMain

\* BOOT_TIMEOUT is not 0, and names are what make_device() takes apart.
ASSUME MainAssumption ==
    BootTimeout \in Nat \ {0} /\ SecsPerDay \in Nat \ {0} /\ Names \subseteq Main!NameOf

Parts == {"scsi", "net", "screen", "console", "main"}

\* The parts that have a choice of initial states make it only where they move.
BootInit ==
    /\ part \in Parts
    /\ Init /\ Net!Init /\ Screen!Init /\ Console!Init /\ Main!Init
    /\ part # "net" => secs = 0
    /\ part # "console" => console = "sio"
    /\ part # "main" => now = 0 /\ default = CHOOSE n \in Main!DefaultNames : TRUE

ScsiMoves    == part = "scsi" /\ Next /\ UNCHANGED <<netVars, screenVars, consoleVars, mainVars>>
NetMoves     == part = "net" /\ Net!Next /\ UNCHANGED <<scsiVars, screenVars, consoleVars, mainVars>>
ScreenMoves  == part = "screen" /\ Screen!Next /\ UNCHANGED <<scsiVars, netVars, consoleVars, mainVars>>
ConsoleMoves == part = "console" /\ Console!Next /\ UNCHANGED <<scsiVars, netVars, screenVars, mainVars>>
MainMoves    == part = "main" /\ Main!Next /\ UNCHANGED <<scsiVars, netVars, screenVars, consoleVars>>

BootNext == UNCHANGED part /\ (ScsiMoves \/ NetMoves \/ ScreenMoves \/ ConsoleMoves \/ MainMoves)

\* ScsiFairness, NetFairness and MainFairness of the part that moves
BootFairness ==
    /\ WF_scsiVars(part = "scsi" /\ Bus)
    /\ WF_scsiVars(part = "scsi" /\ (Scrun \/ Scintr \/ Scfinish))
    /\ WF_netVars(part = "net" /\ Net!LeGetTurn(1))
    /\ WF_netVars(part = "net" /\ Net!LeGetReturn)
    /\ WF_mainVars(part = "main" /\ Main!Clock)
    /\ WF_mainVars(part = "main" /\ Main!AwaitTick)
    /\ WF_mainVars(part = "main" /\ (Main!Devopen \/ Main!DevopenFails))

BootSpec == BootInit /\ [][BootNext]_bootVars /\ BootFairness

BootTypeOK == TypeOK /\ Net!TypeOK /\ Screen!TypeOK /\ Console!TypeOK /\ Main!TypeOK
ScreenShowsText == Screen!ScreenShowsText
OpenMeansMounted == Net!OpenMeansMounted

\* not kept by the code: boot_drop.cfg
GetReturnsAtNight == Net!GetReturnsAtNight
FrameIsWhole      == Net!FrameIsWhole
AwaitReturns      == Main!AwaitReturns

\* The two queues that an interrupt or the chip fills and a poll empties stay in
\* step: the LANCE's receive ring and the console's characters.
BuffersInStep == Net!RingInStep /\ Console!KeysInOrder

=============================================================================
