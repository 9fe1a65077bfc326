------------------------------ MODULE BootMain ------------------------------
(***************************************************************************)
(* The boot loader's main program: dip switches, NVRAM and main loop       *)
(* (init_main.c), the countdown (awaitkey.c), the command line (getline.c, *)
(* parse.c), device names (devopen.c) and the loading of a kernel (boot.c).*)
(* A name is the fields that make_device() looks at.  The devices, the     *)
(* file systems and loadfile() are external here.                          *)
(***************************************************************************)
EXTENDS Integers

CONSTANTS
    BootTimeout, \* BOOT_TIMEOUT
    SecsPerDay,  \* getsecs() wraps there
    Names        \* names given to the boot command

VARIABLES
    pc,        \* "start", "await", "line", "parse", "open", "load", "reset", "kernel" or "hung"
    command,   \* argv[0], "none" before the first
    default,   \* default_file
    status,    \* what the last command returned
    timeout,   \* timeout of awaitkey()
    otick,     \* otick of awaitkey()
    now,       \* getsecs()
    name,      \* what bootunix() is given
    fdev,      \* f_dev of the open file, or "none"
    fs         \* file_system[0]

mainVars == <<pc, command, default, status, timeout, otick, now, name, fdev, fs>>

\* "dev(unit,part)": paren and closed say whether the parentheses are there
NameOf == [dev : {"sd", "le", "other"}, paren : BOOLEAN, closed : BOOLEAN, unit : Nat, part : Nat]
Commands == {"boot", "exit", "help", "other"}
Devsw  == {"sd", "le"}
Maxpartitions == 16

\* snprintf() of nvram_by_symbol()'s values or sd, 0 and 0: all of them may be set
DefaultNames == {n \in Names : n.paren /\ n.closed}

TypeOK ==
    /\ pc \in {"start", "await", "line", "parse", "open", "load", "reset", "kernel", "hung"}
    /\ command \in Commands \cup {"none"} /\ default \in NameOf
    /\ status \in {"NORMAL", "EXIT", "NOTFOUND", "ERROR"}
    /\ timeout \in 0..BootTimeout
    /\ otick \in 0..(SecsPerDay - 1) /\ now \in 0..(SecsPerDay - 1)
    /\ name \in NameOf
    /\ fdev \in Devsw \cup {"none"} /\ fs \in {"none", "ufs", "nfs"}

Init ==
    /\ pc = "start" /\ status = "NORMAL" /\ timeout = BootTimeout
    /\ now \in 0..(SecsPerDay - 1) /\ otick = now
    /\ command = "none" /\ default \in DefaultNames /\ name = default
    /\ fdev = "none" /\ fs = "none"

-----------------------------------------------------------------------------
(* awaitkey() and main()                                                    *)

\* the loop of awaitkey() sees every second
Clock ==
    /\ pc = "await" /\ now = otick
    /\ now' = (now + 1) % SecsPerDay
    /\ UNCHANGED <<command, default, pc, status, timeout, otick, name, fdev, fs>>

\* SW1 of the dip switches
Start ==
    /\ pc = "start" /\ pc' \in {"await", "line"}
    /\ otick' = now
    /\ UNCHANGED <<command, default, status, timeout, now, name, fdev, fs>>

\* return boots, and any other key is for the prompt
AwaitKey ==
    /\ pc = "await" /\ pc' \in {"open", "line"}
    /\ UNCHANGED <<command, default, status, timeout, otick, now, name, fdev, fs>>

AwaitTick ==
    /\ pc = "await" /\ now # otick
    /\ otick' = now /\ timeout' = timeout - 1
    /\ pc' = IF timeout = 1 THEN "open" ELSE "await"
    /\ UNCHANGED <<command, default, status, now, name, fdev, fs>>

\* tgetchar() and getchar() poll by way of _siointr(), whose loop does not end on a
\* character with a framing error: it leaves the character where it is (BootConsole).
\* The clock is not looked at any more.
PollHangs ==
    /\ pc \in {"await", "line"} /\ pc' = "hung"
    /\ UNCHANGED <<command, default, status, timeout, otick, now, name, fdev, fs>>

\* getline() and getargs(): an empty line is no command
Getline ==
    /\ pc = "line" /\ pc' = "parse" /\ command' \in Commands
    /\ UNCHANGED <<default, status, timeout, otick, now, name, fdev, fs>>

\* boot(): with an argument or without
Boot ==
    /\ command = "boot"
    /\ pc' = "open" /\ name' \in Names \cup {default} /\ UNCHANGED status

\* parse(), and the main loop, which only ST_EXIT leaves
Parse ==
    /\ pc = "parse"
    /\ \/ Boot
       \/ command = "exit" /\ pc' = "reset" /\ status' = "EXIT" /\ UNCHANGED name
       \/ command = "help" /\ pc' = "line" /\ status' = "NORMAL" /\ UNCHANGED name
       \/ command = "other" /\ pc' = "line" /\ status' = "NOTFOUND" /\ UNCHANGED name
    /\ UNCHANGED <<command, default, timeout, otick, now, fdev, fs>>

-----------------------------------------------------------------------------
(* bootunix(), whose loadfile() opens and reads the file                    *)

\* make_device(); devsw[] has no entry without a name at its end, where the loop for
\* the device would stop
MakeDevice(n) ==
    /\ n.paren /\ n.closed /\ n.dev \in Devsw
    /\ n.unit < 20 /\ n.unit % 10 <= 7
    /\ n.part < Maxpartitions

Failed ==
    /\ pc' = "line" /\ status' = "ERROR" /\ fdev' = "none"
    /\ UNCHANGED <<command, default, timeout, otick, now, name>>

\* devopen(), when dv_open() has succeeded
Devopen ==
    /\ pc = "open" /\ MakeDevice(name)
    /\ pc' = "load" /\ fdev' = name.dev
    /\ fs' = IF name.dev = "le" THEN "nfs" ELSE "ufs"
    /\ UNCHANGED <<command, default, status, timeout, otick, now, name>>

DevopenFails == pc = "open" /\ Failed /\ UNCHANGED fs
LoadFails    == pc = "load" /\ Failed /\ UNCHANGED fs
\* the call of the kernel's entry
LoadKernel ==
    /\ pc = "load" /\ pc' = "kernel"
    /\ UNCHANGED <<command, default, status, timeout, otick, now, name, fdev, fs>>

Next ==
    \/ Clock \/ Start \/ AwaitKey \/ AwaitTick \/ PollHangs \/ Getline \/ Parse
    \/ Devopen \/ DevopenFails \/ LoadFails \/ LoadKernel

\* the clock runs, and the loader polls unless a poll hangs; devices answer in the modules
\* of their drivers
MainFairness == WF_mainVars(Clock) /\ WF_mainVars(AwaitTick) /\ WF_mainVars(Devopen \/ DevopenFails)

Spec == Init /\ [][Next]_mainVars /\ MainFairness

-----------------------------------------------------------------------------
\* Nobody at the keyboard: the countdown comes to an end and the default file is tried,
\* at midnight too, unless a key is pressed or a poll hangs in _siointr().
AwaitEnds == pc = "await" ~> pc \in {"open", "line", "hung"}

\* "Wait timeout seconds until any input from stdin": the countdown ends in any case.
AwaitReturns == pc = "await" ~> pc \in {"open", "line"}
=============================================================================
