------------------------------ MODULE TimeOfDay ------------------------------
(***************************************************************************)
(* The time of day: the clock chip (src/dev/timekeeper.c) and the system's *)
(* time (src/luna88k/clock.c) across settings of the time, reboots, early  *)
(* panics and a flat battery.                                              *)
(*                                                                         *)
(* A time is a number of months since January 1970 (Months of them to the  *)
(* year); the chip's registers are the year's byte and the month's, which  *)
(* stands for the fields below the year.  The chip, its battery and        *)
(* whoever sets the time are external.                                     *)
(***************************************************************************)
EXTENDS Integers

CONSTANTS
    Times,          \* the times of an instance, on an "88k" and on an "88k2"
    Base            \* 2012, below which a file system's time is not believed

VARIABLES
    machine,    \* machtype: "88k" has an MK48T02, "88k2" a DS1397
    chip,       \* the chip's registers: year and month
    up,         \* the processor: "off", "cold" before cpu_initclocks(), "early"
                \* before inittodr(), "running"
    todrvalid,
    time,       \* time_second
    base,       \* the time of the last update of the root file system
    battery,    \* whether the chip has kept its registers since they were set
    right       \* the time as the last who set it would know it

clockVars == <<machine, chip, up, todrvalid, time, base, battery, right>>

Months == 12

FromBcd(x) == ((x \div 16) * 10) + (x % 16)
ToBcd(x)   == ((x \div 10) * 16) + (x % 10)

Year0 == IF machine = "88k" THEN 1970 ELSE 1990

Year(t)  == 1970 + (t \div Months)
Month(t) == (t % Months) + 1

\* clock_ymdhms_to_secs()
Secs(year, month) == ((year - 1970) * Months) + month - 1

(***************************************************************************)
(* mkclock_set() and dsclock_set(), mkclock_get() and dsclock_get(): a     *)
(* register is 8 bits wide.                                                *)
(***************************************************************************)
SetRegisters(t) == [year |-> ToBcd((Year(t) - Year0) % 256) % 256, month |-> ToBcd(Month(t))]

GetYearWrong(c) == FromBcd(c.year) + 1970

GetYear(c) ==
    LET y == FromBcd(c.year)
    IN  (IF y > 100 THEN y - (Year0 % 100) ELSE y) + Year0

GetMonth(c) == FromBcd(c.month)

\* The checks of inittodr(), of the fields here.
Sane(c) == GetYear(c) >= 1970 /\ GetMonth(c) \in 1..12

ChipTime(c) == Secs(GetYear(c), GetMonth(c))

TypeOK ==
    /\ machine \in {"88k", "88k2"}
    /\ chip \in [year : 0..255, month : 0..255]
    /\ up \in {"off", "cold", "early", "running"}
    /\ {todrvalid, battery} \subseteq BOOLEAN
    /\ time \in Times[machine] \cup {0} /\ {base, right} \subseteq Times[machine]
    /\ up # "running" => ~todrvalid

Init ==
    /\ machine \in {"88k", "88k2"}
    /\ right \in Times[machine] /\ base = right /\ time = 0
    /\ chip = SetRegisters(right) /\ battery = TRUE
    /\ up = "off" /\ todrvalid = FALSE

(***************************************************************************)
(* Time wears on: in the chip, which counts in BCD, and in the system, by  *)
(* the clock interrupts of the primary processor.                          *)
(***************************************************************************)
Next99(y) == IF y > 153 THEN y ELSE IF y = 153 THEN 0 ELSE IF y % 16 = 9 THEN y + 7 ELSE y + 1

Ticked(c) ==
    CASE c.month = ToBcd(Months)                          -> [year |-> Next99(c.year), month |-> 1]
      [] c.month # ToBcd(Months) /\ GetMonth(c) < Months  -> [c EXCEPT !.month = Next99(@)]
      [] OTHER                                            -> c

\* clockintr(); before inittodr() the time is a fraction of a month
Tick ==
    /\ right' = right + 1 /\ right' \in Times[machine]
    /\ chip' = Ticked(chip)
    /\ time' = IF up = "running" THEN time + 1 ELSE time
    /\ UNCHANGED <<machine, up, todrvalid, base, battery>>

\* The battery is flat: the registers hold anything, a time or none.
BatteryFails ==
    /\ up = "off"
    /\ chip' \in {[year |-> 0, month |-> 0], [year |-> 255, month |-> 255], [year |-> 36, month |-> 19],
                 [year |-> 255, month |-> 5]}
    /\ battery' = FALSE
    /\ UNCHANGED <<machine, up, todrvalid, time, base, right>>

(***************************************************************************)
(* Start-up.                                                               *)
(***************************************************************************)
PowerOn ==
    /\ up = "off" /\ up' = "cold"
    /\ time' = 0 /\ todrvalid' = FALSE
    /\ UNCHANGED <<machine, chip, base, battery, right>>

CpuInitclocks ==
    /\ up = "cold" /\ up' = "early"
    /\ UNCHANGED <<machine, chip, todrvalid, time, base, battery, right>>

\* The time everybody has now to go by; nobody set it if no battery kept it.
Inittodr(t) ==
    /\ up = "early" /\ up' = "running"
    /\ todrvalid' = TRUE /\ time' = t
    /\ right' = IF battery THEN right ELSE t
    /\ UNCHANGED <<machine, base>>

InittodrChip ==
    /\ Sane(chip) /\ ChipTime(chip) \in Times[machine]
    /\ Inittodr(ChipTime(chip)) /\ UNCHANGED <<chip, battery>>

\* A preposterous chip: the file system is believed and, unless it is preposterous
\* too, the chip set from it.
InittodrBase ==
    /\ ~Sane(chip)
    /\ IF base < Base
       THEN Inittodr(Base) /\ UNCHANGED <<chip, battery>>
       ELSE Inittodr(base) /\ chip' = SetRegisters(base) /\ battery' = TRUE

(***************************************************************************)
(* settimeofday(), the updates of the super block, and the end.            *)
(***************************************************************************)
Settime ==
    /\ up = "running"
    /\ \E t \in Times[machine] : time' = t /\ right' = t /\ chip' = SetRegisters(t)
    /\ battery' = TRUE
    /\ UNCHANGED <<machine, up, todrvalid, base>>

Sync ==
    /\ up = "running" /\ base' = time
    /\ UNCHANGED <<machine, chip, up, todrvalid, time, battery, right>>

ResettodrWrong ==
    /\ up # "cold"
    /\ chip' = SetRegisters(time) /\ battery' = TRUE

\* resettodr(), which knows the time only if inittodr() has been called.
Resettodr ==
    IF todrvalid THEN chip' = SetRegisters(time) /\ battery' = TRUE ELSE UNCHANGED <<chip, battery>>

\* boot(): a halt, a reboot or a panic, with RB_TIMEBAD or RB_NOSYNC or while still
\* cold too.
Boot ==
    /\ up # "off" /\ up' = "off"
    /\ todrvalid' = FALSE /\ time' = 0
    /\ \/ UNCHANGED <<chip, battery>>
       \/ up # "cold" /\ Resettodr
    /\ UNCHANGED <<machine, base, right>>

Next ==
    \/ Tick \/ BatteryFails \/ PowerOn \/ CpuInitclocks \/ InittodrChip \/ InittodrBase
    \/ Settime \/ Sync \/ Boot

Spec == Init /\ [][Next]_clockVars

-----------------------------------------------------------------------------
(***************************************************************************)
(* The system knows the time: once inittodr() has run it is the time that  *)
(* was last set, by whom- or whatever, and as long as the battery lasts    *)
(* the chip's registers say the same through reboots and panics, across    *)
(* years that are 1 month from 99 to 00 and above 100.  Through December   *)
(* 2069 on an 88k and 2089 on an 88k2: the two-digit chip goes on at 00,   *)
(* which is read as 1970 and 1990.                                         *)
(***************************************************************************)
TimeIsKept ==
    /\ todrvalid => time = right
    /\ battery => Sane(chip) /\ ChipTime(chip) = right
=============================================================================
